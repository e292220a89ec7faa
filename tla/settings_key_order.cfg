\* Every combination of keys; numbers and names do not matter.
SPECIFICATION MCSpec
CONSTANTS
    Absent = Absent
    Blank = Blank
    Text = Text
    Environments <- AllEnvironments
    RunConfigs <- AllRunConfigs
    JsonNumbers = {}
    EnvNumbers = {}
    MaxU32 = 1000
    DefaultGraphSteps = 64
    DefaultToolRounds = 8
    Ids = {}
    Texts = {}
    Letters = {"a"}
    Width <- SomeWidths
    TargetLen = 8
CHECK_DEADLOCK FALSE
INVARIANT EnvironmentKeyIsLast
