\* Every combination of embedding settings, every number in every place, two
\* runs with any ids, and every short request for a title of eight bytes.
SPECIFICATION MCSpec
CONSTANTS
    Absent = Absent
    Blank = Blank
    Text = Text
    Environments <- AllEnvironments
    RunConfigs <- AllRunConfigs
    JsonNumbers <- SomeNumbers
    EnvNumbers <- SomeEnvNumbers
    MaxU32 = 1000
    DefaultGraphSteps = 64
    DefaultToolRounds = 8
    Ids <- SomeIds
    Texts <- SomeTexts
    Letters = {"a"}
    Width <- SomeWidths
    TargetLen = 8
CHECK_DEADLOCK FALSE
INVARIANTS MemoryIsOfOneEmbedding LimitsAreAsAsked NamesAreSound
