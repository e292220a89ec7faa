\* Two keys that may be good, bad or the same, two endpoints, and
\* three calls.
SPECIFICATION FairSpec
CONSTANTS
    k1 = k1
    k2 = k2
    Keys = {k1, k2}
    NoKey = NoKey
    Endpoints = {{}, {"401"}}
    MaxCalls = 3
CHECK_DEADLOCK FALSE
INVARIANTS UsageIsOfOutputs KeysAreTried ServedCallsStand
PROPERTY CallsEnd
