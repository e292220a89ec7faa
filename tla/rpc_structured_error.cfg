\* One heartbeat is enough.
SPECIFICATION MCSpec
CONSTANTS
    Task = task
    Heart = heart
    Tools = {}
    Statuses = {"200", "404", "409", "500"}
    Bodies <- ErrorBodies
    MaxRequests = 2
    NetRequests = 0
    Inputs <- SomeInputs
    Receivers <- SomeReceivers
    Skew = 0
    MaxDelay = 0
CHECK_DEADLOCK FALSE
INVARIANT StructuredErrorDecides
