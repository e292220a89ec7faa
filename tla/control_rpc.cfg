\* Three callers at once, every way in which a request can fail with a status
\* that decides something; the net takes over at any moment it can; a clock that
\* differs by up to one more than is tolerated.
SPECIFICATION MCSpec
CONSTANTS
    Task = task
    Heart = heart
    Tools = {t1}
    Statuses = {"404", "409"}
    Bodies <- ErrorBodies
    MaxRequests = 3
    NetRequests = 1
    Inputs <- SomeInputs
    Receivers <- SomeReceivers
    Skew = 2
    MaxDelay = 3
CHECK_DEADLOCK FALSE
INVARIANTS NumbersCanBeTrusted CancelledByLostLeaseOnly RoundTrip AcceptedAsSigned
