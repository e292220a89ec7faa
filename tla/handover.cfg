\* Two containers and two leases: the second goes to the other container, or to
\* the one where the first execution is in its way.
SPECIFICATION FairSpec
CONSTANTS
    Containers = {c1, c2}
    MaxLease = 2
CHECK_DEADLOCK FALSE
INVARIANT RenewedMeansServed
PROPERTIES OnlyHolderDecides GrantIsServed
