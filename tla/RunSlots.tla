------------------------------ MODULE RunSlots ------------------------------
(***************************************************************************)
(* What the admission half of takos-agent promises, with everything about  *)
(* HTTP, locks and tasks left out: a fixed number of slots, each held by a *)
(* run that this process is executing; a run is never executed twice at    *)
(* the same time, and no run is executed beyond the last slot.             *)
(***************************************************************************)
EXTENDS Naturals, FiniteSets

CONSTANTS Runs,                 \* the run identifiers the host may send
          MaxConcurrentRuns     \* MAX_CONCURRENT_RUNS

VARIABLE executing              \* the runs this process is executing

Init == executing = {}

Begin(r) == /\ r \notin executing
            /\ Cardinality(executing) < MaxConcurrentRuns
            /\ executing' = executing \cup {r}

End(r) == /\ r \in executing
          /\ executing' = executing \ {r}

\* The process dies: every execution is gone at once.
Die == executing' = {}

Next == \/ \E r \in Runs : Begin(r) \/ End(r)
        \/ Die

Spec == Init /\ [][Next]_executing
=============================================================================
