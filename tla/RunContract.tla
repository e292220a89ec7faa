----------------------------- MODULE RunContract -----------------------------
(***************************************************************************)
(* What one execution of a run promises the control plane about the run's  *)
(* outcome.  The execution reports an outcome itself and, should that      *)
(* report stay without an acknowledgement, its fallback reports once more, *)
(* that the run did not complete, with zero usage.  Nothing is reported    *)
(* after an acknowledgement or after the execution is over.  What the      *)
(* control plane has on record is a report of this execution; a report     *)
(* whose reply was lost may reach the record late, an acknowledged one is  *)
(* already there.                                                          *)
(***************************************************************************)
EXTENDS Naturals

CONSTANT MaxUsage                   \* bound on the usage a run may report

Statuses == {"completed", "failed", "cancelled", "running"}
Reports == [by : {"run", "net"}, status : Statuses, usage : 0..MaxUsage]
NoReport == [by |-> "nobody", status |-> "running", usage |-> 0]

VARIABLES sent,     \* the reports sent so far
          acked,    \* the one whose acknowledgement came back, if any
          record,   \* what the control plane has on record
          open      \* the execution is not over

vars == <<sent, acked, record, open>>

Init == /\ sent = {}
        /\ acked = NoReport
        /\ record = NoReport
        /\ open = TRUE

\* The execution's own report is its first; the fallback's is its last.
InTurn(report) ==
    \/ report.by = "run" /\ sent = {}
    \/ /\ report.by = "net"
       /\ report.status \in {"failed", "cancelled"}
       /\ report.usage = 0
       /\ \A earlier \in sent : earlier.by = "run"

Report(report) ==
    /\ open
    /\ acked = NoReport
    /\ InTurn(report)
    /\ sent' = sent \cup {report}
    /\ \/ record' = report /\ acked' \in {NoReport, report}
       \/ UNCHANGED <<record, acked>>
    /\ open' \in BOOLEAN

ArriveLate(report) ==
    /\ report \in sent \ {acked}
    /\ record' = report
    /\ UNCHANGED <<sent, acked, open>>

End == open /\ open' = FALSE /\ UNCHANGED <<sent, acked, record>>

Next == \/ \E report \in Reports : Report(report) \/ ArriveLate(report)
        \/ End

Spec == Init /\ [][Next]_vars
=============================================================================
