--------------------------- MODULE LeaseHandover ---------------------------
(***************************************************************************)
(* One run handed from executor to executor (src/main.rs,                  *)
(* src/control_rpc.rs).  The scheduler grants the run's lease, with a new  *)
(* version each time, and asks a container to /start the run under it; it  *)
(* may do so although the executor before is still at work, and in the     *)
(* same container.  A container knows runs by their id alone: a /start for *)
(* a run it has is answered 202 and forgotten (main.rs:286-295), whatever  *)
(* its lease.  Heartbeats name the lease of their execution; reports do    *)
(* not, and carry the token that came with it, unless                      *)
(* TAKOS_AGENT_CONTROL_RPC_TOKEN overrides all tokens                      *)
(* (control_rpc.rs:739-763).                                               *)
(*                                                                         *)
(* An execution is drawn with the few places that matter here;             *)
(* RunLifecycle has the details.  Scheduler and control plane are          *)
(* external: they compare the lease of a heartbeat and revoke the token of *)
(* a lease that was granted anew (README.md:70-72).                        *)
(***************************************************************************)
EXTENDS Naturals

CONSTANTS
    Containers,     \* the containers of the executor pool
    MaxLease        \* bound: how often the run's lease is granted

ASSUME MaxLeaseAssumption == MaxLease \in Nat

VARIABLES
    override,   \* the environment names one token for all executions
    lease,      \* the version of the run's lease; 0 before the first grant
    holder,     \* the container it was last granted to
    starts,     \* the /start requests sent
    execs,      \* the execution that each container has of the run
    served,     \* the leases that some execution was begun under
    beats,      \* heartbeats on their way
    renewed,    \* the leases that a heartbeat has renewed
    reports,    \* status reports on their way
    record      \* the lease of the execution whose report is on record; or 0

handoverVars == <<override, lease, holder, starts, execs, served, beats, renewed,
                  reports, record>>
controlVars == <<lease, holder, starts, record>>

\* "setup": execute_run before its heartbeat.  "turn": with it.  "cancelled":
\* the token is cancelled, the turn goes on.  "closing": after the turn.
\* "reported": the report is sent.  "failing": for the net.
Places == {"idle", "setup", "turn", "cancelled", "closing", "reported", "failing"}

NoLease == 0
Leases == 1..MaxLease
AnyToken == MaxLease + 1    \* the token of the environment

Idle == [pc |-> "idle", lease |-> NoLease, token |-> NoLease, beating |-> FALSE]

HandoverInit ==
    /\ override \in BOOLEAN
    /\ lease = NoLease /\ holder \in Containers /\ starts = {}
    /\ execs = [c \in Containers |-> Idle]
    /\ served = {} /\ beats = {} /\ renewed = {} /\ reports = {}
    /\ record = NoLease

-----------------------------------------------------------------------------
(* The scheduler *)

\* It takes the executor of the run for lost, or there is none yet.
Grant(c) ==
    /\ lease < MaxLease /\ record = NoLease
    /\ lease' = lease + 1 /\ holder' = c
    /\ starts' = starts \cup {[to |-> c, lease |-> lease + 1]}
    /\ UNCHANGED <<override, execs, served, beats, renewed, reports, record>>

-----------------------------------------------------------------------------
(* POST /start: a request once sent arrives late, again, or never *)

\* The client of an execution: resolve_control_rpc_config.
TokenOf(l) == IF override THEN AnyToken ELSE l

Register(c, s) ==
    /\ execs[c].pc = "idle"
    /\ execs' = [execs EXCEPT ![c] =
           [pc |-> "setup", lease |-> s.lease, token |-> TokenOf(s.lease),
            beating |-> FALSE]]
    /\ served' = served \cup {s.lease}
    /\ UNCHANGED <<override, controlVars, beats, renewed, reports>>

\* Slip: the execution there is goes on with the token that came last.
DuplicateRefreshes(c, s) ==
    /\ execs[c].pc # "idle"
    /\ execs' = [execs EXCEPT ![c].token = TokenOf(s.lease)]
    /\ UNCHANGED <<override, controlVars, served, beats, renewed, reports>>

Duplicate(c, s) ==
    /\ execs[c].pc # "idle"
    /\ UNCHANGED handoverVars

Start(c) ==
    \E s \in starts : s.to = c /\ (Register(c, s) \/ Duplicate(c, s))

-----------------------------------------------------------------------------
(* The execution *)

MovesOn(c, from, to) ==
    /\ execs[c].pc \in from
    /\ execs' = [execs EXCEPT ![c].pc = to]

localVars == <<override, controlVars, served, beats, renewed, reports>>

SetupPasses(c) == MovesOn(c, {"setup"}, "turn") /\ UNCHANGED localVars
SetupFails(c) == MovesOn(c, {"setup"}, "failing") /\ UNCHANGED localVars

\* The heartbeat's handle is awaited before anything else.
TurnEnds(c) ==
    /\ ~execs[c].beating
    /\ MovesOn(c, {"turn", "cancelled"}, "closing")
    /\ UNCHANGED localVars

SentReport(c) == [lease |-> execs[c].lease, token |-> execs[c].token]

\* update-run-status, from the execution itself or from the net; the reply may
\* arrive while the next step is already taken after a timeout.
Report(c, from) ==
    /\ MovesOn(c, {from}, "reported")
    /\ reports' = reports \cup {SentReport(c)}
    /\ UNCHANGED <<override, controlVars, served, beats, renewed>>

ReportFails(c) == MovesOn(c, {"reported"}, "failing") /\ UNCHANGED localVars

\* RunSlotGuard::drop: the container forgets the run.
Freed(c) == [execs EXCEPT ![c] = Idle]

Ends(c) ==
    /\ execs[c].pc = "reported"
    /\ execs' = Freed(c)
    /\ UNCHANGED localVars

\* A panic, or the container restarts; requests on their way stay there.
Dies(c) ==
    /\ execs[c].pc # "idle"
    /\ execs' = Freed(c)
    /\ UNCHANGED localVars

-----------------------------------------------------------------------------
(* The heartbeat *)

\* Slip: a heartbeat that names no lease.
BeatUnversioned(c) ==
    /\ execs[c].pc = "turn" /\ ~execs[c].beating
    /\ execs' = [execs EXCEPT ![c].beating = TRUE]
    /\ beats' = beats \cup {[from |-> c, lease |-> NoLease]}
    /\ UNCHANGED <<override, controlVars, served, renewed, reports>>

Beat(c) ==
    /\ execs[c].pc = "turn" /\ ~execs[c].beating
    /\ execs' = [execs EXCEPT ![c].beating = TRUE]
    /\ beats' = beats \cup {[from |-> c, lease |-> execs[c].lease]}
    /\ UNCHANGED <<override, controlVars, served, renewed, reports>>

\* leaseVersion is optional, and the control plane can compare only what it is
\* given.
Renews(b) == b.lease \in {NoLease, lease}

\* The control plane gets it; the reply may come too late for the sender.
BeatArrives(b) ==
    /\ beats' = beats \ {b}
    /\ renewed' = IF Renews(b) THEN renewed \cup {lease} ELSE renewed
    /\ UNCHANGED <<override, controlVars, served, execs, reports>>

\* An answer other than a lost lease, an error, or none within the timeout.
BeatReturns(c) ==
    /\ execs[c].beating
    /\ execs' = [execs EXCEPT ![c].beating = FALSE]
    /\ UNCHANGED localVars

\* Slip: heartbeat_loop breaks without cancelling the run.
LearnsLossSilently(c) ==
    /\ execs[c].pc = "turn" /\ execs[c].beating /\ execs[c].lease # lease
    /\ UNCHANGED handoverVars

\* 409, lease lost.
LearnsLoss(c) ==
    /\ execs[c].pc = "turn" /\ execs[c].beating /\ execs[c].lease # lease
    /\ execs' = [execs EXCEPT ![c].beating = FALSE, ![c].pc = "cancelled"]
    /\ UNCHANGED localVars

-----------------------------------------------------------------------------
(* The control plane *)

\* It takes a report under any token that is not revoked.
Takes(r) == r.token \in {lease, AnyToken}

ReportArrives(r) ==
    /\ reports' = reports \ {r}
    /\ record' = IF Takes(r) THEN r.lease ELSE record
    /\ UNCHANGED <<override, lease, holder, starts, served, beats, renewed, execs>>

-----------------------------------------------------------------------------
HeartbeatStep(c) == Beat(c) \/ BeatReturns(c) \/ LearnsLoss(c)

TaskStep(c) ==
    \/ SetupPasses(c) \/ SetupFails(c) \/ TurnEnds(c)
    \/ Report(c, "closing") \/ Report(c, "failing")
    \/ ReportFails(c) \/ Ends(c)

HandoverNext ==
    \/ \E c \in Containers :
           Grant(c) \/ Start(c) \/ TaskStep(c) \/ Dies(c) \/ HeartbeatStep(c)
    \/ \E b \in beats : BeatArrives(b)
    \/ \E r \in reports : ReportArrives(r)

HandoverSpec == HandoverInit /\ [][HandoverNext]_handoverVars

\* Around the turn RPCs end within their timeout, a report may fail at most
\* now and then, and the engine gives up a cancelled turn; of other turns
\* nothing is assumed.  A heartbeat is sent again and again and can be told of
\* the loss in the end (as in RunTurn), and the scheduler goes on sending
\* the /start of a lease that is not renewed.
EndsWhenLost(c) == execs[c].pc = "cancelled" /\ TurnEnds(c)
Proceeds(c) ==
    \/ SetupPasses(c) \/ SetupFails(c) \/ EndsWhenLost(c)
    \/ Report(c, "closing") \/ Report(c, "failing")
Fairness ==
    \A c \in Containers :
        /\ WF_handoverVars(Proceeds(c)) /\ SF_handoverVars(Ends(c))
        /\ WF_handoverVars(Beat(c)) /\ SF_handoverVars(LearnsLoss(c))
        /\ \A l \in Leases :
               SF_handoverVars(Register(c, [to |-> c, lease |-> l])
                       /\ [to |-> c, lease |-> l] \in starts
                       /\ lease = l)

FairSpec == HandoverSpec /\ Fairness

-----------------------------------------------------------------------------
(* Properties *)

\* A container without an execution of the run keeps nothing of one.
Executions ==
    [pc : Places \ {"idle"}, lease : Leases, token : Leases \cup {AnyToken},
     beating : BOOLEAN]

HandoverTypeOK ==
    /\ override \in BOOLEAN
    /\ lease \in 0..MaxLease /\ holder \in Containers
    /\ starts \subseteq [to : Containers, lease : Leases]
    /\ execs \in [Containers -> Executions \cup {Idle}]
    /\ served \subseteq Leases /\ renewed \subseteq Leases
    /\ beats \subseteq [from : Containers, lease : Leases]
    /\ reports \subseteq [lease : Leases, token : Leases \cup {AnyToken}]
    /\ record \in 0..MaxLease

\* A lease is renewed only if the run was begun under it.  The 202 for a /start
\* that met the execution before it (main.rs:286-295) looks like acceptance,
\* but no heartbeat ever confirms it, not even those of the execution that was
\* met (control_rpc.rs:447-460): the scheduler can tell and send it again.
RenewedMeansServed == renewed \subseteq served

\* The record changes only by the execution that holds the lease at the time,
\* however late or from however many executors reports arrive, although a
\* report names no lease (control_rpc.rs:498-518): the token of its own /start
\* goes with it (control_rpc.rs:268-272).  This does not hold where the
\* environment overrides the tokens, and there a displaced executor can decide
\* the run of its successor.
OnlyHolderDecides ==
    [][record' # record => override \/ record' = lease]_handoverVars

\* A lease is served in the end, unless it is granted anew or the run is
\* decided: the execution that its /start meets in the container, and those
\* that late requests begin there, do not keep it out for ever.
GrantIsServed ==
    \A l \in Leases :
        lease = l ~> (l \in served \/ lease # l \/ record # NoLease)
=============================================================================
