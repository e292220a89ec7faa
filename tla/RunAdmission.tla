---------------------------- MODULE RunAdmission ----------------------------
(***************************************************************************)
(* The HTTP surface of takos-agent (src/main.rs): POST /start, which       *)
(* admits a run and spawns the task that executes it, GET /health, the     *)
(* middleware around them, and the registry of active runs with its RAII   *)
(* slot guard.                                                             *)
(*                                                                         *)
(* A handler is one request in flight.  `start` has no await after its     *)
(* body has been read, so a handler can only be dropped (TimeoutLayer, or  *)
(* the peer hanging up) while it is "receiving".  The registry lock makes  *)
(* try_register_run, finish_run and each count one step; every other step  *)
(* of a handler or a task may be interleaved with those of the others.     *)
(*                                                                         *)
(* What the task does between Spawn and TaskEnds is module RunLifecycle.   *)
(***************************************************************************)
EXTENDS Naturals, FiniteSets, Sequences

CONSTANTS Runs,               \* run identifiers
          Handlers,           \* requests that may be in flight at once
          MaxConcurrentRuns,  \* MAX_CONCURRENT_RUNS
          HandlersPerRun,     \* ConcurrencyLimitLayer factor (8 in the code)
          IncludeCounts,      \* what TAKOS_AGENT_HEALTH_INCLUDE_COUNTS may say:
                              \* GET /health looks it up every time
          Health, NoRequest   \* what a handler works on besides a run

ASSUME RunsAssumption == IsFiniteSet(Runs) /\ {Health, NoRequest} \cap Runs = {}
ASSUME HandlersAssumption == IsFiniteSet(Handlers)
ASSUME CapacityAssumption == /\ MaxConcurrentRuns \in Nat \ {0}
                             /\ HandlersPerRun \in Nat \ {0}
ASSUME CountsAssumption == IncludeCounts \subseteq BOOLEAN
ASSUME RequestAssumption == Health # NoRequest

VARIABLES active,     \* ServiceState.active_runs
          phase,      \* where each handler is
          request,    \* the run it was asked to start, or Health
          reply,      \* what it answered
          counts,     \* the run counts GET /health has read so far
          working,    \* per run: tasks inside execute_run or its fallback
          unwinding   \* per run: tasks that are over but still hold _slot

vars == <<active, phase, request, reply, counts, working, unwinding>>
handlerVars == <<phase, request, reply, counts>>
taskVars == <<working, unwinding>>

Phases == {"idle", "receiving", "admitted", "counting", "replied"}
Replies == {"none", "timeout", "rejected", "duplicate", "at_capacity",
            "accepted", "health"}

TypeOK ==
    /\ active \subseteq Runs
    /\ phase \in [Handlers -> Phases]
    /\ request \in [Handlers -> Runs \cup {Health, NoRequest}]
    /\ reply \in [Handlers -> Replies]
    /\ counts \in [Handlers -> Seq(Nat)]
    /\ working \in [Runs -> Nat]
    /\ unwinding \in [Runs -> Nat]

Init ==
    /\ active = {}
    /\ phase = [h \in Handlers |-> "idle"]
    /\ request = [h \in Handlers |-> NoRequest]
    /\ reply = [h \in Handlers |-> "none"]
    /\ counts = [h \in Handlers |-> <<>>]
    /\ working = [r \in Runs |-> 0]
    /\ unwinding = [r \in Runs |-> 0]

Answer(h, answer) ==
    /\ phase' = [phase EXCEPT ![h] = "replied"]
    /\ reply' = [reply EXCEPT ![h] = answer]

InFlight == {h \in Handlers : phase[h] # "idle"}
ActiveRunCount == Cardinality(active)
AvailableRunSlots ==                      \* saturating_sub
    IF ActiveRunCount > MaxConcurrentRuns
    THEN 0 ELSE MaxConcurrentRuns - ActiveRunCount

-----------------------------------------------------------------------------
(* Requests and middleware *)

\* ConcurrencyLimitLayer lets the request in; its body is still arriving.
Receive(h, target) ==
    /\ phase[h] = "idle"
    /\ Cardinality(InFlight) < MaxConcurrentRuns * HandlersPerRun
    /\ phase' = [phase EXCEPT ![h] = "receiving"]
    /\ request' = [request EXCEPT ![h] = target]
    /\ UNCHANGED <<active, reply, counts, taskVars>>

\* Slip: an await between try_register_run and tokio::spawn.
TimeoutAnywhere(h) ==
    /\ phase[h] \in {"receiving", "admitted"}
    /\ Answer(h, "timeout")
    /\ UNCHANGED <<active, request, counts, taskVars>>

\* TimeoutLayer drops the handler's future, which it can do only at an await.
TimeoutHandler(h) ==
    /\ phase[h] = "receiving"
    /\ Answer(h, "timeout")
    /\ UNCHANGED <<active, request, counts, taskVars>>

\* The answer is on the wire: the handler's place is free again.
Respond(h) ==
    /\ phase[h] = "replied"
    /\ phase' = [phase EXCEPT ![h] = "idle"]
    /\ request' = [request EXCEPT ![h] = NoRequest]
    /\ reply' = [reply EXCEPT ![h] = "none"]
    /\ counts' = [counts EXCEPT ![h] = <<>>]
    /\ UNCHANGED <<active, taskVars>>

-----------------------------------------------------------------------------
(* POST /start *)

StartRequest(h) == phase[h] = "receiving" /\ request[h] \in Runs

\* authorize_start_request fails (401/503), the payload does not parse (400),
\* or RequestBodyLimitLayer refuses it (413).
RejectStart(h) ==
    /\ StartRequest(h)
    /\ Answer(h, "rejected")
    /\ UNCHANGED <<active, request, counts, taskVars>>

Duplicate(h) ==
    /\ StartRequest(h)
    /\ request[h] \in active
    /\ Answer(h, "duplicate")
    /\ UNCHANGED <<active, request, counts, taskVars>>

AtCapacity(h) ==
    /\ StartRequest(h)
    /\ request[h] \notin active
    /\ ActiveRunCount >= MaxConcurrentRuns
    /\ Answer(h, "at_capacity")
    /\ UNCHANGED <<active, request, counts, taskVars>>

Admit(h) ==
    /\ active' = active \cup {request[h]}
    /\ phase' = [phase EXCEPT ![h] = "admitted"]
    /\ UNCHANGED <<request, reply, counts, taskVars>>

\* Slip: the insert without the check for a duplicate.
RegisterAgain(h) ==
    /\ StartRequest(h)
    /\ ActiveRunCount < MaxConcurrentRuns
    /\ Admit(h)

Register(h) ==
    /\ StartRequest(h)
    /\ request[h] \notin active
    /\ ActiveRunCount < MaxConcurrentRuns
    /\ Admit(h)

\* try_register_run: one critical section, three outcomes.
TryRegisterRun(h) == Duplicate(h) \/ AtCapacity(h) \/ Register(h)

\* Slip: the guard lives in the handler instead of the task.
SpawnWithoutSlot(h) ==
    /\ phase[h] = "admitted"
    /\ working' = [working EXCEPT ![request[h]] = @ + 1]
    /\ active' = active \ {request[h]}
    /\ Answer(h, "accepted")
    /\ UNCHANGED <<request, counts, unwinding>>

\* tokio::spawn and the 202 answer; the task owns the slot from here on.
Spawn(h) ==
    /\ phase[h] = "admitted"
    /\ working' = [working EXCEPT ![request[h]] = @ + 1]
    /\ Answer(h, "accepted")
    /\ UNCHANGED <<active, request, counts, unwinding>>

-----------------------------------------------------------------------------
(* The spawned task *)

\* execute_run and its fallback are over: normally, with an error, or by a
\* panic that is now unwinding the task.  In each case _slot is still held.
TaskEnds(r) ==
    /\ working[r] > 0
    /\ working' = [working EXCEPT ![r] = @ - 1]
    /\ unwinding' = [unwinding EXCEPT ![r] = @ + 1]
    /\ UNCHANGED <<active, handlerVars>>

\* Slip: an exit path without finish_run.
LeakSlot(r) ==
    /\ unwinding[r] > 0
    /\ unwinding' = [unwinding EXCEPT ![r] = @ - 1]
    /\ UNCHANGED <<active, handlerVars, working>>

\* Drop for RunSlotGuard: finish_run.
ReleaseSlot(r) ==
    /\ unwinding[r] > 0
    /\ unwinding' = [unwinding EXCEPT ![r] = @ - 1]
    /\ active' = active \ {r}
    /\ UNCHANGED <<handlerVars, working>>

-----------------------------------------------------------------------------
(* GET /health *)

HealthRequest(h) == phase[h] = "receiving" /\ request[h] = Health

HealthWithoutCounts(h) ==
    /\ HealthRequest(h)
    /\ FALSE \in IncludeCounts
    /\ Answer(h, "health")
    /\ UNCHANGED <<active, request, counts, taskVars>>

\* active_run_count(): the first of two separate lock acquisitions.
CountActive(h) ==
    /\ HealthRequest(h)
    /\ TRUE \in IncludeCounts
    /\ counts' = [counts EXCEPT ![h] = <<ActiveRunCount>>]
    /\ phase' = [phase EXCEPT ![h] = "counting"]
    /\ UNCHANGED <<active, request, reply, taskVars>>

\* available_run_slots(): the second one.
CountAvailable(h) ==
    /\ phase[h] = "counting"
    /\ counts' = [counts EXCEPT ![h] = Append(@, AvailableRunSlots)]
    /\ Answer(h, "health")
    /\ UNCHANGED <<active, request, taskVars>>

-----------------------------------------------------------------------------
\* The container is killed and started again: nothing of the above survives.
Restart ==
    /\ active' = {}
    /\ phase' = [h \in Handlers |-> "idle"]
    /\ request' = [h \in Handlers |-> NoRequest]
    /\ reply' = [h \in Handlers |-> "none"]
    /\ counts' = [h \in Handlers |-> <<>>]
    /\ working' = [r \in Runs |-> 0]
    /\ unwinding' = [r \in Runs |-> 0]

\* The steps of a handler once its request has arrived.
HandlerStep(h) ==
    \/ RejectStart(h) \/ TryRegisterRun(h) \/ Spawn(h)
    \/ HealthWithoutCounts(h) \/ CountActive(h) \/ CountAvailable(h)
    \/ Respond(h)

Next ==
    \/ \E h \in Handlers :
          \/ \E target \in Runs \cup {Health} : Receive(h, target)
          \/ TimeoutHandler(h)
          \/ HandlerStep(h)
    \/ \E r \in Runs : TaskEnds(r) \/ ReleaseSlot(r)
    \/ Restart

Spec == Init /\ [][Next]_vars

\* The runtime keeps polling ready tasks: a handler whose body is there and a
\* task that unwinds both make progress.  Nothing makes a run itself end, and
\* nothing makes a client send a request or the process restart.
Fairness ==
    /\ \A h \in Handlers : WF_vars(HandlerStep(h))
    /\ \A r \in Runs : WF_vars(ReleaseSlot(r))

FairSpec == Spec /\ Fairness

-----------------------------------------------------------------------------
(* Properties *)

Admitted(r) == \E h \in Handlers : phase[h] = "admitted" /\ request[h] = r
Live(r) == working[r] + unwinding[r] > 0

\* The registry holds exactly the runs that are about to be spawned or whose
\* task still exists: no exit path of start or of the task leaks a slot
\* (main.rs:142-154), and none gives one back while the task still runs.
SlotsAreLiveRuns == active = {r \in Runs : Admitted(r) \/ Live(r)}

\* However many /start requests for it arrive, at once or in a row, a run is
\* executed by at most one task of this process (main.rs:121-134).
OneTaskPerRun ==
    \A r \in Runs :
       /\ working[r] + unwinding[r] <= 1
       /\ Admitted(r) => ~Live(r)

\* The tasks themselves, not merely the registry, respect MAX_CONCURRENT_RUNS
\* (README.md:79: the upper limit of concurrent execution).
TasksWithinCapacity ==
    Cardinality({r \in Runs : Live(r)}) <= MaxConcurrentRuns

\* What start answers without spawning a task is true of the tasks, not only of
\* the registry: 202 "duplicate" (main.rs:286-295) means that the run is being
\* executed or spawned, 503 (main.rs:296-305) that every slot is really in use.
AnswersAreTrue ==
    [][\A h \in Handlers : reply'[h] # reply[h] =>
          /\ reply'[h] = "duplicate" => Admitted(request[h]) \/ Live(request[h])
          /\ reply'[h] = "at_capacity" =>
                Cardinality({r \in Runs : Admitted(r) \/ Live(r)})
                   = MaxConcurrentRuns]_vars

\* If no run stays in execution for ever, the service is never full for ever:
\* every slot comes back after its run, on each exit path (main.rs:142-154).
CapacityComesBack ==
    (\A r \in Runs : []<>(working[r] = 0))
        => []<>(ActiveRunCount < MaxConcurrentRuns)

\* The registry and the tasks behind it implement the abstract slots: here a
\* run counts as executing from its admission until its guard is dropped.
Slots == INSTANCE RunSlots WITH
            executing <- {r \in Runs : Admitted(r) \/ Live(r)}
ImplementsRunSlots == Slots!Spec

\* HealthResponse of packages/agent-contract/src/index.ts:16-25 declares the
\* run counts of GET /health as always present.
HealthCarriesCounts ==
    \A h \in Handlers : reply[h] = "health" => Len(counts[h]) = 2

-----------------------------------------------------------------------------
(* The inductive invariant behind the safety properties *)

\* Two handlers never both hold an admission for one run, and what a handler
\* past the admission works on is what it says.
OneAdmissionPerRun ==
    /\ \A g, h \in Handlers :
          phase[g] = "admitted" /\ phase[h] = "admitted"
             /\ request[g] = request[h] => g = h
    /\ \A h \in Handlers : phase[h] = "admitted" => request[h] \in Runs

RegistryWithinCapacity == Cardinality(active) <= MaxConcurrentRuns

IInv ==
    /\ TypeOK
    /\ SlotsAreLiveRuns
    /\ OneTaskPerRun
    /\ OneAdmissionPerRun
    /\ RegistryWithinCapacity
=============================================================================
