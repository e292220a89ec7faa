------------------------- MODULE RunAdmissionProofs -------------------------
(***************************************************************************)
(* The safety properties of RunAdmission, for every set of runs and of     *)
(* handlers and every capacity.                                            *)
(***************************************************************************)
EXTENDS RunAdmission, FiniteSetTheorems, TLAPS

USE RunsAssumption, HandlersAssumption, CapacityAssumption,
    CountsAssumption, RequestAssumption

\* The registry stays within the finite set of runs, so it can be counted.
LEMMA CountIsNatural ==
    ASSUME active \subseteq Runs
    PROVE  IsFiniteSet(active) /\ ActiveRunCount \in Nat /\ AvailableRunSlots \in Nat
<1>1. IsFiniteSet(active)
  BY FS_Subset, RunsAssumption
<1>2. ActiveRunCount \in Nat
  BY <1>1, FS_CardinalityType DEF ActiveRunCount
<1> QED
  BY <1>1, <1>2 DEF AvailableRunSlots

\* Every action preserves the types.
LEMMA TypeInductive == TypeOK /\ [Next]_vars => TypeOK'
<1> SUFFICES ASSUME TypeOK, [Next]_vars PROVE TypeOK'
  OBVIOUS
<1> USE DEF TypeOK, Phases, Replies
<1>0. ActiveRunCount \in Nat /\ AvailableRunSlots \in Nat
  BY CountIsNatural
<1>1. ASSUME NEW h \in Handlers, NEW target \in Runs \cup {Health}, Receive(h, target)
      PROVE  TypeOK'
  BY <1>1 DEF Receive, taskVars
<1>2. ASSUME NEW h \in Handlers, TimeoutHandler(h) PROVE TypeOK'
  BY <1>2 DEF TimeoutHandler, Answer, taskVars
<1>3. ASSUME NEW h \in Handlers, RejectStart(h) PROVE TypeOK'
  BY <1>3 DEF RejectStart, Answer, taskVars
<1>4. ASSUME NEW h \in Handlers, TryRegisterRun(h) PROVE TypeOK'
  <2>1. CASE Duplicate(h)
    BY <2>1 DEF Duplicate, Answer, taskVars
  <2>2. CASE AtCapacity(h)
    BY <2>2 DEF AtCapacity, Answer, taskVars
  <2>3. CASE Register(h)
    BY <2>3 DEF Register, Admit, StartRequest, taskVars
  <2> QED
    BY <1>4, <2>1, <2>2, <2>3 DEF TryRegisterRun
<1>5. ASSUME NEW h \in Handlers, Spawn(h) PROVE TypeOK'
  <2>1. working' \in [Runs -> Nat]
    <3>1. CASE request[h] \in Runs
      BY <1>5, <3>1 DEF Spawn
    <3>2. CASE request[h] \notin Runs
      BY <1>5, <3>2 DEF Spawn
    <3> QED
      BY <3>1, <3>2
  <2> QED
    BY <1>5, <2>1 DEF Spawn, Answer
<1>6. ASSUME NEW h \in Handlers, HealthWithoutCounts(h) PROVE TypeOK'
  BY <1>6 DEF HealthWithoutCounts, Answer, taskVars
<1>7. ASSUME NEW h \in Handlers, CountActive(h) PROVE TypeOK'
  BY <1>7, <1>0 DEF CountActive, taskVars
<1>8. ASSUME NEW h \in Handlers, CountAvailable(h) PROVE TypeOK'
  <2>1. Append(counts[h], AvailableRunSlots) \in Seq(Nat)
    BY <1>0
  <2> QED
    BY <1>8, <2>1 DEF CountAvailable, Answer, taskVars
<1>9. ASSUME NEW h \in Handlers, Respond(h) PROVE TypeOK'
  BY <1>9 DEF Respond, taskVars
<1>10. ASSUME NEW r \in Runs, TaskEnds(r) PROVE TypeOK'
  BY <1>10 DEF TaskEnds, handlerVars
<1>11. ASSUME NEW r \in Runs, ReleaseSlot(r) PROVE TypeOK'
  BY <1>11 DEF ReleaseSlot, handlerVars
<1>12. CASE Restart
  BY <1>12 DEF Restart
<1>13. CASE UNCHANGED vars
  BY <1>13 DEF vars
<1> QED
  BY <1>1, <1>2, <1>3, <1>4, <1>5, <1>6, <1>7, <1>8, <1>9, <1>10, <1>11,
     <1>12, <1>13 DEF Next, HandlerStep

\* Every variable keeps its type (main.rs:95-139, 241-327).
THEOREM TypeCorrect == Spec => []TypeOK
<1>1. Init => TypeOK
  BY DEF Init, TypeOK, Phases, Replies
<1> QED
  BY <1>1, TypeInductive, PTL DEF Spec
-----------------------------------------------------------------------------
(* The inductive invariant *)

\* Membership in the registry, run by run: the form the step proofs use.
LEMMA SlotMembership ==
    ASSUME active \subseteq Runs
    PROVE  SlotsAreLiveRuns <=>
              \A r \in Runs : r \in active <=> Admitted(r) \/ Live(r)
BY DEF SlotsAreLiveRuns

\* Adding a run to a registry counts one more, taking one out never more.
LEMMA CountsOfRegistry ==
    ASSUME NEW S \in SUBSET Runs, NEW r
    PROVE  /\ Cardinality(S) \in Nat
           /\ r \notin S => Cardinality(S \cup {r}) = Cardinality(S) + 1
           /\ Cardinality(S \ {r}) <= Cardinality(S)
<1>1. IsFiniteSet(S)
  BY FS_Subset
<1>2. Cardinality(S) \in Nat
  BY <1>1, FS_CardinalityType
<1>3. r \notin S => Cardinality(S \cup {r}) = Cardinality(S) + 1
  BY <1>1, FS_AddElement
<1>4. Cardinality(S \ {r}) =
         IF r \in S THEN Cardinality(S) - 1 ELSE Cardinality(S)
  BY <1>1, FS_RemoveElement
<1> QED
  BY <1>2, <1>3, <1>4

\* What the handlers and tasks do to the bookkeeping, action by action.
LEMMA BookkeepingInductive ==
    ASSUME IInv, Next
    PROVE  /\ SlotsAreLiveRuns'
           /\ OneTaskPerRun'
           /\ OneAdmissionPerRun'
           /\ RegistryWithinCapacity'
<1> DEFINE Goal == /\ \A r \in Runs : r \in active <=> Admitted(r) \/ Live(r)
                   /\ OneTaskPerRun
                   /\ OneAdmissionPerRun
                   /\ RegistryWithinCapacity
<1>1. TypeOK /\ TypeOK'
  BY TypeInductive DEF IInv
<1>2. Goal
  BY <1>1, SlotMembership DEF IInv, TypeOK
<1> SUFFICES Goal'
  BY <1>1 DEF SlotsAreLiveRuns, TypeOK
<1> USE <1>1, <1>2 DEF TypeOK, Phases, OneTaskPerRun, OneAdmissionPerRun, Admitted, Live,
        RegistryWithinCapacity
<1>3. ASSUME NEW h \in Handlers, NEW target \in Runs \cup {Health}, Receive(h, target)
      PROVE  Goal'
  BY <1>3 DEF Receive, taskVars
<1>4. ASSUME NEW h \in Handlers, TimeoutHandler(h) PROVE Goal'
  BY <1>4 DEF TimeoutHandler, Answer, taskVars
<1>5. ASSUME NEW h \in Handlers, RejectStart(h) PROVE Goal'
  BY <1>5 DEF RejectStart, StartRequest, Answer, taskVars
<1>6. ASSUME NEW h \in Handlers, Duplicate(h) PROVE Goal'
  BY <1>6 DEF Duplicate, StartRequest, Answer, taskVars
<1>7. ASSUME NEW h \in Handlers, AtCapacity(h) PROVE Goal'
  BY <1>7 DEF AtCapacity, StartRequest, Answer, taskVars
<1>8. ASSUME NEW h \in Handlers, Register(h) PROVE Goal'
  <2>1. RegistryWithinCapacity'
    <3>1. /\ active' = active \cup {request[h]}
          /\ request[h] \notin active
          /\ Cardinality(active) < MaxConcurrentRuns
      BY <1>8 DEF Register, Admit, ActiveRunCount
    <3>2. Cardinality(active \cup {request[h]}) = Cardinality(active) + 1
      BY <3>1, CountsOfRegistry
    <3>3. Cardinality(active) \in Nat
      BY CountsOfRegistry
    <3> QED
      BY <3>1, <3>2, <3>3
  <2>2. OneTaskPerRun' /\ OneAdmissionPerRun'
    BY <1>8 DEF Register, Admit, StartRequest, taskVars
  <2>3. \A r \in Runs : (r \in active <=> Admitted(r) \/ Live(r))'
    BY <1>8 DEF Register, Admit, StartRequest, taskVars
  <2> QED
    BY <2>1, <2>2, <2>3
<1>9. ASSUME NEW h \in Handlers, Spawn(h) PROVE Goal'
  <2>1. request[h] \in Runs /\ working[request[h]] = 0 /\ unwinding[request[h]] = 0
    <3>1. request[h] \in Runs /\ Admitted(request[h])
      BY <1>9 DEF Spawn
    <3>2. ~(working[request[h]] + unwinding[request[h]] > 0)
      BY <3>1
    <3>3. working[request[h]] \in Nat /\ unwinding[request[h]] \in Nat
      BY <3>1
    <3> QED
      BY <3>1, <3>2, <3>3
  <2>2. /\ phase' = [phase EXCEPT ![h] = "replied"]
        /\ working' = [working EXCEPT ![request[h]] = 1]
        /\ UNCHANGED <<active, request, unwinding>>
    BY <1>9, <2>1 DEF Spawn, Answer
  <2>3. OneAdmissionPerRun'
    BY <2>2
  <2>4. ASSUME NEW r \in Runs PROVE Admitted(r)' <=> Admitted(r) /\ r # request[h]
    <3>1. phase[h] = "admitted"
      BY <1>9 DEF Spawn
    <3>2. \A g \in Handlers : phase'[g] = "admitted" <=> phase[g] = "admitted" /\ g # h
      BY <2>2
    <3>3. \A g \in Handlers :
             phase[g] = "admitted" /\ request[g] = request[h] => g = h
      BY <3>1
    <3> QED
      BY <2>2, <3>2, <3>3
  <2>5. ASSUME NEW r \in Runs PROVE Live(r)' <=> Live(r) \/ r = request[h]
    <3>1. CASE r = request[h]
      BY <2>1, <2>2, <3>1
    <3>2. CASE r # request[h]
      <4>1. working'[r] = working[r] /\ unwinding'[r] = unwinding[r]
        BY <2>1, <2>2, <3>2
      <4> QED
        BY <3>2, <4>1
    <3> QED
      BY <3>1, <3>2
  <2>6. Admitted(request[h])
    BY <1>9 DEF Spawn
  <2>7. \A r \in Runs : (r \in active <=> Admitted(r) \/ Live(r))'
    BY <2>2, <2>4, <2>5, <2>6
  <2>8. OneTaskPerRun'
    <3> SUFFICES ASSUME NEW r \in Runs
                 PROVE  /\ working'[r] + unwinding'[r] <= 1
                        /\ Admitted(r)' => ~Live(r)'
      OBVIOUS
    <3>1. working'[r] + unwinding'[r] <= 1
      BY <2>1, <2>2
    <3>2. Admitted(r)' => ~Live(r)'
      BY <2>4, <2>5
    <3> QED
      BY <3>1, <3>2
  <2> QED
    BY <2>2, <2>3, <2>7, <2>8
<1>10. ASSUME NEW h \in Handlers, HealthWithoutCounts(h) PROVE Goal'
  BY <1>10 DEF HealthWithoutCounts, HealthRequest, Answer, taskVars
<1>11. ASSUME NEW h \in Handlers, CountActive(h) PROVE Goal'
  BY <1>11 DEF CountActive, HealthRequest, taskVars
<1>12. ASSUME NEW h \in Handlers, CountAvailable(h) PROVE Goal'
  BY <1>12 DEF CountAvailable, Answer, taskVars
<1>13. ASSUME NEW h \in Handlers, Respond(h) PROVE Goal'
  BY <1>13 DEF Respond, taskVars
<1>14. ASSUME NEW r \in Runs, TaskEnds(r) PROVE Goal'
  BY <1>14 DEF TaskEnds, handlerVars
<1>15. ASSUME NEW r \in Runs, ReleaseSlot(r) PROVE Goal'
  <2>1. RegistryWithinCapacity'
    <3>1. active' = active \ {r}
      BY <1>15 DEF ReleaseSlot
    <3>2. /\ Cardinality(active) \in Nat
          /\ Cardinality(active \ {r}) \in Nat
          /\ Cardinality(active \ {r}) <= Cardinality(active)
      BY CountsOfRegistry
    <3> QED
      BY <3>1, <3>2
  <2>2. OneTaskPerRun' /\ OneAdmissionPerRun'
    BY <1>15 DEF ReleaseSlot, handlerVars
  <2>3. \A q \in Runs : (q \in active <=> Admitted(q) \/ Live(q))'
    BY <1>15 DEF ReleaseSlot, handlerVars
  <2> QED
    BY <2>1, <2>2, <2>3
<1>16. CASE Restart
  <2>1. Cardinality({}) = 0
    BY FS_EmptySet
  <2> QED
    BY <1>16, <2>1 DEF Restart
<1> QED
  BY <1>3, <1>4, <1>5, <1>6, <1>7, <1>8, <1>9, <1>10, <1>11, <1>12, <1>13,
     <1>14, <1>15, <1>16 DEF Next, HandlerStep, TryRegisterRun

LEMMA IInvInductive == IInv /\ [Next]_vars => IInv'
<1> SUFFICES ASSUME IInv, [Next]_vars PROVE IInv'
  OBVIOUS
<1>1. TypeOK'
  BY TypeInductive DEF IInv
<1>2. CASE Next
  BY <1>1, <1>2, BookkeepingInductive DEF IInv
<1>3. CASE UNCHANGED vars
  BY <1>3 DEF vars, IInv, TypeOK, SlotsAreLiveRuns, OneTaskPerRun,
     OneAdmissionPerRun, RegistryWithinCapacity, Admitted, Live
<1> QED
  BY <1>2, <1>3

\* The invariant the other theorems rest on.
THEOREM InductiveInvariant == Spec => []IInv
<1>1. Init => IInv
  <2> SUFFICES ASSUME Init PROVE IInv
    OBVIOUS
  <2>1. TypeOK
    BY DEF Init, TypeOK, Phases, Replies
  <2>2. \A r \in Runs : ~Admitted(r) /\ ~Live(r)
    BY DEF Init, Admitted, Live
  <2>3. Cardinality(active) = 0
    BY FS_EmptySet DEF Init
  <2> QED
    BY <2>1, <2>2, <2>3 DEF Init, IInv, SlotsAreLiveRuns, OneTaskPerRun,
       OneAdmissionPerRun, RegistryWithinCapacity
<1> QED
  BY <1>1, IInvInductive, PTL DEF Spec
-----------------------------------------------------------------------------
(* The properties *)

\* No exit path leaks a slot or gives one back early (main.rs:142-154).
THEOREM NoSlotLeak == Spec => []SlotsAreLiveRuns
BY InductiveInvariant, PTL DEF IInv

\* A run is never executed by two tasks of this process (main.rs:121-134).
THEOREM NoDoubleExecution == Spec => []OneTaskPerRun
BY InductiveInvariant, PTL DEF IInv

\* The tasks never outnumber MAX_CONCURRENT_RUNS (main.rs:126-131).
THEOREM Capacity == Spec => []TasksWithinCapacity
<1>1. IInv => TasksWithinCapacity
  <2> SUFFICES ASSUME IInv PROVE TasksWithinCapacity
    OBVIOUS
  <2> DEFINE Tasks == {r \in Runs : Live(r)}
  <2>1. Tasks \subseteq active
    BY DEF IInv, SlotsAreLiveRuns
  <2>2. IsFiniteSet(active) /\ Cardinality(active) \in Nat
    BY CountIsNatural DEF IInv, TypeOK, ActiveRunCount
  <2>3. Cardinality(Tasks) <= Cardinality(active) /\ Cardinality(Tasks) \in Nat
    BY <2>1, <2>2, FS_Subset, FS_CardinalityType
  <2> QED
    BY <2>2, <2>3 DEF TasksWithinCapacity, IInv, RegistryWithinCapacity
<1> QED
  BY <1>1, InductiveInvariant, PTL

\* What start answers without spawning a task is true of the tasks behind the
\* registry (main.rs:286-305).
THEOREM TrueAnswers == Spec => AnswersAreTrue
<1> DEFINE Honest(h) ==
      /\ reply'[h] = "duplicate" => Admitted(request[h]) \/ Live(request[h])
      /\ reply'[h] = "at_capacity" =>
            Cardinality({r \in Runs : Admitted(r) \/ Live(r)})
               = MaxConcurrentRuns
<1>1. ASSUME IInv, [Next]_vars, NEW h \in Handlers, reply'[h] # reply[h]
      PROVE  Honest(h)
  <2>1. TypeOK /\ active = {r \in Runs : Admitted(r) \/ Live(r)}
    BY <1>1 DEF IInv, SlotsAreLiveRuns
  <2> HIDE DEF Honest
  <2> SUFFICES ASSUME Next PROVE Honest(h)
    BY <1>1 DEF vars
  <2>2. ASSUME NEW g \in Handlers, Duplicate(g) PROVE Honest(h)
    <3>1. g = h /\ reply'[h] = "duplicate" /\ request[h] \in active
      BY <1>1, <2>1, <2>2 DEF Duplicate, Answer, TypeOK
    <3> QED
      BY <2>1, <3>1 DEF Honest
  <2>3. ASSUME NEW g \in Handlers, AtCapacity(g) PROVE Honest(h)
    <3>1. reply'[h] = "at_capacity"
      BY <1>1, <2>1, <2>3 DEF AtCapacity, Answer, TypeOK
    <3>2. Cardinality(active) >= MaxConcurrentRuns
      BY <2>3 DEF AtCapacity, ActiveRunCount
    <3>3. Cardinality(active) <= MaxConcurrentRuns /\ Cardinality(active) \in Nat
      BY <1>1, <2>1, CountIsNatural DEF IInv, RegistryWithinCapacity, TypeOK,
         ActiveRunCount
    <3>4. Cardinality(active) = MaxConcurrentRuns
      BY <3>2, <3>3
    <3> QED
      BY <2>1, <3>1, <3>4 DEF Honest
  <2>4. ASSUME reply'[h] \notin {"duplicate", "at_capacity"} PROVE Honest(h)
    BY <2>4 DEF Honest
  <2>5. ASSUME NEW g \in Handlers,
               \/ TimeoutHandler(g) \/ RejectStart(g) \/ Register(g) \/ Spawn(g)
               \/ HealthWithoutCounts(g) \/ CountActive(g) \/ CountAvailable(g)
               \/ Respond(g) \/ \E target \in Runs \cup {Health} : Receive(g, target)
        PROVE  Honest(h)
    BY <1>1, <2>1, <2>4, <2>5 DEF TypeOK, TimeoutHandler, RejectStart, Register, Admit,
       Spawn, HealthWithoutCounts, CountActive, CountAvailable, Respond,
       Receive, Answer
  <2>6. ASSUME NEW r \in Runs, TaskEnds(r) \/ ReleaseSlot(r) PROVE Honest(h)
    BY <1>1, <2>6 DEF TaskEnds, ReleaseSlot, handlerVars
  <2>7. CASE Restart
    BY <2>4, <2>7 DEF Restart
  <2> QED
    BY <2>2, <2>3, <2>5, <2>6, <2>7 DEF Next, HandlerStep, TryRegisterRun
<1>2. IInv /\ [Next]_vars =>
        \A h \in Handlers : reply'[h] # reply[h] => Honest(h)
  BY <1>1
<1> QED
  BY <1>2, InductiveInvariant, PTL DEF Spec, AnswersAreTrue

\* The abstract module counts with its own instance of FiniteSets.
LEMMA SameCardinality == \A S : Slots!Cardinality(S) = Cardinality(S)
BY DEF Slots!Cardinality, Cardinality

\* The service implements the abstract slots: every run it executes holds one
\* of MAX_CONCURRENT_RUNS slots, alone (main.rs:95-154, 241-327).
THEOREM Refinement == Spec => ImplementsRunSlots
<1> DEFINE Executing == {r \in Runs : Admitted(r) \/ Live(r)}
<1>1. Init => Slots!Init
  BY DEF Init, Slots!Init, Admitted, Live
<1>2. IInv /\ IInv' /\ [Next]_vars => [Slots!Next]_Executing
  <2> SUFFICES ASSUME IInv, IInv', [Next]_vars PROVE [Slots!Next]_Executing
    OBVIOUS
  <2>1. Executing = active /\ Executing' = active'
    BY DEF IInv, SlotsAreLiveRuns
  <2>2. CASE UNCHANGED active
    BY <2>1, <2>2
  <2>3. ASSUME NEW h \in Handlers, Register(h) PROVE Slots!Next
    <3>1. Slots!Begin(request[h]) /\ request[h] \in Runs
      BY <2>1, <2>3, SameCardinality
         DEF Register, Admit, StartRequest, Slots!Begin, ActiveRunCount
    <3> QED
      BY <3>1 DEF Slots!Next
  <2>4. ASSUME NEW r \in Runs, ReleaseSlot(r) PROVE Slots!Next
    <3>1. Live(r)
      BY <2>4 DEF ReleaseSlot, Live, IInv, TypeOK
    <3>2. Slots!End(r)
      BY <2>1, <2>4, <3>1 DEF ReleaseSlot, Slots!End
    <3> QED
      BY <3>2 DEF Slots!Next
  <2>5. CASE Restart
    <3>1. Slots!Die
      BY <2>1, <2>5 DEF Restart, Slots!Die
    <3> QED
      BY <3>1 DEF Slots!Next
  <2>6. CASE UNCHANGED vars
    BY <2>2, <2>6 DEF vars
  <2>7. CASE Next
    BY <2>2, <2>3, <2>4, <2>5, <2>7 DEF Next, HandlerStep, TryRegisterRun, Receive,
       TimeoutHandler, RejectStart, Duplicate, AtCapacity, Spawn,
       HealthWithoutCounts, CountActive, CountAvailable, Respond, TaskEnds
  <2> QED
    BY <2>6, <2>7
<1> QED
  BY <1>1, <1>2, InductiveInvariant, PTL DEF Spec, ImplementsRunSlots, Slots!Spec
=============================================================================
