------------------------------ MODULE RunTurn ------------------------------
(***************************************************************************)
(* execute_run with its tools (src/main.rs, src/tool_bridge.rs): the       *)
(* execution of RunLifecycle and the tool calls of ToolBridge, side by     *)
(* side over the one cancellation token that execute_run clones for both   *)
(* (main.rs:511-520, 564).  A step of either is a step of the whole; the   *)
(* steps that move both are those where execute_run, the heartbeat or an   *)
(* unwind reach the tools.                                                 *)
(*                                                                         *)
(* The calls live inside the future of the turn and go with it; when the   *)
(* process is killed they stay where they are.  The control plane goes on  *)
(* executing what it was sent.                                             *)
(***************************************************************************)
EXTENDS Naturals, Sequences

CONSTANTS
    MaxModelCalls,  \* bound: as in RunLifecycle
    Calls,          \* the tool calls of the turn
    Tools, MemoryTools, SkillTools, Allowlists  \* as in ToolBridge

ASSUME MaxModelCallsAssumption == MaxModelCalls \in Nat

VARIABLES
    configured, pc, stage, hb, aborted, lease, ending, answered, usage,
    cleaned, sent, acked, record, lateReports, thread, lateMessages, events,
    allowlist, turn, tool, step, id, sequence, verdict, emitted, records, taken,
    requested, executed,
    token           \* shared

Life == INSTANCE RunLifecycle
Bridge == INSTANCE ToolBridge

ASSUME RunToolsAssumption ==
    /\ Bridge!NoName \notin Tools
    /\ MemoryTools \cap SkillTools = {}

\* Of each side, what the other does not touch.
bridgeVars == <<allowlist, turn, tool, step, id, sequence, verdict, emitted,
                records, taken, requested, executed>>
lifeVars == <<configured, pc, stage, hb, aborted, lease, ending, answered,
              usage, cleaned, sent, acked, record, lateReports, thread,
              lateMessages, events>>
vars == <<lifeVars, bridgeVars, token>>

Init == Life!Init /\ Bridge!Init

-----------------------------------------------------------------------------
(* Steps of both *)

\* What a cancellation by the other side is to the bridge: it need not be the
\* first, and after the turn nobody looks at the token any more.
TokenMoves ==
    IF token' # token THEN Bridge!Cancel ELSE UNCHANGED bridgeVars

\* The turn's future is done, and every call in it is dropped.
TurnReturns == Life!TurnReturns /\ Bridge!TurnEnds

HeartbeatLearnsLoss == Life!HeartbeatLearnsLoss /\ TokenMoves

\* Slip: the records stay in the buffer.
CleanUpWithoutRecords == Life!CleanUpTools /\ UNCHANGED bridgeVars

\* take_tool_executions follows the tool_cleanup RPC.
CleanUpTools == Life!CleanUpTools /\ Bridge!TakeToolExecutions

\* Unwinding drops the future of the turn before anything else can happen.
Panic ==
    /\ Life!Panic
    /\ IF pc = "turn" THEN Bridge!TurnEnds ELSE TokenMoves

-----------------------------------------------------------------------------
(* Steps of one side *)

\* A call moves while its process lives: the end of the turn has dropped it.
CallStep(c) ==
    /\ pc # "dead"
    /\ Bridge!CallStep(c)
    /\ UNCHANGED lifeVars

Dispatch(c) ==
    /\ pc = "turn"
    /\ \E name \in Tools :
          \/ Bridge!DispatchMemory(c, name)
          \/ Bridge!Announce(c, name) \/ Bridge!Refuse(c, name)
    /\ UNCHANGED lifeVars

Reply(c) ==
    /\ pc # "dead"
    /\ Bridge!RemoteAnswers(c) \/ Bridge!RpcFails(c)
    /\ UNCHANGED lifeVars

RemoteExecutes(c) == Bridge!RemoteExecutes(c) /\ UNCHANGED lifeVars

\* The task outside the turn and the clean-up.
LifeTaskStep ==
    /\ \/ Life!StageFails \/ Life!StagePasses \/ Life!SpawnHeartbeat
       \/ Life!Announce \/ Life!JoinHeartbeat
       \/ Life!PersistAnswer \/ Life!PublishOutcome
       \/ Life!PublishFailure \/ Life!ExplainFailure
       \/ Life!FallbackClient \/ Life!LastResort
    /\ UNCHANGED bridgeVars

\* The heartbeat where it does not learn anything.
LifeHeartbeatStep ==
    /\ \/ Life!TimerDue \/ Life!HeartbeatCall \/ Life!HeartbeatBreaks
       \/ Life!HeartbeatReturns \/ Life!ReapHeartbeat
    /\ UNCHANGED bridgeVars

\* The engine's model calls, the death of the process, the control plane.
LifeOtherStep ==
    /\ \/ Life!ModelCall \/ Life!Kill \/ Life!LoseLease
       \/ Life!LateReportArrives \/ Life!LateMessageArrives
    /\ UNCHANGED bridgeVars

-----------------------------------------------------------------------------
TaskStep == LifeTaskStep \/ CleanUpTools
HeartbeatStep == LifeHeartbeatStep \/ HeartbeatLearnsLoss

Next ==
    \/ TaskStep \/ TurnReturns
    \/ HeartbeatStep
    \/ Panic \/ LifeOtherStep
    \/ \E c \in Calls : CallStep(c) \/ Dispatch(c) \/ Reply(c) \/ RemoteExecutes(c)

Spec == Init /\ [][Next]_vars

InFlight == {c \in Calls : step[c] \in Bridge!InFlight}

\* As in RunLifecycle, but less is asked of the engine: a cancelled turn is
\* given up once no call of it is in flight.  That the calls come to an end is
\* up to the tool bridge, with nothing assumed of the answers to tool-execute.
FairSpec ==
    /\ Spec
    /\ WF_vars(TaskStep)
    /\ WF_vars(HeartbeatStep)
    /\ \A c \in Calls : WF_vars(CallStep(c))
    /\ WF_vars(token /\ InFlight = {} /\ TurnReturns)
    /\ SF_vars(HeartbeatLearnsLoss)

-----------------------------------------------------------------------------
(* Properties *)

\* An answer is stored, now or late, with a record for every call of the turn
\* that the engine got a result, a refusal or a cancellation for, whatever was
\* dropped beside them (main.rs:600-640).
AnswerCarriesTheRecords ==
    "answer" \in thread \cup lateMessages =>
       \A c \in Calls :
          step[c] = "settled" /\ verdict[c] \in Bridge!Recorded =>
             \E i \in DOMAIN taken :
                taken[i].call = c /\ taken[i].verdict = verdict[c]

\* From the clean-up of the tool state on, no tool is requested, nothing is
\* told to readers about a call and nothing recorded, whichever way the
\* execution goes: what is swept away stays so, but for what the control plane
\* was asked to do before (main.rs:600-631).
QuietAfterCleanUp ==
    [][cleaned => UNCHANGED <<requested, emitted, verdict, taken>>]_vars

\* The outcome is reported, by the run or by the net, only when no call is in
\* flight whose result could still change it (main.rs:590-656).
ReportsFollowCalls ==
    [][sent' # sent => InFlight = {}]_vars

\* A lease lost during the turn ends the execution although calls hang in
\* tool-execute, whose answer may never come (main.rs:571-603,
\* tool_bridge.rs:242-276).
LostLeaseEndsCallsAndRun ==
    pc = "turn" /\ ~lease ~> pc \in Life!Over

-----------------------------------------------------------------------------
(* What ties the two sides together *)

Coupled ==
    /\ pc \in {"setup", "announce", "turn"} => turn = "running"
    /\ pc \in {"join", "cleanup"} => turn = "over"
    /\ pc \in {"persist", "publish", "failing", "explain"} => turn = "taken"
    /\ pc \notin {"turn", "dead"} => InFlight = {}
    /\ pc \in {"setup", "announce", "turn", "join", "cleanup"} => ~cleaned
    /\ "answer" \in thread \cup lateMessages => turn = "taken"
=============================================================================
