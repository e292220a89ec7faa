--------------------------- MODULE RunTurnProofs ---------------------------
(***************************************************************************)
(* What an execution and its tool calls keep between them, for any set of  *)
(* tool calls.  By the way it is put together the whole behaves to each of *)
(* its parts as that part's specification allows, which lets what is       *)
(* proved of the tool bridge be used here.                                 *)
(***************************************************************************)
EXTENDS RunTurn, TLAPS

USE MaxModelCallsAssumption
USE DEF Bridge!runVars, Bridge!callVars

BridgeFacts == INSTANCE ToolBridgeProofs

-----------------------------------------------------------------------------
(* The tool bridge in the whole *)

\* A token that does not change lets the bridge rest; one that does is a step.
LEMMA TokenStep ==
    ASSUME TokenMoves PROVE [Bridge!Next]_Bridge!vars
<1>1. CASE token' # token
  BY <1>1 DEF TokenMoves, Bridge!Next
<1>2. CASE token' = token
  BY <1>2 DEF TokenMoves, bridgeVars, Bridge!vars
<1> QED
  BY <1>1, <1>2

\* The steps of a life that the bridge is not told of leave the token alone.
LEMMA TokenUntouched ==
    ASSUME LifeTaskStep \/ LifeHeartbeatStep \/ LifeOtherStep
    PROVE  UNCHANGED Bridge!vars
<1>1. token' = token
  BY DEF LifeTaskStep, LifeHeartbeatStep, LifeOtherStep,
     Life!StageFails, Life!StagePasses, Life!SpawnHeartbeat, Life!Announce,
     Life!JoinHeartbeat, Life!PersistAnswer, Life!PublishOutcome,
     Life!PublishFailure, Life!ExplainFailure, Life!FallbackClient,
     Life!LastResort, Life!TimerDue, Life!HeartbeatCall, Life!HeartbeatBreaks,
     Life!HeartbeatReturns, Life!ReapHeartbeat, Life!ModelCall, Life!Kill,
     Life!LoseLease, Life!LateReportArrives, Life!LateMessageArrives
<1>2. UNCHANGED bridgeVars
  BY DEF LifeTaskStep, LifeHeartbeatStep, LifeOtherStep
<1> QED
  BY <1>1, <1>2 DEF bridgeVars, Bridge!vars

\* Seen from the tool bridge.
LEMMA BridgeStep == [Next]_vars => [Bridge!Next]_Bridge!vars
<1> SUFFICES ASSUME [Next]_vars PROVE [Bridge!Next]_Bridge!vars
  OBVIOUS
<1>1. CASE LifeTaskStep \/ LifeHeartbeatStep \/ LifeOtherStep
  BY <1>1, TokenUntouched
<1>2. CASE TurnReturns \/ CleanUpTools
  BY <1>2 DEF TurnReturns, CleanUpTools, Bridge!Next
<1>3. CASE Panic
  BY <1>3, TokenStep DEF Panic, Bridge!Next
<1>4. CASE HeartbeatLearnsLoss
  BY <1>4, TokenStep DEF HeartbeatLearnsLoss
<1>5. ASSUME NEW c \in Calls,
             CallStep(c) \/ Dispatch(c) \/ Reply(c) \/ RemoteExecutes(c)
      PROVE  Bridge!Next
  BY <1>5 DEF CallStep, Dispatch, Reply, RemoteExecutes, Bridge!Next
<1>6. CASE UNCHANGED vars
  BY <1>6 DEF vars, bridgeVars, Bridge!vars
<1> QED
  BY <1>1, <1>2, <1>3, <1>4, <1>5, <1>6 DEF Next, TaskStep, HeartbeatStep

\* The turn of an execution is one that ToolBridge describes.
LEMMA TurnIsABridge == Spec => Bridge!Spec
<1>1. Init => Bridge!Init
  BY DEF Init
<1> QED
  BY <1>1, BridgeStep, PTL DEF Spec, Bridge!Spec

-----------------------------------------------------------------------------
(* What is proved of ToolBridge, for use in the whole: the bridge in RunTurn *)
(* and the one in BridgeFacts are two instances of the same definitions.     *)

LEMMA SameNext == Bridge!Next <=> BridgeFacts!Next
BY DEF Bridge!Moves, Bridge!Decides, Bridge!Emits, Bridge!Record,
     Bridge!DispatchMemory, Bridge!MemoryReturns, Bridge!Numbered,
     Bridge!Announce, Bridge!Refuse, Bridge!FinishRefusal, Bridge!RunSkill,
     Bridge!SkillUnsupported, Bridge!Select, Bridge!Send, Bridge!Abort,
     Bridge!FinishAbort, Bridge!RemoteAnswers, Bridge!RpcFails,
     Bridge!FinishRpcFailure, Bridge!RecordResult, Bridge!Conclude,
     Bridge!Cancel, Bridge!TurnEnds, Bridge!TakeToolExecutions,
     Bridge!RemoteExecutes, Bridge!CallStep, Bridge!IsToolAllowed,
     Bridge!ToolAllowlist, Bridge!Trim, Bridge!Plain, Bridge!NoName, Bridge!InFlight,
     Bridge!Steps, Bridge!callVars, Bridge!Next, BridgeFacts!Moves,
     BridgeFacts!Decides, BridgeFacts!Emits, BridgeFacts!Record,
     BridgeFacts!DispatchMemory, BridgeFacts!MemoryReturns,
     BridgeFacts!Numbered, BridgeFacts!Announce, BridgeFacts!Refuse,
     BridgeFacts!FinishRefusal, BridgeFacts!RunSkill,
     BridgeFacts!SkillUnsupported, BridgeFacts!Select, BridgeFacts!Send,
     BridgeFacts!Abort, BridgeFacts!FinishAbort, BridgeFacts!RemoteAnswers,
     BridgeFacts!RpcFails, BridgeFacts!FinishRpcFailure,
     BridgeFacts!RecordResult, BridgeFacts!Conclude, BridgeFacts!Cancel,
     BridgeFacts!TurnEnds, BridgeFacts!TakeToolExecutions,
     BridgeFacts!RemoteExecutes, BridgeFacts!CallStep, BridgeFacts!runVars, BridgeFacts!IsToolAllowed,
     BridgeFacts!ToolAllowlist, BridgeFacts!Trim, BridgeFacts!Plain, BridgeFacts!NoName,
     BridgeFacts!InFlight, BridgeFacts!Steps, BridgeFacts!callVars,
     BridgeFacts!Next

LEMMA SameInv == Bridge!IInv <=> BridgeFacts!IInv
BY DEF Bridge!TypeOK, Bridge!Verdicts, Bridge!Recorded, Bridge!Records,
     Bridge!Events, Bridge!CallByStep, Bridge!Pair, Bridge!IsToolAllowed,
     Bridge!ToolAllowlist, Bridge!Trim, Bridge!Plain, Bridge!NoName,
     Bridge!LocalTools, Bridge!Permitted, Bridge!Cleared,
     Bridge!InFlight, Bridge!Steps, Bridge!Numbering, Bridge!IdsAreUnique,
     Bridge!RequestsByStep, Bridge!OnlyPermittedToolsRun, Bridge!EventsPairUp,
     Bridge!TurnIsOver, Bridge!NothingRecordedLate, Bridge!EntriesByStep,
     Bridge!EntriesOf, Bridge!Book, Bridge!RecordsAccountForCalls, Bridge!IInv,
     BridgeFacts!TypeOK, BridgeFacts!Verdicts, BridgeFacts!Recorded,
     BridgeFacts!Records, BridgeFacts!Events, BridgeFacts!CallByStep,
     BridgeFacts!Pair, BridgeFacts!IsToolAllowed,
     BridgeFacts!ToolAllowlist, BridgeFacts!Trim, BridgeFacts!Plain,
     BridgeFacts!NoName, BridgeFacts!LocalTools, BridgeFacts!Permitted,
     BridgeFacts!Cleared, BridgeFacts!InFlight,
     BridgeFacts!Steps, BridgeFacts!Numbering, BridgeFacts!IdsAreUnique,
     BridgeFacts!RequestsByStep, BridgeFacts!OnlyPermittedToolsRun,
     BridgeFacts!EventsPairUp, BridgeFacts!TurnIsOver,
     BridgeFacts!NothingRecordedLate, BridgeFacts!EntriesByStep,
     BridgeFacts!EntriesOf, BridgeFacts!Book,
     BridgeFacts!RecordsAccountForCalls, BridgeFacts!IInv

\* The inductive invariant of the tool bridge holds in the whole.
LEMMA BridgeInvariant == Spec => []Bridge!IInv
<1>1. Bridge!Init => BridgeFacts!Init
  BY DEF Bridge!Init, BridgeFacts!Init, Bridge!NoName, BridgeFacts!NoName
<1>2. UNCHANGED Bridge!vars => UNCHANGED BridgeFacts!vars
  BY DEF Bridge!vars, Bridge!callVars, BridgeFacts!vars, BridgeFacts!runVars,
     BridgeFacts!callVars
<1>3. [Bridge!Next]_Bridge!vars => [BridgeFacts!Next]_BridgeFacts!vars
  BY <1>2, SameNext
<1>4. BridgeFacts!ToolsAssumption
  BY RunToolsAssumption DEF BridgeFacts!ToolsAssumption, BridgeFacts!NoName,
     Bridge!NoName
<1> QED
  BY <1>1, <1>3, <1>4, SameInv, TurnIsABridge, BridgeFacts!InductiveInvariant, PTL
     DEF Bridge!Spec, BridgeFacts!Spec

-----------------------------------------------------------------------------
(* The coupling invariant *)

\* A call that moves is in flight, before the step or, dispatched, after it.
LEMMA MoversAreInFlight ==
    ASSUME NEW c \in Calls, CallStep(c) \/ Reply(c), Bridge!TypeOK
    PROVE  c \in InFlight
<1>1. CASE CallStep(c)
  <2>1. step[c] \in {"memory", "announcing", "selecting", "waiting", "cancelling",
                     "failing", "refusing", "reporting", "concluding"}
    BY <1>1 DEF CallStep, Bridge!CallStep, Bridge!MemoryReturns,
       Bridge!FinishRefusal, Bridge!RunSkill, Bridge!SkillUnsupported,
       Bridge!Select, Bridge!Send, Bridge!Abort, Bridge!FinishAbort,
       Bridge!FinishRpcFailure, Bridge!RecordResult, Bridge!Conclude, Bridge!Moves
  <2> QED
    BY <2>1 DEF InFlight, Bridge!InFlight, Bridge!Steps
<1>2. CASE Reply(c)
  <2>1. step[c] = "waiting"
    BY <1>2 DEF Reply, Bridge!RemoteAnswers, Bridge!RpcFails, Bridge!Moves
  <2> QED
    BY <2>1 DEF InFlight, Bridge!InFlight, Bridge!Steps
<1> QED
  BY <1>1, <1>2

LEMMA CoupledInductive == Bridge!IInv /\ Coupled /\ [Next]_vars => Coupled'
<1> SUFFICES ASSUME Bridge!IInv, Coupled, [Next]_vars PROVE Coupled'
  OBVIOUS
<1>t. Bridge!TypeOK
  BY DEF Bridge!IInv
<1>1. CASE LifeTaskStep
  <2>1. UNCHANGED <<turn, step>>
    BY <1>1 DEF LifeTaskStep, bridgeVars
  <2>2. CASE Life!StageFails \/ Life!StagePasses \/ Life!SpawnHeartbeat \/ Life!Announce
    BY <2>1, <2>2 DEF Life!StageFails, Life!StagePasses, Life!SpawnHeartbeat,
       Life!Announce, Life!threadVars, Coupled, InFlight
  <2>3. CASE Life!JoinHeartbeat \/ Life!PublishOutcome \/ Life!PublishFailure
               \/ Life!FallbackClient \/ Life!LastResort
    BY <2>1, <2>3 DEF Life!JoinHeartbeat, Life!PublishOutcome, Life!PublishFailure,
       Life!FallbackClient, Life!LastResort, Life!threadVars, Coupled, InFlight
  <2>4. CASE Life!PersistAnswer \/ Life!ExplainFailure
    BY <2>1, <2>4 DEF Life!PersistAnswer, Life!ExplainFailure, Life!Stored,
       Life!NotStored, Life!threadVars, Coupled, InFlight
  <2> QED
    BY <1>1, <2>2, <2>3, <2>4 DEF LifeTaskStep
<1>2. CASE CleanUpTools
  <2>1. UNCHANGED <<step, thread, lateMessages>> /\ turn' = "taken"
    BY <1>2 DEF CleanUpTools, Life!CleanUpTools, Bridge!TakeToolExecutions,
       Life!threadVars, Bridge!callVars
  <2>2. pc = "cleanup" /\ pc' \in {"failing", "persist", "publish"}
    BY <1>2 DEF CleanUpTools, Life!CleanUpTools
  <2> QED
    BY <2>1, <2>2 DEF Coupled, InFlight
<1>3. CASE TurnReturns
  <2>1. pc = "turn" /\ pc' = "join" /\ turn' = "over"
    BY <1>3 DEF TurnReturns, Life!TurnReturns, Bridge!TurnEnds
  <2>2. UNCHANGED <<cleaned, thread, lateMessages>>
    BY <1>3 DEF TurnReturns, Life!TurnReturns, Life!threadVars
  <2>3. InFlight' = {}
    BY <1>3, <1>t DEF TurnReturns, Bridge!TurnEnds, InFlight, Bridge!InFlight
  <2> QED
    BY <2>1, <2>2, <2>3 DEF Coupled
<1>4. CASE Panic
  <2>1. pc' = "dead" /\ UNCHANGED <<cleaned, thread, lateMessages>>
    BY <1>4 DEF Panic, Life!Panic, Life!threadVars
  <2>2. turn' # turn => pc = "turn"
    BY <1>4 DEF Panic, TokenMoves, bridgeVars, Bridge!Cancel
  <2> QED
    BY <2>1, <2>2 DEF Coupled
<1>5. CASE HeartbeatStep \/ LifeOtherStep
  <2>1. UNCHANGED <<turn, step>>
    BY <1>5 DEF HeartbeatStep, LifeHeartbeatStep, HeartbeatLearnsLoss, TokenMoves,
       LifeOtherStep, bridgeVars, Bridge!Cancel, Bridge!callVars
  <2>2. CASE HeartbeatStep
    BY <2>1, <2>2 DEF HeartbeatStep, LifeHeartbeatStep, HeartbeatLearnsLoss,
       Life!TimerDue, Life!HeartbeatCall, Life!HeartbeatBreaks,
       Life!HeartbeatReturns, Life!ReapHeartbeat, Life!HeartbeatLearnsLoss,
       Life!threadVars, Coupled, InFlight
  <2>3. CASE LifeOtherStep
    BY <2>1, <2>3 DEF LifeOtherStep, Life!ModelCall, Life!Kill, Life!LoseLease,
       Life!LateReportArrives, Life!LateMessageArrives, Life!threadVars, Coupled,
       InFlight
  <2> QED
    BY <1>5, <2>2, <2>3
<1>6. ASSUME NEW c \in Calls,
             CallStep(c) \/ Dispatch(c) \/ Reply(c) \/ RemoteExecutes(c)
      PROVE  Coupled'
  <2>1. UNCHANGED <<pc, cleaned, thread, lateMessages, turn>>
    BY <1>6 DEF CallStep, Dispatch, Reply, RemoteExecutes, lifeVars,
       Bridge!CallStep, Bridge!MemoryReturns, Bridge!FinishRefusal,
       Bridge!RunSkill, Bridge!SkillUnsupported, Bridge!Select, Bridge!Send,
       Bridge!Abort, Bridge!FinishAbort, Bridge!FinishRpcFailure,
       Bridge!RecordResult, Bridge!Conclude, Bridge!DispatchMemory,
       Bridge!Refuse, Bridge!Announce, Bridge!Numbered, Bridge!RemoteAnswers,
       Bridge!RpcFails, Bridge!RemoteExecutes
  <2>2. CASE RemoteExecutes(c)
    BY <2>1, <2>2 DEF RemoteExecutes, Bridge!RemoteExecutes, Bridge!callVars,
       Coupled, InFlight
  <2>3. CASE CallStep(c) \/ Dispatch(c) \/ Reply(c)
    <3>1. pc \in {"turn", "dead"}
      BY <1>t, <2>3, MoversAreInFlight DEF Dispatch, Coupled
    <3> QED
      BY <2>1, <3>1 DEF Coupled
  <2> QED
    BY <1>6, <2>2, <2>3
<1>7. CASE UNCHANGED vars
  BY <1>7 DEF vars, lifeVars, bridgeVars, Coupled, InFlight
<1> QED
  BY <1>1, <1>2, <1>3, <1>4, <1>5, <1>6, <1>7 DEF Next, TaskStep

\* The execution and its calls stay in step (main.rs:590-656).
THEOREM StayCoupled == Spec => []Coupled
<1>1. Init => Coupled
  BY DEF Init, Life!Init, Bridge!Init, Coupled, InFlight, Bridge!InFlight
<1> QED
  BY <1>1, BridgeInvariant, CoupledInductive, PTL DEF Spec

-----------------------------------------------------------------------------
(* The properties of the whole *)

\* A stored answer comes with the records of the turn's calls (main.rs:600-640).
THEOREM AnswersCarryRecords == Spec => []AnswerCarriesTheRecords
<1>1. Bridge!IInv /\ Coupled => AnswerCarriesTheRecords
  <2> SUFFICES ASSUME Bridge!IInv, turn = "taken", NEW c \in Calls,
                      step[c] = "settled", verdict[c] \in Bridge!Recorded
               PROVE  \E i \in DOMAIN taken :
                         taken[i].call = c /\ taken[i].verdict = verdict[c]
    BY DEF Coupled, AnswerCarriesTheRecords
  <2>1. PICK i \in Bridge!EntriesOf(c) : TRUE
    BY DEF Bridge!IInv, Bridge!RecordsAccountForCalls
  <2>2. Bridge!Book[i].verdict = verdict[c]
    BY <2>1 DEF Bridge!IInv, Bridge!RecordsAccountForCalls
  <2> QED
    BY <2>1, <2>2 DEF Bridge!EntriesOf, Bridge!Book
<1> QED
  BY <1>1, BridgeInvariant, StayCoupled, PTL

\* Nothing of a call moves after the clean-up (main.rs:600-631).
THEOREM QuietCleanUp == Spec => QuietAfterCleanUp
<1>1. Bridge!IInv /\ Coupled /\ [Next]_vars
         => [cleaned => UNCHANGED <<requested, emitted, verdict, taken>>]_vars
  <2> SUFFICES ASSUME Bridge!IInv, Coupled, Next, cleaned
               PROVE  UNCHANGED <<requested, emitted, verdict, taken>>
    BY DEF vars, bridgeVars
  <2>1. CASE LifeTaskStep \/ LifeHeartbeatStep \/ LifeOtherStep
    BY <2>1 DEF LifeTaskStep, LifeHeartbeatStep, LifeOtherStep, bridgeVars
  <2>2. ~CleanUpTools /\ ~TurnReturns
    BY DEF CleanUpTools, Life!CleanUpTools, TurnReturns, Life!TurnReturns, Coupled
  <2>3. CASE Panic \/ HeartbeatLearnsLoss
    BY <2>3 DEF Panic, HeartbeatLearnsLoss, TokenMoves, Bridge!Cancel,
       Bridge!callVars, bridgeVars, Coupled
  <2>4. ASSUME NEW c \in Calls,
               CallStep(c) \/ Dispatch(c) \/ Reply(c) \/ RemoteExecutes(c)
        PROVE  UNCHANGED <<requested, emitted, verdict, taken>>
    <3>1. ~(CallStep(c) \/ Reply(c))
      <4>1. pc # "turn"
        BY DEF Coupled
      <4>2. CASE pc = "dead"
        BY <4>2 DEF CallStep, Reply
      <4>3. CASE pc # "dead"
        BY <4>1, <4>3, MoversAreInFlight DEF Coupled, Bridge!IInv
      <4> QED
        BY <4>2, <4>3
    <3>2. ~Dispatch(c)
      BY DEF Dispatch, Coupled
    <3> QED
      BY <2>4, <3>1, <3>2 DEF RemoteExecutes, Bridge!RemoteExecutes, Bridge!callVars
  <2> QED
    BY <2>1, <2>2, <2>3, <2>4 DEF Next, TaskStep, HeartbeatStep
<1> QED
  BY <1>1, BridgeInvariant, StayCoupled, PTL DEF Spec, QuietAfterCleanUp

\* No report is sent while a call is in flight (main.rs:590-656).
THEOREM ReportsAfterCalls == Spec => ReportsFollowCalls
<1>1. Bridge!IInv /\ Coupled /\ [Next]_vars
         => [sent' # sent => InFlight = {}]_vars
  <2> SUFFICES ASSUME Coupled, Next, sent' # sent PROVE InFlight = {}
    BY DEF vars, lifeVars
  <2>1. CASE LifeTaskStep
    <3>1. Life!PublishOutcome \/ Life!PublishFailure \/ Life!LastResort
      BY <2>1 DEF LifeTaskStep, Life!StageFails, Life!StagePasses,
         Life!SpawnHeartbeat, Life!Announce, Life!JoinHeartbeat,
         Life!PersistAnswer, Life!ExplainFailure, Life!FallbackClient,
         Life!reportVars
    <3> QED
      BY <3>1 DEF Life!PublishOutcome, Life!PublishFailure, Life!LastResort, Coupled
  <2>2. ~CleanUpTools /\ ~TurnReturns /\ ~Panic
    BY DEF CleanUpTools, Life!CleanUpTools, TurnReturns, Life!TurnReturns, Panic,
       Life!Panic, Life!reportVars
  <2>3. ~HeartbeatStep
    BY DEF HeartbeatStep, LifeHeartbeatStep, HeartbeatLearnsLoss, Life!TimerDue,
       Life!HeartbeatCall, Life!HeartbeatBreaks, Life!HeartbeatReturns,
       Life!ReapHeartbeat, Life!HeartbeatLearnsLoss, Life!reportVars
  <2>4. ~LifeOtherStep
    BY DEF LifeOtherStep, Life!ModelCall, Life!Kill, Life!LoseLease,
       Life!LateReportArrives, Life!LateMessageArrives, Life!reportVars
  <2>5. \A c \in Calls :
           ~(CallStep(c) \/ Dispatch(c) \/ Reply(c) \/ RemoteExecutes(c))
    BY DEF CallStep, Dispatch, Reply, RemoteExecutes, lifeVars
  <2> QED
    BY <2>1, <2>2, <2>3, <2>4, <2>5 DEF Next, TaskStep
<1> QED
  BY <1>1, BridgeInvariant, StayCoupled, PTL DEF Spec, ReportsFollowCalls
=============================================================================
