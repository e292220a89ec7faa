------------------------- MODULE RunLifecycleProofs -------------------------
(***************************************************************************)
(* The safety properties of RunLifecycle, and that it implements           *)
(* RunContract, for every bound on the model calls of a turn.              *)
(***************************************************************************)
EXTENDS RunLifecycle, TLAPS

USE MaxModelCallsAssumption DEF beatVars, turnVars, reportVars, threadVars

-----------------------------------------------------------------------------
(* The reports and RPC outcomes the actions are built from *)

\* The reports of the turn are well formed, and so is that of the net.
LEMMA ReportOfTurn ==
    ASSUME TypeOK, NEW status \in Statuses
    PROVE  [by |-> "run", status |-> status, usage |-> usage] \in Reports
BY DEF TypeOK, Reports

LEMMA ReportOfNet ==
    ASSUME NEW status \in {"failed", "cancelled"}
    PROVE  [by |-> "net", status |-> status, usage |-> 0] \in Reports
BY DEF Reports, Statuses

LEMMA StatusTypes ==
    /\ \A loop \in LoopStatuses : RunStatusForLoop(loop) \in Statuses
    /\ \A error : StatusOfError(error) \in {"failed", "cancelled"}
    /\ {"failed", "cancelled"} \subseteq Statuses
BY DEF LoopStatuses, RunStatusForLoop, StatusOfError, Statuses

\* No report is the absent one.
LEMMA NoReportIsNone == NoReport \notin Reports
BY DEF NoReport, Reports

\* Sending a report keeps the bookkeeping typed, whatever the reply.
LEMMA ReportTypes ==
    ASSUME TypeOK, NEW report \in Reports,
           Acknowledged(report) \/ Unacknowledged(report)
    PROVE  /\ sent' \subseteq Reports
           /\ acked' \in Reports \cup {NoReport}
           /\ record' \in Reports \cup {NoReport}
           /\ lateReports' \subseteq Reports
BY DEF TypeOK, Acknowledged, Unacknowledged

LEMMA MessageTypes ==
    ASSUME TypeOK, NEW message \in Messages, Stored(message) \/ NotStored(message)
    PROVE  thread' \subseteq Messages /\ lateMessages' \subseteq Messages
BY DEF TypeOK, Stored, NotStored

LEMMA EventTypes ==
    ASSUME TypeOK, NEW event \in FinalEvents, Emit(event) \/ UNCHANGED events
    PROVE  events' \subseteq FinalEvents
BY DEF TypeOK, Emit

-----------------------------------------------------------------------------
(* Types.  EndingByPlace is needed: only a LoopStatus has a run status. *)

LEMMA TypeInductive == TypeOK /\ EndingByPlace /\ [Next]_vars => TypeOK'
<1> SUFFICES ASSUME TypeOK, EndingByPlace, [Next]_vars PROVE TypeOK'
  OBVIOUS
<1>1. Len(SetupStages) = 14
  BY DEF SetupStages
<1>2. CASE StageFails \/ StagePasses \/ SpawnHeartbeat \/ Announce
  BY <1>1, <1>2 DEF TypeOK, StageFails, StagePasses, SpawnHeartbeat, Announce,
     Places, HeartbeatStates
<1>3. CASE ModelCall \/ TurnReturns \/ JoinHeartbeat \/ CleanUpTools
  <2>1. CASE ModelCall
    BY <2>1 DEF TypeOK, ModelCall
  <2>2. CASE TurnReturns
    BY <2>2 DEF TypeOK, TurnReturns, Places
  <2>3. CASE JoinHeartbeat \/ CleanUpTools
    BY <2>3 DEF TypeOK, JoinHeartbeat, CleanUpTools, Places
  <2> QED
    BY <1>3, <2>1, <2>2, <2>3
<1>4. CASE PersistAnswer
  <2>1. thread' \subseteq Messages /\ lateMessages' \subseteq Messages
    BY <1>4, MessageTypes DEF PersistAnswer, Messages
  <2>2. events' \subseteq FinalEvents
    BY <1>4, EventTypes DEF PersistAnswer, FinalEvents
  <2> QED
    BY <1>4, <2>1, <2>2 DEF TypeOK, PersistAnswer, Places
<1>5. CASE PublishOutcome
  <2> DEFINE report == [by |-> "run", status |-> RunStatusForLoop(ending),
                        usage |-> usage]
  <2>1. report \in Reports
    BY <1>5, StatusTypes, ReportOfTurn DEF PublishOutcome, EndingByPlace
  <2> HIDE DEF report
  <2>2. Acknowledged(report) \/ Unacknowledged(report)
    BY <1>5 DEF PublishOutcome, report
  <2>3. events' \subseteq FinalEvents
    BY <1>5, EventTypes DEF PublishOutcome, FinalEvents
  <2> QED
    BY <1>5, <2>1, <2>2, <2>3, ReportTypes DEF TypeOK, PublishOutcome, Places
<1>6. CASE PublishFailure
  <2> DEFINE report == [by |-> "run", status |-> StatusOfError(ending),
                        usage |-> usage]
  <2>1. report \in Reports
    BY StatusTypes, ReportOfTurn
  <2> HIDE DEF report
  <2>2. Acknowledged(report) \/ Unacknowledged(report)
    BY <1>6 DEF PublishFailure, report
  <2>3. events' \subseteq FinalEvents
    BY <1>6, EventTypes DEF PublishFailure, FinalEvents
  <2> QED
    BY <1>6, <2>1, <2>2, <2>3, ReportTypes DEF TypeOK, PublishFailure, Places
<1>7. CASE ExplainFailure
  <2>1. thread' \subseteq Messages /\ lateMessages' \subseteq Messages
    BY <1>7, MessageTypes DEF ExplainFailure, Messages
  <2>2. events' \subseteq FinalEvents
    BY <1>7 DEF ExplainFailure, FinalEvents, TypeOK, Emit
  <2> QED
    BY <1>7, <2>1, <2>2 DEF TypeOK, ExplainFailure, Places
<1>8. CASE FallbackClient
  BY <1>8 DEF TypeOK, FallbackClient, Places
<1>9. CASE LastResort
  <2>1. PICK status \in {"failed", "cancelled"} :
          LET report == [by |-> "net", status |-> status, usage |-> 0]
          IN  \/ /\ Acknowledged(report)
                 /\ Emit(IF status = "cancelled" THEN "cancelled" ELSE "error")
              \/ Unacknowledged(report) /\ UNCHANGED events
    BY <1>9, StatusTypes DEF LastResort
  <2> DEFINE report == [by |-> "net", status |-> status, usage |-> 0]
  <2>2. report \in Reports
    BY ReportOfNet
  <2>3. Acknowledged(report) \/ Unacknowledged(report)
    BY <2>1
  <2> HIDE DEF report
  <2>4. events' \subseteq FinalEvents
    BY <2>1, EventTypes DEF FinalEvents
  <2> QED
    BY <1>9, <2>2, <2>3, <2>4, ReportTypes DEF TypeOK, LastResort, Places
<1>10. CASE HeartbeatStep
  BY <1>10 DEF TypeOK, HeartbeatStep, TimerDue, HeartbeatCall, HeartbeatBreaks,
     HeartbeatReturns, HeartbeatLearnsLoss, ReapHeartbeat, HeartbeatStates
<1>11. CASE Panic \/ Kill \/ LoseLease
  <2>1. CASE Panic
    BY <2>1 DEF TypeOK, Panic, Places
  <2>2. CASE Kill \/ LoseLease
    BY <2>2 DEF TypeOK, Kill, LoseLease, Places, HeartbeatStates
  <2> QED
    BY <1>11, <2>1, <2>2
<1>12. CASE LateReportArrives \/ LateMessageArrives
  BY <1>12 DEF TypeOK, LateReportArrives, LateMessageArrives
<1>13. CASE UNCHANGED vars
  BY <1>13 DEF TypeOK, vars
<1> QED
  BY <1>2, <1>3, <1>4, <1>5, <1>6, <1>7, <1>8, <1>9, <1>10, <1>11, <1>12, <1>13
     DEF Next, TaskStep

-----------------------------------------------------------------------------
(* The conjuncts of the inductive invariant, one lemma each.  A step that a  *)
(* conjunct cannot notice is a leaf; the steps that report are split.        *)

LEMMA ReportsByPlaceInductive ==
    ASSUME IInv, [Next]_vars PROVE ReportsByPlace'
<1> USE DEF IInv, ReportsByPlace, BeforeReport, InFallback
<1>1. CASE StageFails \/ StagePasses \/ SpawnHeartbeat \/ Announce \/ ModelCall
             \/ TurnReturns \/ JoinHeartbeat \/ CleanUpTools \/ FallbackClient
  BY <1>1 DEF StageFails, StagePasses, SpawnHeartbeat, Announce, ModelCall,
     TurnReturns, JoinHeartbeat, CleanUpTools, FallbackClient
<1>2. CASE PersistAnswer \/ ExplainFailure
  BY <1>2 DEF PersistAnswer, ExplainFailure
<1>3. CASE PublishOutcome
  BY <1>3 DEF PublishOutcome, Acknowledged, Unacknowledged
<1>4. CASE PublishFailure
  <2> DEFINE report == [by |-> "run", status |-> StatusOfError(ending),
                        usage |-> usage]
  <2>1. report.by = "run" /\ report.status = StatusOfError(ending)
    OBVIOUS
  <2> HIDE DEF report
  <2>2. sent = {} /\ acked = NoReport /\ cleaned /\ cleaned' = cleaned
    BY <1>4 DEF PublishFailure
  <2>3. CASE Acknowledged(report) /\ StatusOfError(ending) = "failed" /\ pc' = "explain"
    BY <2>1, <2>2, <2>3 DEF Acknowledged
  <2>4. CASE Acknowledged(report) /\ pc' = "ended"
    BY <2>4
  <2>5. CASE Unacknowledged(report) /\ pc' = "fallback"
    BY <2>1, <2>2, <2>5 DEF Unacknowledged
  <2> QED
    BY <1>4, <2>3, <2>4, <2>5 DEF PublishFailure, report
<1>5. CASE LastResort
  BY <1>5 DEF LastResort
<1>6. CASE HeartbeatStep
  BY <1>6 DEF HeartbeatStep, TimerDue, HeartbeatCall, HeartbeatBreaks,
     HeartbeatReturns, HeartbeatLearnsLoss, ReapHeartbeat
<1>7. CASE Panic \/ Kill \/ LoseLease \/ LateReportArrives \/ LateMessageArrives
  BY <1>7 DEF Panic, Kill, LoseLease, LateReportArrives, LateMessageArrives
<1>8. CASE UNCHANGED vars
  BY <1>8 DEF vars
<1> QED
  BY <1>1, <1>2, <1>3, <1>4, <1>5, <1>6, <1>7, <1>8 DEF Next, TaskStep

LEMMA HeartbeatByPlaceInductive ==
    ASSUME IInv, [Next]_vars PROVE HeartbeatByPlace'
<1> USE DEF IInv, HeartbeatByPlace
<1>1. CASE TaskStep \/ ModelCall \/ TurnReturns
  <2>1. CASE StageFails \/ StagePasses
    BY <2>1 DEF StageFails, StagePasses
  <2>6. CASE SpawnHeartbeat
    BY <2>6 DEF SpawnHeartbeat
  <2>8. CASE Announce \/ ModelCall
    BY <2>8 DEF Announce, ModelCall
  <2>9. CASE TurnReturns
    BY <2>9 DEF TurnReturns
  <2>7. CASE JoinHeartbeat \/ CleanUpTools \/ FallbackClient
    BY <2>7 DEF JoinHeartbeat, CleanUpTools, FallbackClient
  <2>2. CASE PersistAnswer \/ ExplainFailure
    BY <2>2 DEF PersistAnswer, ExplainFailure
  <2>3. CASE PublishOutcome
    BY <2>3 DEF PublishOutcome
  <2>4. CASE PublishFailure
    BY <2>4 DEF PublishFailure
  <2>5. CASE LastResort
    BY <2>5 DEF LastResort
  <2> QED
    BY <1>1, <2>1, <2>2, <2>3, <2>4, <2>5, <2>6, <2>7, <2>8, <2>9 DEF TaskStep
<1>2. CASE HeartbeatStep
  BY <1>2 DEF HeartbeatStep, TimerDue, HeartbeatCall, HeartbeatBreaks,
     HeartbeatReturns, HeartbeatLearnsLoss, ReapHeartbeat
<1>3. CASE Panic \/ Kill
  BY <1>3 DEF Panic, Kill, Over
<1>4. CASE LoseLease \/ LateReportArrives \/ LateMessageArrives
  BY <1>4 DEF LoseLease, LateReportArrives, LateMessageArrives
<1>5. CASE UNCHANGED vars
  BY <1>5 DEF vars
<1> QED
  BY <1>1, <1>2, <1>3, <1>4, <1>5 DEF Next

LEMMA EndingByPlaceInductive ==
    ASSUME IInv, [Next]_vars PROVE EndingByPlace'
<1> USE DEF IInv, EndingByPlace
<1>1. CASE TurnReturns
  BY <1>1 DEF TurnReturns
<1>2. CASE CleanUpTools
  BY <1>2 DEF CleanUpTools, LoopStatuses, TurnErrors
<1>3. CASE (TaskStep /\ ~CleanUpTools) \/ ModelCall
  BY <1>3 DEF TaskStep, StageFails, StagePasses, SpawnHeartbeat, Announce,
     ModelCall, JoinHeartbeat, PersistAnswer, PublishOutcome, PublishFailure,
     ExplainFailure, FallbackClient, LastResort
<1>4. CASE HeartbeatStep
  BY <1>4 DEF HeartbeatStep, TimerDue, HeartbeatCall, HeartbeatBreaks,
     HeartbeatReturns, HeartbeatLearnsLoss, ReapHeartbeat
<1>5. CASE Panic \/ Kill \/ LoseLease \/ LateReportArrives \/ LateMessageArrives
  BY <1>5 DEF Panic, Kill, LoseLease, LateReportArrives, LateMessageArrives
<1>6. CASE UNCHANGED vars
  BY <1>6 DEF vars
<1> QED
  BY <1>1, <1>2, <1>3, <1>4, <1>5, <1>6 DEF Next

-----------------------------------------------------------------------------
(* The three steps that report, in the terms the remaining conjuncts need    *)

\* The turn's report is the first one and says how the turn ended.
LEMMA TurnReports ==
    ASSUME IInv, PublishOutcome \/ PublishFailure
    PROVE  \E report \in Reports :
              /\ report.by = "run" /\ sent = {} /\ acked = NoReport
              /\ report.status = IF pc = "publish" THEN RunStatusForLoop(ending)
                                                   ELSE StatusOfError(ending)
              /\ \/ /\ Acknowledged(report)
                    /\ pc' \in {"ended", "explain"}
                    /\ \/ UNCHANGED events
                       \/ Emit("completed") /\ report.status = "completed"
                       \/ Emit("cancelled") /\ report.status # "completed"
                 \/ /\ Unacknowledged(report)
                    /\ pc' = "fallback" /\ UNCHANGED events
              /\ UNCHANGED <<thread, lateMessages, ending, answered, cleaned, hb,
                             configured>>
<1>1. TypeOK /\ sent = {} /\ acked = NoReport
  BY DEF IInv, ReportsByPlace, BeforeReport, PublishOutcome, PublishFailure
<1>2. CASE PublishOutcome
  <2> DEFINE report == [by |-> "run", status |-> RunStatusForLoop(ending),
                        usage |-> usage]
  <2>1. report \in Reports
    BY <1>1, <1>2, StatusTypes, ReportOfTurn DEF PublishOutcome, IInv, EndingByPlace
  <2>2. report.by = "run" /\ report.status = RunStatusForLoop(ending)
    OBVIOUS
  <2> HIDE DEF report
  <2>3. \/ /\ Acknowledged(report)
           /\ Emit(IF RunStatusForLoop(ending) = "completed" THEN "completed"
                                                           ELSE "cancelled")
           /\ pc' = "ended"
        \/ Unacknowledged(report) /\ pc' = "fallback" /\ UNCHANGED events
    BY <1>2 DEF PublishOutcome, report
  <2>4. /\ pc = "publish"
        /\ UNCHANGED <<thread, lateMessages, ending, answered, cleaned, hb, configured>>
    BY <1>2 DEF PublishOutcome
  <2> QED
    BY <1>1, <2>1, <2>2, <2>3, <2>4
<1>3. CASE PublishFailure
  <2> DEFINE report == [by |-> "run", status |-> StatusOfError(ending),
                        usage |-> usage]
  <2>1. report \in Reports
    BY <1>1, StatusTypes, ReportOfTurn
  <2>2. report.by = "run" /\ report.status = StatusOfError(ending)
    OBVIOUS
  <2> HIDE DEF report
  <2>3. \/ /\ Acknowledged(report)
           /\ \/ pc' = "explain" /\ UNCHANGED events
              \/ /\ StatusOfError(ending) = "cancelled"
                 /\ Emit("cancelled") /\ pc' = "ended"
        \/ Unacknowledged(report) /\ pc' = "fallback" /\ UNCHANGED events
    BY <1>3 DEF PublishFailure, report
  <2>4. /\ pc = "failing"
        /\ UNCHANGED <<thread, lateMessages, ending, answered, cleaned, hb, configured>>
    BY <1>3 DEF PublishFailure
  <2> QED
    BY <1>1, <2>1, <2>2, <2>3, <2>4
<1> QED
  BY <1>2, <1>3

\* The net's report follows at most one unacknowledged report of the turn.
LEMMA NetReports ==
    ASSUME IInv, LastResort
    PROVE  \E report \in Reports :
              /\ report.by = "net" /\ report.status \in {"failed", "cancelled"}
              /\ report.usage = 0
              /\ acked = NoReport /\ \A earlier \in sent : earlier.by = "run"
              /\ \/ /\ Acknowledged(report)
                    /\ Emit(IF report.status = "cancelled" THEN "cancelled"
                                                           ELSE "error")
                 \/ Unacknowledged(report) /\ UNCHANGED events
              /\ cleaned /\ pc = "lastresort" /\ pc' = "ended"
              /\ UNCHANGED <<thread, lateMessages, ending, answered, cleaned, hb>>
<1>1. PICK status \in {"failed", "cancelled"} :
        LET report == [by |-> "net", status |-> status, usage |-> 0]
        IN  \/ /\ Acknowledged(report)
               /\ Emit(IF status = "cancelled" THEN "cancelled" ELSE "error")
            \/ Unacknowledged(report) /\ UNCHANGED events
  BY StatusTypes DEF LastResort
<1> DEFINE report == [by |-> "net", status |-> status, usage |-> 0]
<1>2. report \in Reports
  BY ReportOfNet
<1>3. report.by = "net" /\ report.status = status /\ report.usage = 0
  OBVIOUS
<1>4. \/ /\ Acknowledged(report)
         /\ Emit(IF status = "cancelled" THEN "cancelled" ELSE "error")
      \/ Unacknowledged(report) /\ UNCHANGED events
  BY <1>1
<1> HIDE DEF report
<1>5. /\ acked = NoReport /\ cleaned /\ pc = "lastresort"
      /\ \A earlier \in sent : earlier.by = "run"
  BY DEF LastResort, IInv, ReportsByPlace, BeforeReport, InFallback
<1>6. /\ pc' = "ended"
      /\ UNCHANGED <<thread, lateMessages, ending, answered, cleaned, hb>>
  BY DEF LastResort
<1> QED
  BY <1>2, <1>3, <1>4, <1>5, <1>6

-----------------------------------------------------------------------------
(* The remaining conjuncts *)

\* What reaches its end has reported or has tried the net.
LEMMA EndedIsReportedInductive ==
    ASSUME IInv, [Next]_vars PROVE EndedIsReported'
<1> USE DEF EndedIsReported
<1>1. EndedIsReported /\ ReportsByPlace
  BY DEF IInv
<1>2. CASE PublishOutcome \/ PublishFailure
  BY <1>2, TurnReports, NoReportIsNone DEF Acknowledged
<1>3. CASE LastResort
  BY <1>3, NetReports DEF Acknowledged, Unacknowledged
<1>4. CASE ExplainFailure
  BY <1>1, <1>4 DEF ExplainFailure, ReportsByPlace, NoReport
<1>5. CASE FallbackClient
  BY <1>5 DEF FallbackClient
<1>6. CASE StageFails \/ StagePasses \/ SpawnHeartbeat \/ Announce \/ ModelCall
             \/ TurnReturns \/ JoinHeartbeat \/ CleanUpTools
  BY <1>6 DEF StageFails, StagePasses, SpawnHeartbeat, Announce, ModelCall,
     TurnReturns, JoinHeartbeat, CleanUpTools
<1>7. CASE PersistAnswer
  BY <1>7 DEF PersistAnswer
<1>8. CASE HeartbeatStep
  BY <1>1, <1>8 DEF HeartbeatStep, TimerDue, HeartbeatCall, HeartbeatBreaks,
     HeartbeatReturns, HeartbeatLearnsLoss, ReapHeartbeat
<1>9. CASE Panic \/ Kill \/ LoseLease \/ LateReportArrives \/ LateMessageArrives
  BY <1>1, <1>9 DEF Panic, Kill, LoseLease, LateReportArrives, LateMessageArrives
<1>10. CASE UNCHANGED vars
  BY <1>1, <1>10 DEF vars
<1> QED
  BY <1>2, <1>3, <1>4, <1>5, <1>6, <1>7, <1>8, <1>9, <1>10 DEF Next, TaskStep

\* Nothing is reported before the cleanup and while the heartbeat is alive.
LEMMA ReportsComeLastInductive ==
    ASSUME IInv, [Next]_vars PROVE ReportsComeLast'
<1> USE DEF ReportsComeLast
<1>1. ReportsComeLast /\ ReportsByPlace /\ HeartbeatByPlace
  BY DEF IInv
<1>2. CASE PublishOutcome \/ PublishFailure
  <2>1. cleaned /\ hb \in {"unborn", "stopped"}
    BY <1>1, <1>2 DEF PublishOutcome, PublishFailure, ReportsByPlace, HeartbeatByPlace
  <2>2. UNCHANGED <<cleaned, hb>>
    BY <1>2, TurnReports
  <2> QED
    BY <2>1, <2>2
<1>3. CASE LastResort
  <2>1. cleaned /\ pc = "lastresort" /\ UNCHANGED <<cleaned, hb>>
    BY <1>3, NetReports
  <2> QED
    BY <1>1, <2>1 DEF HeartbeatByPlace
<1>4. CASE StageFails \/ StagePasses \/ SpawnHeartbeat \/ Announce \/ ModelCall
             \/ TurnReturns \/ JoinHeartbeat \/ CleanUpTools \/ FallbackClient
  BY <1>1, <1>4 DEF StageFails, StagePasses, SpawnHeartbeat, Announce, ModelCall,
     TurnReturns, JoinHeartbeat, CleanUpTools, FallbackClient, ReportsByPlace,
     BeforeReport
<1>5. CASE PersistAnswer \/ ExplainFailure
  BY <1>1, <1>5 DEF PersistAnswer, ExplainFailure
<1>6. CASE HeartbeatStep
  BY <1>1, <1>6 DEF HeartbeatStep, TimerDue, HeartbeatCall, HeartbeatBreaks,
     HeartbeatReturns, HeartbeatLearnsLoss, ReapHeartbeat
<1>7. CASE Panic \/ Kill \/ LoseLease \/ LateReportArrives \/ LateMessageArrives
  BY <1>1, <1>7 DEF Panic, Kill, LoseLease, LateReportArrives, LateMessageArrives
<1>8. CASE UNCHANGED vars
  BY <1>1, <1>8 DEF vars
<1> QED
  BY <1>2, <1>3, <1>4, <1>5, <1>6, <1>7, <1>8 DEF Next, TaskStep

\* Final events tell the truth about an acknowledged report.
LEMMA EventsFollowReportInductive ==
    ASSUME IInv, [Next]_vars PROVE EventsFollowReport'
<1> USE DEF EventsFollowReport
<1>1. EventsFollowReport /\ ReportsByPlace
  BY DEF IInv
<1>2. acked = NoReport => events \cap {"completed", "error", "cancelled"} = {}
  BY <1>1 DEF NoReport
<1>3. CASE PublishOutcome \/ PublishFailure
  <2>1. PICK report \in Reports :
          /\ acked = NoReport
          /\ \/ /\ Acknowledged(report)
                /\ \/ UNCHANGED events
                   \/ Emit("completed") /\ report.status = "completed"
                   \/ Emit("cancelled") /\ report.status # "completed"
             \/ Unacknowledged(report) /\ UNCHANGED events
    BY <1>3, TurnReports
  <2> QED
    BY <1>1, <1>2, <2>1, NoReportIsNone DEF Acknowledged, Unacknowledged, Emit
<1>4. CASE LastResort
  <2>1. PICK report \in Reports :
          /\ acked = NoReport /\ report.status \in {"failed", "cancelled"}
          /\ \/ /\ Acknowledged(report)
                /\ Emit(IF report.status = "cancelled" THEN "cancelled" ELSE "error")
             \/ Unacknowledged(report) /\ UNCHANGED events
    BY <1>4, NetReports
  <2> QED
    BY <1>1, <1>2, <2>1, NoReportIsNone DEF Acknowledged, Unacknowledged, Emit
<1>5. CASE ExplainFailure
  <2>1. acked.status = "failed" /\ acked.by = "run" /\ UNCHANGED acked
    BY <1>1, <1>5 DEF ExplainFailure, ReportsByPlace
  <2>2. events' \subseteq events \cup {"message", "error"}
    BY <1>5 DEF ExplainFailure, Emit
  <2> QED
    BY <1>1, <2>1, <2>2 DEF NoReport
<1>6. CASE PersistAnswer
  BY <1>1, <1>6 DEF PersistAnswer, Emit
<1>7. CASE StageFails \/ StagePasses \/ SpawnHeartbeat \/ Announce \/ ModelCall
             \/ TurnReturns \/ JoinHeartbeat \/ CleanUpTools \/ FallbackClient
  BY <1>1, <1>7 DEF StageFails, StagePasses, SpawnHeartbeat, Announce, ModelCall,
     TurnReturns, JoinHeartbeat, CleanUpTools, FallbackClient
<1>8. CASE HeartbeatStep
  BY <1>1, <1>8 DEF HeartbeatStep, TimerDue, HeartbeatCall, HeartbeatBreaks,
     HeartbeatReturns, HeartbeatLearnsLoss, ReapHeartbeat
<1>9. CASE Panic \/ Kill \/ LoseLease \/ LateReportArrives \/ LateMessageArrives
  BY <1>1, <1>9 DEF Panic, Kill, LoseLease, LateReportArrives, LateMessageArrives
<1>10. CASE UNCHANGED vars
  BY <1>1, <1>10 DEF vars
<1> QED
  BY <1>3, <1>4, <1>5, <1>6, <1>7, <1>8, <1>9, <1>10 DEF Next, TaskStep

\* The thread holds what the turn's end allows, and the answer when it must.
LEMMA ThreadMatchesEndingInductive ==
    ASSUME IInv, [Next]_vars PROVE ThreadMatchesEnding'
<1> USE DEF ThreadMatchesEnding
<1>1. ThreadMatchesEnding /\ ReportsByPlace /\ EndingByPlace
  BY DEF IInv
<1>2. CASE PublishOutcome \/ PublishFailure
  <2>1. PICK report \in Reports :
          /\ sent = {}
          /\ report.status = IF pc = "publish" THEN RunStatusForLoop(ending)
                                               ELSE StatusOfError(ending)
          /\ sent' = sent \cup {report}
          /\ pc' \in {"ended", "explain", "fallback"}
          /\ UNCHANGED <<thread, lateMessages, ending, answered>>
    BY <1>2, TurnReports DEF Acknowledged, Unacknowledged
  <2>2. report.status = "completed" => pc = "publish"
    BY <2>1, StatusTypes
  <2> QED
    BY <1>1, <2>1, <2>2
<1>3. CASE LastResort
  <2>1. PICK report \in Reports :
          /\ report.status \in {"failed", "cancelled"}
          /\ sent' = sent \cup {report}
          /\ pc' = "ended"
          /\ UNCHANGED <<thread, lateMessages, ending, answered>>
    BY <1>3, NetReports DEF Acknowledged, Unacknowledged
  <2> QED
    BY <1>1, <2>1
<1>4. CASE PersistAnswer
  <2>1. ending \in LoopStatuses /\ sent = {} /\ UNCHANGED <<ending, answered, sent>>
    BY <1>1, <1>4 DEF PersistAnswer, EndingByPlace, ReportsByPlace, BeforeReport
  <2>2. /\ thread \cup lateMessages \subseteq thread' \cup lateMessages'
        /\ thread' \cup lateMessages' \subseteq thread \cup lateMessages \cup {"answer"}
    BY <1>4 DEF PersistAnswer, Stored, NotStored
  <2>3. pc' = "publish" => "answer" \in thread'
    BY <1>4 DEF PersistAnswer, Stored
  <2> QED
    BY <1>1, <2>1, <2>2, <2>3
<1>5. CASE ExplainFailure
  <2>1. ending \in TurnErrors /\ pc' = "ended" /\ UNCHANGED <<ending, answered, sent>>
    BY <1>1, <1>5 DEF ExplainFailure, EndingByPlace
  <2>2. /\ thread \subseteq thread'
        /\ thread' \cup lateMessages'
             \subseteq thread \cup lateMessages \cup {"explanation"}
    BY <1>5 DEF ExplainFailure, Stored, NotStored
  <2> QED
    BY <1>1, <2>1, <2>2
<1>6. CASE TurnReturns
  <2>1. ending = "none" /\ sent = {}
    BY <1>1, <1>6 DEF TurnReturns, EndingByPlace, ReportsByPlace, BeforeReport
  <2>2. ending \notin LoopStatuses \cup TurnErrors
    BY <2>1 DEF LoopStatuses, TurnErrors
  <2> QED
    BY <1>1, <1>6, <2>1, <2>2 DEF TurnReturns
<1>7. CASE CleanUpTools
  BY <1>1, <1>7 DEF CleanUpTools
<1>8. CASE StageFails \/ StagePasses \/ SpawnHeartbeat \/ Announce \/ ModelCall
             \/ JoinHeartbeat \/ FallbackClient
  BY <1>1, <1>8 DEF StageFails, StagePasses, SpawnHeartbeat, Announce, ModelCall,
     JoinHeartbeat, FallbackClient
<1>9. CASE HeartbeatStep
  BY <1>1, <1>9 DEF HeartbeatStep, TimerDue, HeartbeatCall, HeartbeatBreaks,
     HeartbeatReturns, HeartbeatLearnsLoss, ReapHeartbeat
<1>10. CASE Panic \/ Kill \/ LoseLease \/ LateReportArrives
  BY <1>1, <1>10 DEF Panic, Kill, LoseLease, LateReportArrives
<1>11. CASE LateMessageArrives
  BY <1>1, <1>11 DEF LateMessageArrives
<1>12. CASE UNCHANGED vars
  BY <1>1, <1>12 DEF vars
<1> QED
  BY <1>2, <1>3, <1>4, <1>5, <1>6, <1>7, <1>8, <1>9, <1>10, <1>11, <1>12
     DEF Next, TaskStep

\* One report per reporter, and nothing else on record.
LEMMA ReportsOnRecordInductive ==
    ASSUME IInv, [Next]_vars PROVE ReportsOnRecord'
<1> USE DEF ReportsOnRecord
<1>1. ReportsOnRecord /\ ReportsByPlace /\ TypeOK
  BY DEF IInv
<1>2. NoReport.by = "nobody"
  BY DEF NoReport
<1>3. ASSUME NEW report \in Reports,
             acked = NoReport,
             Acknowledged(report) \/ Unacknowledged(report),
             \/ report.by = "run" /\ sent = {}
             \/ /\ report.by = "net" /\ \A earlier \in sent : earlier.by = "run"
                /\ report.status \in {"failed", "cancelled"} /\ report.usage = 0
      PROVE  ReportsOnRecord'
  <2>1. report \notin sent /\ report # NoReport
    BY <1>3, NoReportIsNone
  <2>2. \A a, b \in sent' : a.by = b.by => a = b
    BY <1>1, <1>3 DEF Acknowledged, Unacknowledged
  <2>3. \A r \in sent' : r.by = "net" => r.status \in {"failed", "cancelled"} /\ r.usage = 0
    BY <1>1, <1>3 DEF Acknowledged, Unacknowledged
  <2>4. /\ acked' # NoReport => acked' \in sent' /\ record' \in sent'
        /\ acked'.by = "run" => sent' = {acked'}
    BY <1>2, <1>3 DEF Acknowledged, Unacknowledged
  <2>5. lateReports' \subseteq sent' \ {acked'} /\ record' \in sent' \cup {NoReport}
    BY <1>1, <1>3, <2>1 DEF Acknowledged, Unacknowledged
  <2> QED
    BY <2>2, <2>3, <2>4, <2>5
<1>4. CASE PublishOutcome \/ PublishFailure
  BY <1>3, <1>4, TurnReports
<1>5. CASE LastResort
  BY <1>3, <1>5, NetReports
<1>6. CASE LateReportArrives
  BY <1>1, <1>6 DEF LateReportArrives
<1>7. CASE StageFails \/ StagePasses \/ SpawnHeartbeat \/ Announce \/ ModelCall
             \/ TurnReturns \/ JoinHeartbeat \/ CleanUpTools \/ FallbackClient
  BY <1>1, <1>7 DEF StageFails, StagePasses, SpawnHeartbeat, Announce, ModelCall,
     TurnReturns, JoinHeartbeat, CleanUpTools, FallbackClient
<1>8. CASE PersistAnswer \/ ExplainFailure
  BY <1>1, <1>8 DEF PersistAnswer, ExplainFailure
<1>9. CASE HeartbeatStep
  BY <1>1, <1>9 DEF HeartbeatStep, TimerDue, HeartbeatCall, HeartbeatBreaks,
     HeartbeatReturns, HeartbeatLearnsLoss, ReapHeartbeat
<1>10. CASE Panic \/ Kill \/ LoseLease \/ LateMessageArrives
  BY <1>1, <1>10 DEF Panic, Kill, LoseLease, LateMessageArrives
<1>11. CASE UNCHANGED vars
  BY <1>1, <1>11 DEF vars
<1> QED
  BY <1>4, <1>5, <1>6, <1>7, <1>8, <1>9, <1>10, <1>11 DEF Next, TaskStep

-----------------------------------------------------------------------------
LEMMA IInvInductive == IInv /\ [Next]_vars => IInv'
<1> SUFFICES ASSUME IInv, [Next]_vars PROVE IInv'
  OBVIOUS
<1>1. TypeOK'
  BY TypeInductive DEF IInv
<1> QED
  BY <1>1, ReportsByPlaceInductive, ReportsOnRecordInductive,
     HeartbeatByPlaceInductive, EndingByPlaceInductive,
     ThreadMatchesEndingInductive, EventsFollowReportInductive,
     ReportsComeLastInductive, EndedIsReportedInductive DEF IInv

\* The invariant the theorems below rest on.
THEOREM InductiveInvariant == Spec => []IInv
<1>1. Init => IInv
  <2> SUFFICES ASSUME Init PROVE IInv
    OBVIOUS
  <2> USE DEF Init
  <2>0. Len(SetupStages) = 14
    BY DEF SetupStages
  <2>1. TypeOK
    <3>1. /\ stage \in 1..(Len(SetupStages) + 1)
          /\ pc \in Places /\ hb \in HeartbeatStates
          /\ usage \in 0..MaxModelCalls
      BY <2>0 DEF Places, HeartbeatStates
    <3>2. /\ sent \subseteq Reports /\ lateReports \subseteq Reports
          /\ acked \in Reports \cup {NoReport} /\ record \in Reports \cup {NoReport}
      OBVIOUS
    <3>3. /\ thread \subseteq Messages /\ lateMessages \subseteq Messages
          /\ events \subseteq FinalEvents
          /\ ending \in LoopStatuses \cup TurnErrors \cup {"none"}
      OBVIOUS
    <3> QED
      BY <3>1, <3>2, <3>3 DEF TypeOK
  <2>2. ReportsByPlace /\ ReportsOnRecord /\ EndedIsReported
    BY DEF ReportsByPlace, ReportsOnRecord, EndedIsReported, NoReport, InFallback
  <2>3. HeartbeatByPlace /\ EndingByPlace /\ ThreadMatchesEnding
    BY DEF HeartbeatByPlace, EndingByPlace, ThreadMatchesEnding
  <2>4. EventsFollowReport /\ ReportsComeLast
    BY DEF EventsFollowReport, ReportsComeLast
  <2> QED
    BY <2>1, <2>2, <2>3, <2>4 DEF IInv
<1> QED
  BY <1>1, IInvInductive, PTL DEF Spec

-----------------------------------------------------------------------------
(* The properties *)

\* Every variable keeps its type (main.rs:478-678, 680-800).
THEOREM TypeCorrect == Spec => []TypeOK
BY InductiveInvariant, PTL DEF IInv

\* A completed run has its answer in the thread (main.rs:687-714).
THEOREM CompletedRunsAreAnswered == Spec => []AnswerBeforeCompleted
<1>1. IInv => AnswerBeforeCompleted
  BY DEF IInv, ReportsOnRecord, ThreadMatchesEnding, AnswerBeforeCompleted, NoReport
<1> QED
  BY <1>1, InductiveInvariant, PTL

\* A thread never gets an answer and an apology (main.rs:687-714, 756-779).
THEOREM NoMixedThread == Spec => []AnswerXorExplanation
<1>1. IInv => AnswerXorExplanation
  BY DEF IInv, ThreadMatchesEnding, AnswerXorExplanation, Messages, LoopStatuses,
     TurnErrors
<1> QED
  BY <1>1, InductiveInvariant, PTL

\* An execution that ends has told the control plane or tried its net
\* (main.rs:319-325, 643-651).
THEOREM NoSilentEnd == Spec => []EndedIsReported
BY InductiveInvariant, PTL DEF IInv

\* Only the turn's own late report can replace an acknowledged one
\* (main.rs:319-325, 711-714, 753-755).
THEOREM AcknowledgedOutcomeStands == Spec => []AcknowledgedStands
<1>1. IInv => AcknowledgedStands
  <2> SUFFICES ASSUME IInv, acked # NoReport, record # acked
               PROVE  acked.by = "net" /\ record.by = "run"
    BY DEF AcknowledgedStands
  <2>1. acked \in sent /\ record \in sent /\ sent \subseteq Reports
    BY DEF IInv, TypeOK, ReportsOnRecord
  <2>2. acked.by \in {"run", "net"} /\ record.by \in {"run", "net"}
    BY <2>1 DEF Reports
  <2>3. acked.by # record.by
    BY <2>1 DEF IInv, ReportsOnRecord
  <2>4. acked.by # "run"
    BY <2>1 DEF IInv, ReportsOnRecord
  <2> QED
    BY <2>2, <2>3, <2>4
<1> QED
  BY <1>1, InductiveInvariant, PTL

\* Final events never contradict the acknowledged report (main.rs:715-798).
THEOREM EventsAreTrue == Spec => []EventsFollowReport
BY InductiveInvariant, PTL DEF IInv

\* Cleanup and the end of the heartbeat precede every report (main.rs:600-615).
THEOREM ReportingComesLast == Spec => []ReportsComeLast
BY InductiveInvariant, PTL DEF IInv

\* After an acknowledgement no further report is sent (main.rs:643-651).
THEOREM Finality == Spec => AcknowledgedIsFinal
<1>1. ASSUME IInv, [Next]_vars, acked # NoReport PROVE UNCHANGED <<sent, acked>>
  <2>1. pc \notin BeforeReport \cup InFallback
    BY <1>1 DEF IInv, ReportsByPlace
  <2>2. ~PublishOutcome /\ ~PublishFailure /\ ~LastResort
    BY <2>1 DEF PublishOutcome, PublishFailure, LastResort, BeforeReport, InFallback
  <2>3. CASE TaskStep \/ ModelCall \/ TurnReturns
    BY <2>2, <2>3 DEF TaskStep, StageFails, StagePasses, SpawnHeartbeat, Announce,
       ModelCall, TurnReturns, JoinHeartbeat, CleanUpTools, PersistAnswer,
       ExplainFailure, FallbackClient
  <2>4. CASE HeartbeatStep
    BY <2>4 DEF HeartbeatStep, TimerDue, HeartbeatCall, HeartbeatBreaks,
       HeartbeatReturns, HeartbeatLearnsLoss, ReapHeartbeat
  <2>5. CASE Panic \/ Kill \/ LoseLease \/ LateReportArrives \/ LateMessageArrives
    BY <2>5 DEF Panic, Kill, LoseLease, LateReportArrives, LateMessageArrives
  <2>6. CASE UNCHANGED vars
    BY <2>6 DEF vars
  <2> QED
    BY <1>1, <2>3, <2>4, <2>5, <2>6 DEF Next
<1> QED
  BY <1>1, InductiveInvariant, PTL DEF Spec, AcknowledgedIsFinal

\* No heartbeat renews the lease of an execution that is past its turn or has
\* been unwound (main.rs:571-603, AbortOnDrop).
THEOREM NoZombieHeartbeat == Spec => NoRenewalForDeadRun
<1>1. ASSUME IInv, [Next]_vars, hb # "calling", hb' = "calling"
      PROVE  pc \in {"announce", "turn", "join"}
  <2>1. HeartbeatCall
    <3>1. CASE TaskStep
      BY <1>1, <3>1 DEF TaskStep, StageFails, StagePasses, SpawnHeartbeat, Announce,
         JoinHeartbeat, CleanUpTools, PersistAnswer, PublishOutcome,
         PublishFailure, ExplainFailure, FallbackClient, LastResort
    <3>2. CASE HeartbeatStep
      BY <1>1, <3>2 DEF HeartbeatStep, TimerDue, HeartbeatBreaks, HeartbeatReturns,
         HeartbeatLearnsLoss, ReapHeartbeat
    <3>3. CASE ModelCall \/ TurnReturns \/ Panic \/ Kill \/ LoseLease
                 \/ LateReportArrives \/ LateMessageArrives
      BY <1>1, <3>3 DEF ModelCall, TurnReturns, Panic, Kill, LoseLease,
         LateReportArrives, LateMessageArrives
    <3>4. CASE UNCHANGED vars
      BY <1>1, <3>4 DEF vars
    <3> QED
      BY <1>1, <3>1, <3>2, <3>3, <3>4 DEF Next
  <2>2. hb = "due" /\ ~aborted
    BY <2>1 DEF HeartbeatCall, HeartbeatAlive
  <2> QED
    BY <1>1, <2>2 DEF IInv, HeartbeatByPlace
<1> QED
  BY <1>1, InductiveInvariant, PTL DEF Spec, NoRenewalForDeadRun

-----------------------------------------------------------------------------
(* Refinement *)

\* Every step of an execution is a step of the contract or leaves it alone
\* (main.rs:319-325, 478-800).
THEOREM Refinement == Spec => ImplementsRunContract
<1>1. Init => Contract!Init
  BY DEF Init, Contract!Init, NoReport, Contract!NoReport, Over
<1>2. Contract!Reports = Reports /\ Contract!NoReport = NoReport
  BY DEF Reports, Statuses, NoReport, Contract!Reports, Contract!Statuses,
     Contract!NoReport
<1>3. ASSUME IInv, [Next]_vars PROVE [Contract!Next]_Contract!vars
  <2> USE DEF Contract!vars
  <2>1. CASE UNCHANGED <<sent, acked, record>>
    <3>1. (pc \in Over) = (pc' \in Over) \/ Contract!End
      <4>1. pc \in Over => pc' \in Over
        BY <1>3 DEF Next, vars, TaskStep, StageFails, StagePasses, SpawnHeartbeat,
           Announce, JoinHeartbeat, CleanUpTools, PersistAnswer, PublishOutcome,
           PublishFailure, ExplainFailure, FallbackClient, LastResort, ModelCall,
           TurnReturns, HeartbeatStep, TimerDue, HeartbeatCall, HeartbeatBreaks,
           HeartbeatReturns, HeartbeatLearnsLoss, ReapHeartbeat, Panic, Kill,
           LoseLease, LateReportArrives, LateMessageArrives, Over
      <4> QED
        BY <2>1, <4>1 DEF Contract!End
    <3> QED
      BY <2>1, <3>1 DEF Contract!Next
  <2>2. ASSUME NEW report \in Reports,
               Acknowledged(report) \/ Unacknowledged(report),
               pc \notin Over, acked = NoReport,
               \/ report.by = "run" /\ sent = {}
               \/ /\ report.by = "net" /\ \A earlier \in sent : earlier.by = "run"
                  /\ report.status \in {"failed", "cancelled"} /\ report.usage = 0
        PROVE  Contract!Next
    <3>1. Contract!InTurn(report)
      BY <2>2 DEF Contract!InTurn
    <3>2. /\ sent' = sent \cup {report}
          /\ \/ record' = report /\ acked' \in {NoReport, report}
             \/ UNCHANGED <<record, acked>>
      BY <2>2 DEF Acknowledged, Unacknowledged
    <3>3. Contract!Report(report)
      BY <1>2, <2>2, <3>1, <3>2 DEF Contract!Report
    <3> QED
      BY <1>2, <3>3 DEF Contract!Next
  <2>3. CASE PublishOutcome \/ PublishFailure
    <3>1. pc \notin Over
      BY <2>3 DEF PublishOutcome, PublishFailure, Over
    <3> QED
      BY <1>3, <2>2, <2>3, <3>1, TurnReports
  <2>4. CASE LastResort
    <3>1. pc \notin Over
      BY <2>4 DEF LastResort, Over
    <3> QED
      BY <1>3, <2>2, <2>4, <3>1, NetReports
  <2>5. CASE LateReportArrives
    <3>1. PICK report \in lateReports : record' \in {report, record}
      BY <2>5 DEF LateReportArrives
    <3>2. UNCHANGED <<sent, acked, pc>>
      BY <2>5 DEF LateReportArrives
    <3>3. report \in sent \ {acked} /\ report \in Reports
      BY <1>3, <3>1 DEF IInv, ReportsOnRecord, TypeOK
    <3>4. CASE record' = report
      <4>1. Contract!ArriveLate(report)
        BY <3>2, <3>3, <3>4 DEF Contract!ArriveLate
      <4> QED
        BY <1>2, <3>3, <4>1 DEF Contract!Next
    <3>5. CASE record' = record
      BY <2>1, <3>2, <3>5
    <3> QED
      BY <3>1, <3>4, <3>5
  <2>6. CASE \/ StageFails \/ StagePasses \/ SpawnHeartbeat \/ Announce
             \/ JoinHeartbeat \/ CleanUpTools \/ PersistAnswer \/ ExplainFailure
             \/ FallbackClient \/ ModelCall \/ TurnReturns
    BY <2>1, <2>6 DEF StageFails, StagePasses, SpawnHeartbeat, Announce,
       JoinHeartbeat, CleanUpTools, PersistAnswer, ExplainFailure,
       FallbackClient, ModelCall, TurnReturns
  <2>7. CASE HeartbeatStep
    BY <2>1, <2>7 DEF HeartbeatStep, TimerDue, HeartbeatCall, HeartbeatBreaks,
       HeartbeatReturns, HeartbeatLearnsLoss, ReapHeartbeat
  <2>8. CASE Panic \/ Kill \/ LoseLease \/ LateMessageArrives
    BY <2>1, <2>8 DEF Panic, Kill, LoseLease, LateMessageArrives
  <2>9. CASE UNCHANGED vars
    BY <2>1, <2>9 DEF vars
  <2> QED
    BY <1>3, <2>3, <2>4, <2>5, <2>6, <2>7, <2>8, <2>9 DEF Next, TaskStep
<1> QED
  BY <1>1, <1>3, InductiveInvariant, PTL DEF Spec, ImplementsRunContract, Contract!Spec
=============================================================================
