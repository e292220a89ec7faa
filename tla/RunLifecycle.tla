---------------------------- MODULE RunLifecycle ----------------------------
(***************************************************************************)
(* One execution of one run (src/main.rs): the task spawned by POST /start *)
(* from execute_run to the end of its last-resort net, the heartbeat task  *)
(* beside it, the cancellation token the two share, and the part of the    *)
(* control plane that keeps what they send.                                *)
(*                                                                         *)
(* A control RPC that matters has four outcomes: acknowledged, refused,    *)
(* applied with its reply lost, or timed out while the request is still    *)
(* on its way, in which case it is applied later or never.  The caller     *)
(* sees the last three alike: an error.                                    *)
(*                                                                         *)
(* Abstracted: the contents of messages, errors and configuration; the     *)
(* progress events nobody waits for; which tools the turn calls.  The      *)
(* engine (takos-agent-engine) is outside the repository: a turn may call  *)
(* the model, and return any LoopStatus or an error.                       *)
(***************************************************************************)
EXTENDS Naturals, Sequences

CONSTANT MaxModelCalls     \* bound: model calls of one turn that usage counts

ASSUME MaxModelCallsAssumption == MaxModelCalls \in Nat

VARIABLES
    configured,   \* payload and environment yield a control RPC client
    pc,           \* where the run's task is
    stage,        \* the next step of its setup
    hb,           \* the heartbeat task
    aborted,      \* AbortOnDrop has fired
    token,        \* the cancellation token is cancelled
    lease,        \* the control plane still leases the run to this executor
    ending,       \* how the turn ended: a LoopStatus or the kind of its error
    answered,     \* the turn ended with an assistant_message
    usage,        \* model calls counted by the usage tracker
    cleaned,      \* the control plane was asked to clean up tool state
    sent,         \* status reports sent so far
    acked,        \* the status report that was acknowledged
    record,       \* the run's status as the control plane has it
    lateReports,  \* reports that timed out and may still arrive
    thread,       \* assistant messages stored in the thread
    lateMessages, \* messages that timed out and may still arrive
    events        \* final run events the control plane received

beatVars == <<hb, aborted>>
turnVars == <<ending, answered, usage>>
reportVars == <<sent, acked, record, lateReports>>
threadVars == <<thread, lateMessages>>
vars == <<configured, pc, stage, hb, aborted, token, lease, ending, answered,
          usage, cleaned, sent, acked, record, lateReports, thread,
          lateMessages, events>>

-----------------------------------------------------------------------------
(* Vocabulary *)

\* execute_run up to the heartbeat task, in order; the steps that end in `?`
\* are Fatal, the others fall back to a default or ignore the error.
SetupStages ==
    <<"control_rpc_client", "run_bootstrap", "run_context", "run_config",
      "tool_catalog", "conversation_history", "skill_runtime_context",
      "user_message", "store_directory", "api_keys", "embedding_config",
      "engine_deps", "thinking_event", "started_event">>
Fatal == {"control_rpc_client", "run_bootstrap", "run_config", "tool_catalog",
          "conversation_history", "user_message", "store_directory",
          "embedding_config", "engine_deps"}

LoopStatuses == {"Finished", "Cancelled", "Paused", "Running", "TimedOut",
                 "Failed"}
TurnErrors == {"operation cancelled", "other error"}

RunStatusForLoop(loop) ==
    CASE loop = "Finished" -> "completed"
      [] loop = "Cancelled" -> "cancelled"
      [] loop \in {"Paused", "Running"} -> "running"
      [] loop \in {"TimedOut", "Failed"} -> "failed"

StatusOfError(error) ==
    IF error = "operation cancelled" THEN "cancelled" ELSE "failed"

Statuses == {"completed", "failed", "cancelled", "running"}
Reports == [by : {"run", "net"}, status : Statuses, usage : 0..MaxModelCalls]
NoReport == [by |-> "nobody", status |-> "running", usage |-> 0]
Messages == {"answer", "explanation"}
FinalEvents == {"message", "completed", "cancelled", "error"}

Places == {"setup", "announce", "turn", "join", "cleanup", "persist",
           "publish", "failing", "explain", "fallback", "lastresort",
           "ended", "dead"}
Over == {"ended", "dead"}
HeartbeatStates == {"unborn", "sleeping", "due", "calling", "stopped"}

TypeOK ==
    /\ configured \in BOOLEAN
    /\ pc \in Places
    /\ stage \in 1..(Len(SetupStages) + 1)
    /\ hb \in HeartbeatStates
    /\ aborted \in BOOLEAN /\ token \in BOOLEAN /\ lease \in BOOLEAN
    /\ ending \in LoopStatuses \cup TurnErrors \cup {"none"}
    /\ answered \in BOOLEAN
    /\ usage \in 0..MaxModelCalls
    /\ cleaned \in BOOLEAN
    /\ sent \subseteq Reports
    /\ acked \in Reports \cup {NoReport}
    /\ record \in Reports \cup {NoReport}
    /\ lateReports \subseteq Reports
    /\ thread \subseteq Messages
    /\ lateMessages \subseteq Messages
    /\ events \subseteq FinalEvents

Init ==
    /\ configured \in BOOLEAN
    /\ pc = "setup" /\ stage = 1
    /\ hb = "unborn" /\ aborted = FALSE
    /\ token = FALSE /\ lease = TRUE
    /\ ending = "none" /\ answered = FALSE /\ usage = 0
    /\ cleaned = FALSE
    /\ sent = {} /\ acked = NoReport /\ record = NoReport /\ lateReports = {}
    /\ thread = {} /\ lateMessages = {}
    /\ events = {}

-----------------------------------------------------------------------------
(* The outcomes of a control RPC *)

\* update-run-status answered 2xx.
Acknowledged(report) ==
    /\ sent' = sent \cup {report}
    /\ acked' = report
    /\ record' = report
    /\ UNCHANGED lateReports

\* update-run-status returned an error: refused, reply lost, or timed out
\* (CONTROL_RPC_HTTP_TIMEOUT) with the request still on its way.
Unacknowledged(report) ==
    /\ sent' = sent \cup {report}
    /\ UNCHANGED acked
    /\ \/ UNCHANGED <<record, lateReports>>
       \/ record' = report /\ UNCHANGED lateReports
       \/ lateReports' = lateReports \cup {report} /\ UNCHANGED record

\* The same two cases for add-message; its idempotency key is the run and a
\* hash of the content, so that a message is in the thread at most once.
Stored(message) ==
    /\ thread' = thread \cup {message}
    /\ UNCHANGED lateMessages

NotStored(message) ==
    \/ UNCHANGED threadVars
    \/ thread' = thread \cup {message} /\ UNCHANGED lateMessages
    \/ lateMessages' = lateMessages \cup {message} /\ UNCHANGED thread

\* run-event, sent with `.ok()`: it may or may not arrive.
Emit(event) == events' \in {events, events \cup {event}}

-----------------------------------------------------------------------------
(* execute_run: setup *)

StageFails ==
    /\ pc = "setup" /\ stage <= Len(SetupStages)
    /\ SetupStages[stage] \in Fatal
    /\ SetupStages[stage] = "control_rpc_client" => ~configured
    /\ pc' = "fallback"
    /\ UNCHANGED <<configured, stage, beatVars, token, lease, turnVars, cleaned,
                   reportVars, threadVars, events>>

StagePasses ==
    /\ pc = "setup" /\ stage <= Len(SetupStages)
    /\ SetupStages[stage] = "control_rpc_client" => configured
    /\ stage' = stage + 1
    /\ UNCHANGED <<configured, pc, beatVars, token, lease, turnVars, cleaned,
                   reportVars, threadVars, events>>

\* tokio::spawn(heartbeat_loop), the drop guard and AbortOnDrop.
SpawnHeartbeat ==
    /\ pc = "setup" /\ stage > Len(SetupStages)
    /\ hb' = "sleeping"
    /\ pc' = "announce"
    /\ UNCHANGED <<configured, stage, aborted, token, lease, turnVars, cleaned,
                   reportVars, threadVars, events>>

\* The event "Starting model execution." has been sent, or has failed.
Announce ==
    /\ pc = "announce"
    /\ pc' = "turn"
    /\ UNCHANGED <<configured, stage, beatVars, token, lease, turnVars, cleaned,
                   reportVars, threadVars, events>>

-----------------------------------------------------------------------------
(* execute_run: the turn, as far as this program sees it *)

ModelCall ==
    /\ pc = "turn"
    /\ usage < MaxModelCalls
    /\ usage' = usage + 1
    /\ UNCHANGED <<configured, pc, stage, beatVars, token, lease, ending,
                   answered, cleaned, reportVars, threadVars, events>>

\* Slip: the token is not cancelled after the turn.
TurnReturnsOnly ==
    /\ pc = "turn"
    /\ ending' \in LoopStatuses /\ answered' \in BOOLEAN
    /\ pc' = "join"
    /\ UNCHANGED <<configured, stage, beatVars, token, lease, usage, cleaned,
                   reportVars, threadVars, events>>

\* run_turn_with_options returns; cancellation_token.cancel() follows at once.
\* The engine ends a turn as Cancelled only when its token is cancelled; an
\* error may quote any text, "operation cancelled" included.
TurnReturns ==
    /\ pc = "turn"
    /\ ending' \in LoopStatuses \cup TurnErrors
    /\ ending' = "Cancelled" => token
    /\ answered' \in (IF ending' \in LoopStatuses THEN BOOLEAN ELSE {FALSE})
    /\ token' = TRUE
    /\ pc' = "join"
    /\ UNCHANGED <<configured, stage, beatVars, lease, usage, cleaned,
                   reportVars, threadVars, events>>

\* Slip: the heartbeat's handle is dropped instead of awaited.
DetachHeartbeat ==
    /\ pc = "join"
    /\ pc' = "cleanup"
    /\ UNCHANGED <<configured, stage, beatVars, token, lease, turnVars, cleaned,
                   reportVars, threadVars, events>>

\* handle.await: the heartbeat task is over.
JoinHeartbeat ==
    /\ pc = "join"
    /\ hb = "stopped"
    /\ pc' = "cleanup"
    /\ UNCHANGED <<configured, stage, beatVars, token, lease, turnVars, cleaned,
                   reportVars, threadVars, events>>

\* "progress", tool_cleanup, "progress"; none of their errors matters.
CleanUpTools ==
    /\ pc = "cleanup"
    /\ cleaned' = TRUE
    /\ pc' = IF ending \in TurnErrors THEN "failing"
             ELSE IF answered THEN "persist" ELSE "publish"
    /\ UNCHANGED <<configured, stage, beatVars, token, lease, turnVars,
                   reportVars, threadVars, events>>

-----------------------------------------------------------------------------
(* handle_success *)

\* Slips: an answer that could not be stored is passed over, or explained to
\* the user by handle_failure with the thread at hand.
PersistAnswerOr(onError) ==
    /\ pc = "persist"
    /\ \/ Stored("answer") /\ Emit("message") /\ pc' = "publish"
       \/ NotStored("answer") /\ pc' = onError /\ UNCHANGED events
    /\ UNCHANGED <<configured, stage, beatVars, token, lease, turnVars, cleaned,
                   reportVars>>
PersistAnswerBestEffort == PersistAnswerOr("publish")
PersistAnswerOrExplain == PersistAnswerOr("failing")

PersistAnswer ==
    /\ pc = "persist"
    /\ \/ Stored("answer") /\ Emit("message") /\ pc' = "publish"
       \/ NotStored("answer") /\ UNCHANGED events /\ pc' = "fallback"
    /\ UNCHANGED <<configured, stage, beatVars, token, lease, turnVars, cleaned,
                   reportVars>>

\* Slip: the error of the report is swallowed.
PublishOutcomeSwallowed ==
    /\ pc = "publish"
    /\ LET report == [by |-> "run", status |-> RunStatusForLoop(ending), usage |-> usage]
       IN  Acknowledged(report) \/ Unacknowledged(report)
    /\ pc' = "ended"
    /\ UNCHANGED <<configured, stage, beatVars, token, lease, turnVars, cleaned,
                   threadVars, events>>
PublishOutcome ==
    LET status == RunStatusForLoop(ending)
        report == [by |-> "run", status |-> status, usage |-> usage]
    IN  /\ pc = "publish"
        /\ \/ /\ Acknowledged(report)
              /\ Emit(IF status = "completed" THEN "completed" ELSE "cancelled")
              /\ pc' = "ended"
           \/ Unacknowledged(report) /\ pc' = "fallback" /\ UNCHANGED events
        /\ UNCHANGED <<configured, stage, beatVars, token, lease, turnVars,
                       cleaned, threadVars>>

-----------------------------------------------------------------------------
(* handle_failure, called with the thread and the usage of the turn *)

PublishFailure ==
    LET status == StatusOfError(ending)
        report == [by |-> "run", status |-> status, usage |-> usage]
    IN  /\ pc = "failing"
        /\ \/ /\ Acknowledged(report)
              /\ \/ /\ status = "failed"
                    /\ pc' = "explain" /\ UNCHANGED events
                 \/ /\ status = "cancelled"
                    /\ Emit("cancelled") /\ pc' = "ended"
           \/ Unacknowledged(report) /\ pc' = "fallback" /\ UNCHANGED events
        /\ UNCHANGED <<configured, stage, beatVars, token, lease, turnVars,
                       cleaned, threadVars>>

\* The user-visible message, then the "error" event, whatever becomes of both.
ExplainFailure ==
    /\ pc = "explain"
    /\ \/ /\ Stored("explanation")
          /\ \E arrived \in SUBSET {"message", "error"} :
                events' = events \cup arrived
       \/ NotStored("explanation") /\ Emit("error")
    /\ pc' = "ended"
    /\ UNCHANGED <<configured, stage, beatVars, token, lease, turnVars, cleaned,
                   reportVars>>

-----------------------------------------------------------------------------
(* The net around execute_run: a client of its own, no thread, no usage *)

FallbackClient ==
    /\ pc = "fallback"
    /\ \/ configured /\ cleaned' = TRUE /\ pc' = "lastresort"
       \/ ~configured /\ UNCHANGED cleaned /\ pc' = "ended"
    /\ UNCHANGED <<configured, stage, beatVars, token, lease, turnVars,
                   reportVars, threadVars, events>>

\* Slip: the net tries again as long as its report is not acknowledged.
LastResortRetried ==
    /\ pc = "lastresort"
    /\ LET report == [by |-> "net", status |-> "failed", usage |-> 0]
       IN  \/ Acknowledged(report) /\ pc' = "ended"
           \/ Unacknowledged(report) /\ UNCHANGED pc
    /\ UNCHANGED <<configured, stage, beatVars, token, lease, turnVars, cleaned,
                   threadVars, events>>

\* The error that brought the run here may quote any text.
LastResort ==
    /\ pc = "lastresort"
    /\ \E error \in TurnErrors :
          LET status == StatusOfError(error)
              report == [by |-> "net", status |-> status, usage |-> 0]
          IN  \/ /\ Acknowledged(report)
                 /\ Emit(IF status = "cancelled" THEN "cancelled" ELSE "error")
              \/ Unacknowledged(report) /\ UNCHANGED events
    /\ pc' = "ended"
    /\ UNCHANGED <<configured, stage, beatVars, token, lease, turnVars, cleaned,
                   threadVars>>

-----------------------------------------------------------------------------
(* heartbeat_loop *)

HeartbeatAlive == ~aborted

\* sleep(interval) has elapsed; the select! has not been polled since.
TimerDue ==
    /\ hb = "sleeping" /\ HeartbeatAlive
    /\ hb' = "due"
    /\ UNCHANGED <<configured, pc, stage, aborted, token, lease, turnVars,
                   cleaned, reportVars, threadVars, events>>

\* select! is not biased: a due timer may win against a cancelled token.
HeartbeatCall ==
    /\ hb = "due" /\ HeartbeatAlive
    /\ hb' = "calling"
    /\ UNCHANGED <<configured, pc, stage, aborted, token, lease, turnVars,
                   cleaned, reportVars, threadVars, events>>

HeartbeatBreaks ==
    /\ hb \in {"sleeping", "due"} /\ HeartbeatAlive
    /\ token
    /\ hb' = "stopped"
    /\ UNCHANGED <<configured, pc, stage, aborted, token, lease, turnVars,
                   cleaned, reportVars, threadVars, events>>

\* Renewed, or failed in a way that is only logged.  The next select! finds a
\* new timer, so a token cancelled during the call ends the loop there.
HeartbeatReturns ==
    /\ hb = "calling" /\ HeartbeatAlive
    /\ hb' = IF token THEN "stopped" ELSE "sleeping"
    /\ UNCHANGED <<configured, pc, stage, aborted, token, lease, turnVars,
                   cleaned, reportVars, threadVars, events>>

\* The control plane answers that the lease is lost.
HeartbeatLearnsLoss ==
    /\ hb = "calling" /\ HeartbeatAlive
    /\ ~lease
    /\ token' = TRUE
    /\ hb' = "stopped"
    /\ UNCHANGED <<configured, pc, stage, aborted, lease, turnVars, cleaned,
                   reportVars, threadVars, events>>

\* The runtime drops the future of the aborted task.
ReapHeartbeat ==
    /\ aborted /\ hb # "stopped"
    /\ hb' = "stopped"
    /\ UNCHANGED <<configured, pc, stage, aborted, token, lease, turnVars,
                   cleaned, reportVars, threadVars, events>>

HeartbeatStep ==
    TimerDue \/ HeartbeatCall \/ HeartbeatBreaks \/ HeartbeatReturns
        \/ HeartbeatLearnsLoss \/ ReapHeartbeat

-----------------------------------------------------------------------------
(* Failures and the control plane *)

\* Slip: the heartbeat's handle has no AbortOnDrop.
PanicWithoutAbort ==
    /\ pc \notin Over \cup {"join"}
    /\ pc' = "dead"
    /\ token' = (token \/ hb # "unborn")
    /\ UNCHANGED <<configured, stage, beatVars, lease, turnVars, cleaned,
                   reportVars, threadVars, events>>
\* A panic unwinds the task.  While the heartbeat handle is still in its guard
\* the unwinding aborts that task; the drop guard cancels the token.
Panic ==
    /\ pc \notin Over \cup {"join"}
    /\ pc' = "dead"
    /\ aborted' = (pc \in {"announce", "turn"})
    /\ token' = (token \/ hb # "unborn")
    /\ UNCHANGED <<configured, stage, hb, lease, turnVars, cleaned, reportVars,
                   threadVars, events>>

\* The process is gone, with every task of it.
Kill ==
    /\ pc # "ended"
    /\ pc' = "dead"
    /\ hb' = IF hb = "unborn" THEN "unborn" ELSE "stopped"
    /\ UNCHANGED <<configured, stage, aborted, token, lease, turnVars, cleaned,
                   reportVars, threadVars, events>>

\* The lease expires, is revoked, or goes to another executor.
LoseLease ==
    /\ lease
    /\ lease' = FALSE
    /\ UNCHANGED <<configured, pc, stage, beatVars, token, turnVars, cleaned,
                   reportVars, threadVars, events>>

LateReportArrives ==
    /\ \E report \in lateReports :
          /\ lateReports' = lateReports \ {report}
          /\ record' \in {report, record}
    /\ UNCHANGED <<configured, pc, stage, beatVars, token, lease, turnVars,
                   cleaned, sent, acked, threadVars, events>>

LateMessageArrives ==
    /\ \E message \in lateMessages :
          /\ lateMessages' = lateMessages \ {message}
          /\ thread' \in {thread, thread \cup {message}}
    /\ UNCHANGED <<configured, pc, stage, beatVars, token, lease, turnVars,
                   cleaned, reportVars, events>>

-----------------------------------------------------------------------------
\* The run's task outside the turn, whose length this program does not bound.
TaskStep ==
    \/ StageFails \/ StagePasses \/ SpawnHeartbeat \/ Announce
    \/ JoinHeartbeat \/ CleanUpTools
    \/ PersistAnswer \/ PublishOutcome
    \/ PublishFailure \/ ExplainFailure
    \/ FallbackClient \/ LastResort

Next ==
    \/ TaskStep
    \/ ModelCall \/ TurnReturns
    \/ HeartbeatStep
    \/ Panic \/ Kill
    \/ LoseLease \/ LateReportArrives \/ LateMessageArrives

Spec == Init /\ [][Next]_vars

\* Every control RPC returns within CONTROL_RPC_HTTP_TIMEOUT and the runtime
\* polls both tasks.  Of the engine only this is assumed: it gives up a turn
\* whose token is cancelled.
Fairness ==
    /\ WF_vars(TaskStep)
    /\ WF_vars(HeartbeatStep)
    /\ WF_vars(token /\ TurnReturns)

FairSpec == Spec /\ Fairness

-----------------------------------------------------------------------------
(* Properties *)

\* A run on record as completed has the answer it ended with in its thread,
\* late requests included: handle_success stores the message first and gives
\* up the report when that is not confirmed (main.rs:687-714).
AnswerBeforeCompleted ==
    record.status = "completed" /\ answered => "answer" \in thread

\* The user is never shown both an answer and an apology for failing: the only
\* failure that is explained in the thread is one of the turn (main.rs:756-779).
AnswerXorExplanation ==
    ~(Messages \subseteq thread \cup lateMessages)

\* "Returning Ok keeps the outer fallback from re-reporting it with zeroed
\* usage" (main.rs:643-647): once a report of this execution is acknowledged,
\* no other is sent, whichever path the execution takes afterwards.
AcknowledgedIsFinal == [][acked # NoReport => UNCHANGED <<sent, acked>>]_vars

\* "If reporting itself fails, `?` above still propagates Err so the outer
\* last-resort net fires" (main.rs:646-647): an execution that gets to its end
\* has an acknowledged report, or has tried the net; without a client for the
\* control plane there is nothing it can do.
EndedIsReported ==
    pc = "ended" =>
        \/ acked # NoReport
        \/ \E report \in sent : report.by = "net"
        \/ ~configured

\* The record may differ from an acknowledged report in one way only: the net's
\* report was acknowledged, and the run's own, which timed out, came after it.
AcknowledgedStands ==
    acked # NoReport /\ record # acked =>
        acked.by = "net" /\ record.by = "run"

\* Final events tell the truth about the report they follow (main.rs:715-737,
\* 781-798): "completed" only after an acknowledged completion, "error" only
\* after an acknowledged failure, and never both an error and a completion.
EventsFollowReport ==
    /\ "completed" \in events => acked.status = "completed"
    /\ "error" \in events => acked.status = "failed"
    /\ "cancelled" \in events => acked.status # "completed" /\ acked # NoReport

\* The lease is renewed only for an execution that is still at its turn or
\* waits for the heartbeat to stop, never for one that reports or is over,
\* panic-unwind included (main.rs:571-580, AbortOnDrop 156-173).
NoRenewalForDeadRun ==
    [][hb # "calling" /\ hb' = "calling"
          => pc \in {"announce", "turn", "join"}]_vars

\* Nothing is reported before the tool state was cleaned up (main.rs:615, 322)
\* and while the heartbeat could still cancel or renew (main.rs:600-603).
ReportsComeLast == sent # {} => cleaned /\ hb \in {"unborn", "stopped"}

\* The execution implements the contract about its outcome.
Contract == INSTANCE RunContract WITH
               MaxUsage <- MaxModelCalls, open <- pc \notin Over
ImplementsRunContract == Contract!Spec

\* Everything but the turn terminates: an execution that is not over for ever
\* sits in a turn that nobody has cancelled (main.rs:571-603).
OnlyTheTurnMayHang ==
    <>(pc \in Over) \/ <>[](pc = "turn" /\ ~token)

-----------------------------------------------------------------------------
(* The inductive invariant behind the safety properties *)

BeforeReport == {"setup", "announce", "turn", "join", "cleanup", "persist",
                 "publish", "failing"}
InFallback == {"fallback", "lastresort"}

\* How far reporting has got at each place.
ReportsByPlace ==
    /\ pc \in BeforeReport => sent = {}
    /\ pc \in BeforeReport \cup InFallback => acked = NoReport
    /\ pc \in InFallback => \A report \in sent : report.by = "run"
    /\ pc = "explain" => acked.status = "failed" /\ acked.by = "run"
    /\ pc = "lastresort" => cleaned /\ configured
    /\ pc \in {"persist", "publish", "failing", "explain"} => cleaned

\* One report per reporter, the net's the poorer one; the control plane knows
\* nothing but these, and what is late is not what was acknowledged.
ReportsOnRecord ==
    /\ \A a, b \in sent : a.by = b.by => a = b
    /\ \A report \in sent : report.by = "net" =>
          report.status \in {"failed", "cancelled"} /\ report.usage = 0
    /\ acked # NoReport => acked \in sent /\ record \in sent
    /\ acked.by = "run" => sent = {acked}
    /\ lateReports \subseteq sent \ {acked}
    /\ record \in sent \cup {NoReport}

\* Where the heartbeat may be while the run's task is at each place.
HeartbeatByPlace ==
    /\ pc = "setup" => hb = "unborn"
    /\ aborted => pc = "dead"
    /\ pc \notin {"setup", "announce", "turn", "join", "dead"} =>
          hb \in {"unborn", "stopped"}
    /\ pc = "dead" => aborted \/ hb \in {"unborn", "stopped"}

\* What is known of the turn's end at each place.
EndingByPlace ==
    /\ pc \in {"setup", "announce", "turn"} => ending = "none"
    /\ pc \in {"persist", "publish"} => ending \in LoopStatuses
    /\ pc \in {"failing", "explain"} => ending \in TurnErrors
    /\ pc \in {"join", "cleanup"} => ending \in LoopStatuses \cup TurnErrors
    /\ answered => ending \in LoopStatuses

\* Which message the thread may hold, and when the answer must be there.
ThreadMatchesEnding ==
    /\ "answer" \in thread \cup lateMessages => ending \in LoopStatuses
    /\ "explanation" \in thread \cup lateMessages => ending \in TurnErrors
    /\ pc = "publish" /\ answered => "answer" \in thread
    /\ \A report \in sent :
          report.status = "completed" /\ answered => "answer" \in thread

IInv ==
    /\ TypeOK
    /\ ReportsByPlace
    /\ ReportsOnRecord
    /\ HeartbeatByPlace
    /\ EndingByPlace
    /\ ThreadMatchesEnding
    /\ EventsFollowReport
    /\ ReportsComeLast
    /\ EndedIsReported
=============================================================================
