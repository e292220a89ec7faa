----------------------------- MODULE ToolBridge -----------------------------
(***************************************************************************)
(* CompositeToolExecutor (src/tool_bridge.rs): the tool calls of one turn, *)
(* the cancellation token that reaches the remote ones among them, the     *)
(* records the turn's answer is stored with, and the control plane's side  *)
(* of tool-execute.                                                        *)
(*                                                                         *)
(* The engine may have several calls in flight, and it may give up a turn  *)
(* with calls in flight, which drops their futures at the await they are   *)
(* at.  What a call does from one await to the next is one step, the       *)
(* sending of an event it then waits for included.                         *)
(*                                                                         *)
(* Abstracted: arguments, outputs, summaries, "thinking" events.  A memory *)
(* tool is the engine's own: it has no id, no event and no record.         *)
(***************************************************************************)
EXTENDS Naturals, Sequences

CONSTANTS
    Calls,          \* the tool calls of a turn
    Tools,          \* the names that the engine may call
    MemoryTools,    \* LOCAL_MEMORY_TOOL_NAMES
    SkillTools,     \* LOCAL_SKILL_TOOL_NAMES
    Allowlists      \* what TAKOS_AGENT_TOOL_ALLOWLIST may be set to: <<>>, not
                    \* set, or the entries between its commas

\* The name of a call not made yet, and of an entry with nothing in it.
NoName == "no name"

ASSUME ToolsAssumption ==
    /\ NoName \notin Tools
    /\ MemoryTools \cap SkillTools = {}

VARIABLES
    allowlist,  \* the process's TAKOS_AGENT_TOOL_ALLOWLIST
    turn,       \* "running", "over", then "taken" (take_tool_executions)
    token,      \* the run's cancellation token is cancelled
    tool,       \* the name each call is for
    step,       \* where its future is
    id,         \* the sequence number its tool_call_id is made from; 0: none
    sequence,   \* tool_call_sequence
    verdict,    \* what the call comes to
    emitted,    \* its events, in the order they were sent
    records,    \* the buffer tool_executions
    taken,      \* the records stored with the turn's answer
    requested,  \* calls whose tool-execute request was sent
    executed    \* calls the control plane has executed

runVars == <<allowlist, turn, token>>
callVars == <<tool, step, id, sequence, verdict, emitted>>
vars == <<runVars, callVars, records, taken, requested, executed>>

LocalTools == MemoryTools \cup SkillTools

\* Each an await, but "selecting", which is inside a poll, and the ends.
Steps == {"idle", "memory", "announcing", "selecting", "waiting", "cancelling",
          "failing", "refusing", "reporting", "concluding", "settled",
          "dropped"}
InFlight == Steps \ {"idle", "settled", "dropped"}

Verdicts == {"none", "local", "unsupported", "output", "tool_error",
             "rpc_error", "cancelled", "not_permitted"}
Recorded == {"output", "tool_error", "cancelled", "not_permitted"}
Records == [id : Nat \ {0}, call : Calls, verdict : Recorded]
Events == {"tool_call", "tool_result"}

TypeOK ==
    /\ allowlist \in Allowlists
    /\ turn \in {"running", "over", "taken"}
    /\ token \in BOOLEAN
    /\ tool \in [Calls -> Tools \cup {NoName}]
    /\ step \in [Calls -> Steps]
    /\ id \in [Calls -> Nat]
    /\ sequence \in Nat \ {0}
    /\ verdict \in [Calls -> Verdicts]
    /\ emitted \in [Calls -> Seq(Events)]
    /\ records \in Seq(Records)
    /\ taken \in Seq(Records)
    /\ requested \subseteq Calls
    /\ executed \subseteq requested

Init ==
    /\ allowlist \in Allowlists
    /\ turn = "running" /\ token = FALSE
    /\ tool = [c \in Calls |-> NoName]
    /\ step = [c \in Calls |-> "idle"]
    /\ id = [c \in Calls |-> 0] /\ sequence = 1
    /\ verdict = [c \in Calls |-> "none"]
    /\ emitted = [c \in Calls |-> <<>>]
    /\ records = <<>> /\ taken = <<>>
    /\ requested = {} /\ executed = {}

Moves(c, from, to) ==
    /\ step[c] = from
    /\ step' = [step EXCEPT ![c] = to]
Decides(c, outcome) == verdict' = [verdict EXCEPT ![c] = outcome]
Emits(c, event) == emitted' = [emitted EXCEPT ![c] = Append(@, event)]

\* record_tool_execution
Record(c, outcome) ==
    records' = Append(records, [id |-> id[c], call |-> c, verdict |-> outcome])

-----------------------------------------------------------------------------
(* The allowlist, read anew for every call *)

\* An entry is a name, "*" or nothing, with or without spaces around it.
Trim(entry) == [text |-> entry.text, padded |-> FALSE]
Plain(text) == [text |-> text, padded |-> FALSE]

\* resolve_tool_allowlist: without an entry it is None, here the empty set.
ToolAllowlist ==
    {Trim(allowlist[i]) : i \in DOMAIN allowlist} \ {Plain(NoName)}

\* Slip: where no allowlist is configured, there is nothing to enforce.
IsToolAllowedByDefault(name) ==
    ToolAllowlist = {} \/ {Plain("*"), Plain(name)} \cap ToolAllowlist # {}
\* is_tool_allowed
IsToolAllowed(name) == {Plain("*"), Plain(name)} \cap ToolAllowlist # {}

-----------------------------------------------------------------------------
(* execute: dispatch *)

DispatchMemory(c, name) ==
    /\ turn = "running"
    /\ name \in MemoryTools
    /\ Moves(c, "idle", "memory")
    /\ tool' = [tool EXCEPT ![c] = name]
    /\ UNCHANGED <<runVars, id, sequence, verdict, emitted, records, taken,
                   requested, executed>>

MemoryReturns(c) ==
    /\ Moves(c, "memory", "settled")
    /\ Decides(c, "local")
    /\ UNCHANGED <<runVars, tool, id, sequence, emitted, records, taken,
                   requested, executed>>

Numbered(c, name) ==
    /\ turn = "running"
    /\ name \notin MemoryTools
    /\ id' = [id EXCEPT ![c] = sequence]
    /\ tool' = [tool EXCEPT ![c] = name]
    /\ UNCHANGED <<runVars, records, taken, requested, executed>>

\* Slip: the number is read and written back, with room for another reader.
AnnounceRacy(c, name) ==
    /\ Numbered(c, name) /\ sequence' \in {sequence, sequence + 1}
    /\ name \in SkillTools \/ IsToolAllowed(name)
    /\ Moves(c, "idle", "announcing")
    /\ Emits(c, "tool_call")
    /\ UNCHANGED verdict

\* A local skill, or a remote tool that the allowlist lets through.
Announce(c, name) ==
    /\ Numbered(c, name) /\ sequence' = sequence + 1
    /\ name \in SkillTools \/ IsToolAllowed(name)
    /\ Moves(c, "idle", "announcing")
    /\ Emits(c, "tool_call")
    /\ UNCHANGED verdict

\* Any other tool.
Refuse(c, name) ==
    /\ Numbered(c, name) /\ sequence' = sequence + 1
    /\ name \notin SkillTools /\ ~IsToolAllowed(name)
    /\ Moves(c, "idle", "refusing")
    /\ Emits(c, "tool_result")
    /\ Decides(c, "not_permitted")

FinishRefusal(c) ==
    /\ Moves(c, "refusing", "settled")
    /\ Record(c, "not_permitted")
    /\ UNCHANGED <<runVars, tool, id, sequence, verdict, emitted, taken,
                   requested, executed>>

-----------------------------------------------------------------------------
(* execute_local_skill: the skill itself does not wait *)

RunSkill(c) ==
    /\ tool[c] \in SkillTools
    /\ Moves(c, "announcing", "reporting")
    /\ Decides(c, "output")
    /\ Emits(c, "tool_result")
    /\ UNCHANGED <<runVars, tool, id, sequence, records, taken, requested,
                   executed>>

\* skill_get and skill_describe of a skill that is not there.
SkillUnsupported(c) ==
    /\ tool[c] \in SkillTools
    /\ Moves(c, "announcing", "settled")
    /\ Decides(c, "unsupported")
    /\ UNCHANGED <<runVars, tool, id, sequence, emitted, records, taken,
                   requested, executed>>

-----------------------------------------------------------------------------
(* execute_remote_tool *)

\* Slip: the select is not `biased`.
SelectUnbiased(c) ==
    /\ tool[c] \notin SkillTools
    /\ Moves(c, "announcing", "selecting")
    /\ UNCHANGED <<runVars, tool, id, sequence, verdict, emitted, records,
                   taken, requested, executed>>

\* The select is polled for the first time, and its first branch, the token,
\* is not ready.  Before the second one is polled, in Send, it may become so.
Select(c) ==
    /\ tool[c] \notin SkillTools
    /\ ~token
    /\ Moves(c, "announcing", "selecting")
    /\ UNCHANGED <<runVars, tool, id, sequence, verdict, emitted, records,
                   taken, requested, executed>>

Send(c) ==
    /\ Moves(c, "selecting", "waiting")
    /\ requested' = requested \cup {c}
    /\ UNCHANGED <<runVars, tool, id, sequence, verdict, emitted, records,
                   taken, executed>>

\* Slip: only a call that has not been sent looks at the token.
AbortUnsent(c) ==
    /\ tool[c] \notin SkillTools
    /\ token
    /\ Moves(c, "announcing", "cancelling")
    /\ Decides(c, "cancelled")
    /\ Emits(c, "tool_result")
    /\ UNCHANGED <<runVars, tool, id, sequence, records, taken, requested,
                   executed>>
\* A poll of the select finds the token cancelled and drops the request.
Abort(c) ==
    /\ tool[c] \notin SkillTools
    /\ token
    /\ Moves(c, "announcing", "cancelling") \/ Moves(c, "waiting", "cancelling")
    /\ Decides(c, "cancelled")
    /\ Emits(c, "tool_result")
    /\ UNCHANGED <<runVars, tool, id, sequence, records, taken, requested,
                   executed>>

FinishAbort(c) ==
    /\ Moves(c, "cancelling", "settled")
    /\ Record(c, "cancelled")
    /\ UNCHANGED <<runVars, tool, id, sequence, verdict, emitted, taken,
                   requested, executed>>

\* `biased`: an answer that is there together with the cancellation is lost.
RemoteAnswers(c) ==
    /\ ~token
    /\ c \in executed
    /\ Moves(c, "waiting", "reporting")
    /\ \E outcome \in {"output", "tool_error"} : Decides(c, outcome)
    /\ Emits(c, "tool_result")
    /\ UNCHANGED <<runVars, tool, id, sequence, records, taken, requested,
                   executed>>

\* The RPC fails, whether or not the tool has been or will be executed.
RpcFails(c) ==
    /\ ~token
    /\ Moves(c, "waiting", "failing")
    /\ Decides(c, "rpc_error")
    /\ Emits(c, "tool_result")
    /\ UNCHANGED <<runVars, tool, id, sequence, records, taken, requested,
                   executed>>

\* The one outcome of a remote call that leaves no record.
FinishRpcFailure(c) ==
    /\ Moves(c, "failing", "settled")
    /\ UNCHANGED <<runVars, tool, id, sequence, verdict, emitted, records,
                   taken, requested, executed>>

-----------------------------------------------------------------------------
(* The end of a call that has a result, local or remote *)

\* Slip: an error that the tool itself returned is not recorded.
RecordOutputsOnly(c) ==
    /\ Moves(c, "reporting", "concluding")
    /\ IF verdict[c] = "output" THEN Record(c, verdict[c]) ELSE UNCHANGED records
    /\ UNCHANGED <<runVars, tool, id, sequence, verdict, emitted, taken,
                   requested, executed>>

\* tool_result has been sent; the record is made, and then "thinking" is sent.
RecordResult(c) ==
    /\ Moves(c, "reporting", "concluding")
    /\ Record(c, verdict[c])
    /\ UNCHANGED <<runVars, tool, id, sequence, verdict, emitted, taken,
                   requested, executed>>

Conclude(c) ==
    /\ Moves(c, "concluding", "settled")
    /\ UNCHANGED <<runVars, tool, id, sequence, verdict, emitted, records,
                   taken, requested, executed>>

-----------------------------------------------------------------------------
(* The turn and the control plane *)

\* The heartbeat finds the lease lost.
Cancel ==
    /\ turn = "running" /\ ~token
    /\ token' = TRUE
    /\ UNCHANGED <<allowlist, turn, callVars, records, taken, requested,
                   executed>>

\* Slip: the calls go on after the turn, as tasks of their own would.
TurnEndsDetached ==
    /\ turn = "running"
    /\ turn' = "over" /\ token' = TRUE
    /\ UNCHANGED <<allowlist, callVars, records, taken, requested, executed>>

\* run_turn_with_options returns: what is still in flight is dropped with it
\* (at an await, never inside a poll), and the token is cancelled.
TurnEnds ==
    /\ turn = "running"
    /\ \A c \in Calls : step[c] # "selecting"
    /\ turn' = "over" /\ token' = TRUE
    /\ step' = [c \in Calls |-> IF step[c] \in InFlight THEN "dropped" ELSE step[c]]
    /\ UNCHANGED <<allowlist, tool, id, sequence, verdict, emitted, records,
                   taken, requested, executed>>

TakeToolExecutions ==
    /\ turn = "over"
    /\ turn' = "taken"
    /\ taken' = records /\ records' = <<>>
    /\ UNCHANGED <<allowlist, token, callVars, requested, executed>>

\* The control plane executes a request it got, however the caller fares.
RemoteExecutes(c) ==
    /\ c \in requested \ executed
    /\ executed' = executed \cup {c}
    /\ UNCHANGED <<runVars, callVars, records, taken, requested>>

-----------------------------------------------------------------------------
\* What a call does on its own, not waiting for an answer of tool-execute.
CallStep(c) ==
    \/ MemoryReturns(c) \/ FinishRefusal(c)
    \/ RunSkill(c) \/ SkillUnsupported(c)
    \/ Select(c) \/ Send(c) \/ Abort(c) \/ FinishAbort(c)
    \/ FinishRpcFailure(c) \/ RecordResult(c) \/ Conclude(c)

Next ==
    \/ \E c \in Calls :
          \/ \E name \in Tools :
                DispatchMemory(c, name) \/ Announce(c, name) \/ Refuse(c, name)
          \/ CallStep(c)
          \/ RemoteAnswers(c) \/ RpcFails(c) \/ RemoteExecutes(c)
    \/ Cancel \/ TurnEnds \/ TakeToolExecutions

Spec == Init /\ [][Next]_vars

-----------------------------------------------------------------------------
(* Properties *)

Book == IF turn = "taken" THEN taken ELSE records
EntriesOf(c) == {i \in DOMAIN Book : Book[i].call = c}

\* The records stored with the answer account for what the engine was told: a
\* call it got a result, a refusal or a cancellation for has one entry, with
\* that verdict; any other settled call has none; and no call, be it dropped
\* halfway, has two or one that says something else (tool_bridge.rs:154-333,
\* main.rs:629).
RecordsAccountForCalls ==
    \A c \in Calls :
       /\ \A i, j \in EntriesOf(c) : i = j
       /\ \A i \in EntriesOf(c) : Book[i].verdict = verdict[c] /\ Book[i].id = id[c]
       /\ step[c] = "settled" => (EntriesOf(c) # {} <=> verdict[c] \in Recorded)

\* Two calls, in flight together or not, never share a tool_call_id: it is made
\* from a number that no other call has (tool_bridge.rs:136-142).
IdsAreUnique ==
    \A c, d \in Calls : c # d /\ id[c] # 0 => id[c] # id[d]

\* What the operator permits: the tools that some entry names, whatever spaces
\* are around it, and every tool if some entry is "*".
Permitted(name) == \E i \in DOMAIN allowlist : allowlist[i].text \in {"*", name}

\* The control plane is asked for no local tool and for none that the operator
\* does not permit, so for none at all where no allowlist, or an empty one, is
\* set; only such a tool is refused; and a result on record of a remote tool
\* was really executed (tool_bridge.rs:99-176).
OnlyPermittedToolsRun ==
    /\ \A c \in requested : tool[c] \notin LocalTools /\ Permitted(tool[c])
    /\ \A c \in Calls : verdict[c] = "not_permitted" =>
          tool[c] \notin LocalTools /\ ~Permitted(tool[c])
    /\ \A c \in Calls :
          tool[c] \notin LocalTools /\ verdict[c] \in {"output", "tool_error"} =>
             c \in executed

\* A reader of the events sees one tool_result after the tool_call of every
\* settled call, whichever way it went; a refusal has a tool_result alone, a
\* skill that is not there leaves its tool_call open (tool_bridge.rs:154-333).
EventsPairUp ==
    \A c \in Calls : step[c] = "settled" =>
       emitted[c] = CASE verdict[c] = "local" -> <<>>
                      [] verdict[c] = "not_permitted" -> <<"tool_result">>
                      [] verdict[c] = "unsupported" -> <<"tool_call">>
                      [] OTHER -> <<"tool_call", "tool_result">>

\* No record is made after the records were taken, where nobody would find it
\* (main.rs:600-629).
NothingRecordedLate == turn = "taken" => records = <<>>

\* Once the run is cancelled, no call that has not been at its select is ever
\* sent, whatever the engine still dispatches (tool_bridge.rs:242-276).
NothingSentAfterCancel ==
    \A c \in Calls :
       [](token /\ step[c] \in {"idle", "announcing"} => [](c \notin requested))

-----------------------------------------------------------------------------
(* The inductive invariant behind the safety properties *)

Pair == <<"tool_call", "tool_result">>

Cleared(name) == name \notin LocalTools /\ IsToolAllowed(name)

\* What is known of a call at each place of its future.
CallByStep ==
    \A c \in Calls :
       /\ step[c] = "idle" => tool[c] = NoName
       /\ step[c] \in {"idle", "memory"} => emitted[c] = <<>>
       /\ step[c] # "idle" => tool[c] \in Tools
       /\ step[c] = "announcing" =>
             tool[c] \in SkillTools \/ Cleared(tool[c])
       /\ step[c] \in {"selecting", "waiting"} => Cleared(tool[c])
       /\ step[c] \in {"announcing", "selecting", "waiting"} =>
             emitted[c] = <<"tool_call">>
       /\ step[c] \in {"idle", "memory", "announcing", "selecting", "waiting"} =>
             verdict[c] = "none"
       /\ step[c] = "refusing" =>
             verdict[c] = "not_permitted" /\ emitted[c] = <<"tool_result">>
       /\ step[c] \in {"cancelling", "failing", "reporting", "concluding"} =>
             emitted[c] = Pair
       /\ step[c] = "cancelling" => verdict[c] = "cancelled"
       /\ step[c] = "failing" => verdict[c] = "rpc_error"
       /\ step[c] \in {"reporting", "concluding"} =>
             verdict[c] \in {"output", "tool_error"}

\* Numbers already given out are below the next one.
Numbering ==
    \A c \in Calls :
       /\ id[c] < sequence
       /\ tool[c] = NoName => id[c] = 0
       /\ step[c] \in {"refusing", "announcing", "selecting", "waiting",
                       "cancelling", "reporting"} => id[c] # 0

RequestsByStep ==
    \A c \in requested : step[c] \notin {"idle", "announcing", "selecting"}

\* When a call has its entry.
EntriesByStep ==
    \A c \in Calls :
       /\ step[c] \notin {"concluding", "settled", "dropped"} => EntriesOf(c) = {}
       /\ step[c] = "concluding" => EntriesOf(c) # {}

TurnIsOver ==
    /\ turn # "running" => \A c \in Calls : step[c] \notin InFlight
    /\ turn # "taken" => taken = <<>>

IInv ==
    /\ TypeOK
    /\ CallByStep
    /\ Numbering
    /\ IdsAreUnique
    /\ RequestsByStep
    /\ OnlyPermittedToolsRun
    /\ EventsPairUp
    /\ TurnIsOver
    /\ NothingRecordedLate
    /\ EntriesByStep
    /\ RecordsAccountForCalls
=============================================================================
