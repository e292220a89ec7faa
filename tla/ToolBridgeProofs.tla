-------------------------- MODULE ToolBridgeProofs --------------------------
(***************************************************************************)
(* Theorems about ToolBridge, for any calls, tools and allowlists.         *)
(***************************************************************************)
EXTENDS ToolBridge, SequenceTheorems, TLAPS

USE DEF runVars

\* An entry is kept by resolve_tool_allowlist unless it is blank, and stands for
\* its text: what is_tool_allowed lets through is what the operator permits,
\* nothing if no entry is left.
LEMMA AllowedIsPermitted ==
    ASSUME NEW name \in Tools
    PROVE  IsToolAllowed(name) <=> Permitted(name)
<1>1. ASSUME NEW i \in DOMAIN allowlist, NEW text
      PROVE  Trim(allowlist[i]) = Plain(text) <=> allowlist[i].text = text
  BY DEF Trim, Plain
<1>2. name # NoName /\ "*" # NoName
  BY ToolsAssumption DEF NoName
<1>3. ASSUME NEW text, text # NoName
      PROVE  Plain(text) \in ToolAllowlist
                <=> \E i \in DOMAIN allowlist : allowlist[i].text = text
  <2>1. Plain(text) # Plain(NoName)
    BY <1>3 DEF Plain
  <2> QED
    BY <1>1, <2>1 DEF ToolAllowlist
<1> QED
  BY <1>2, <1>3 DEF IsToolAllowed, Permitted

\* The actions of a call, and the three of the turn, as one disjunction.
LEMMA Steps1 ==
    ASSUME Next
    PROVE  \/ Cancel \/ TurnEnds \/ TakeToolExecutions
           \/ \E c \in Calls :
                 \/ \E name \in Tools : DispatchMemory(c, name)
                 \/ \E name \in Tools : Refuse(c, name)
                 \/ \E name \in Tools : Announce(c, name)
                 \/ MemoryReturns(c) \/ FinishRefusal(c)
                 \/ RunSkill(c) \/ SkillUnsupported(c)
                 \/ Select(c) \/ Send(c) \/ Abort(c) \/ FinishAbort(c)
                 \/ FinishRpcFailure(c) \/ RecordResult(c) \/ Conclude(c)
                 \/ RemoteAnswers(c) \/ RpcFails(c) \/ RemoteExecutes(c)
BY DEF Next, CallStep

\* What a step of one call does to the functions keeps them typed.
LEMMA MovesTyped ==
    ASSUME NEW c \in Calls, NEW from, NEW to \in Steps,
           step \in [Calls -> Steps], Moves(c, from, to)
    PROVE  /\ step' \in [Calls -> Steps]
           /\ step[c] = from /\ step'[c] = to
           /\ \A d \in Calls \ {c} : step'[d] = step[d]
BY DEF Moves

\* The same of the verdicts.
LEMMA DecidesTyped ==
    ASSUME NEW c \in Calls, NEW outcome \in Verdicts,
           verdict \in [Calls -> Verdicts], Decides(c, outcome)
    PROVE  /\ verdict' \in [Calls -> Verdicts]
           /\ verdict'[c] = outcome
           /\ \A d \in Calls \ {c} : verdict'[d] = verdict[d]
BY DEF Decides

\* The same of the events.
LEMMA EmitsTyped ==
    ASSUME NEW c \in Calls, NEW event \in Events,
           emitted \in [Calls -> Seq(Events)], Emits(c, event)
    PROVE  /\ emitted' \in [Calls -> Seq(Events)]
           /\ emitted'[c] = Append(emitted[c], event)
           /\ \A d \in Calls \ {c} : emitted'[d] = emitted[d]
BY DEF Emits

\* The same of the numbers and names.
LEMMA NumberedTyped ==
    ASSUME NEW c \in Calls, NEW name \in Tools, sequence \in Nat,
           tool \in [Calls -> Tools \cup {NoName}], id \in [Calls -> Nat],
           Numbered(c, name)
    PROVE  /\ tool' \in [Calls -> Tools \cup {NoName}] /\ id' \in [Calls -> Nat]
           /\ tool'[c] = name /\ id'[c] = sequence
           /\ \A d \in Calls \ {c} : tool'[d] = tool[d] /\ id'[d] = id[d]
BY DEF Numbered

\* The events of a call, one after the other, are the pair.
LEMMA PairOfEvents ==
    Append(<<"tool_call">>, "tool_result") = <<"tool_call", "tool_result">>
<1> DEFINE s == <<"tool_call">>
           p == <<"tool_call", "tool_result">>
<1>1. s \in Seq(Events) /\ "tool_result" \in Events /\ p \in Seq(Events)
  BY DEF Events
<1>2. Len(s) = 1 /\ s[1] = "tool_call"
  OBVIOUS
<1>3. Len(p) = 2 /\ p[1] = "tool_call" /\ p[2] = "tool_result"
  OBVIOUS
<1> HIDE DEF s, p
<1>4. /\ Append(s, "tool_result") \in Seq(Events)
      /\ Len(Append(s, "tool_result")) = 2
      /\ Append(s, "tool_result")[1] = "tool_call"
      /\ Append(s, "tool_result")[2] = "tool_result"
  <2>1. /\ Append(s, "tool_result") \in Seq(Events)
        /\ Len(Append(s, "tool_result")) = Len(s) + 1
        /\ \A i \in 1..Len(s) : Append(s, "tool_result")[i] = s[i]
        /\ Append(s, "tool_result")[Len(s) + 1] = "tool_result"
    BY <1>1, AppendProperties
  <2>2. Len(s) + 1 = 2 /\ 1 \in 1..Len(s)
    BY <1>2
  <2> QED
    BY <1>2, <2>1, <2>2, Zenon
<1>5. Append(s, "tool_result") = p
  <2>1. \A i \in 1..2 : Append(s, "tool_result")[i] = p[i]
    BY <1>3, <1>4
  <2> QED
    BY <1>1, <1>3, <1>4, <2>1, SeqEqual
<1> QED
  BY <1>5 DEF s, p

\* Types.  CallByStep and Numbering are needed: only an id that was given out
\* and a verdict that can be recorded make a record.
LEMMA TypeInductive ==
    ASSUME TypeOK, CallByStep, Numbering, [Next]_vars
    PROVE  TypeOK'
<1> USE DEF TypeOK
<1>e. <<>> \in Seq(Records)
  OBVIOUS
<1>1. CASE Cancel
  BY <1>1 DEF Cancel, callVars
<1>2. CASE TurnEnds
  BY <1>2 DEF TurnEnds, Steps
<1>3. CASE TakeToolExecutions
  <2>1. records' \in Seq(Records) /\ taken' \in Seq(Records)
    BY <1>3, <1>e DEF TakeToolExecutions
  <2> QED
    BY <1>3, <2>1 DEF TakeToolExecutions, callVars
<1>4. CASE UNCHANGED vars
  BY <1>4 DEF vars, callVars
<1>5. ASSUME NEW c \in Calls,
             (\E name \in Tools : DispatchMemory(c, name)) \/ MemoryReturns(c)
      PROVE  TypeOK'
  <2>1. CASE MemoryReturns(c)
    BY <2>1 DEF MemoryReturns, Moves, Decides, Steps, Verdicts
  <2>2. ASSUME NEW name \in Tools, DispatchMemory(c, name)
        PROVE  TypeOK'
    <3>1. step' \in [Calls -> Steps] /\ tool' \in [Calls -> Tools \cup {NoName}]
      BY <2>2 DEF DispatchMemory, Moves, Steps
    <3> QED
      BY <2>2, <3>1 DEF DispatchMemory
  <2> QED
    BY <1>5, <2>1, <2>2
<1>6. ASSUME NEW c \in Calls, NEW name \in Tools, Refuse(c, name)
      PROVE  TypeOK'
  <2>1. Numbered(c, name)
    BY <1>6 DEF Refuse
  <2>2. tool' \in [Calls -> Tools \cup {NoName}] /\ id' \in [Calls -> Nat]
    BY <2>1, NumberedTyped
  <2>3. Moves(c, "idle", "refusing") /\ "refusing" \in Steps
    BY <1>6 DEF Refuse, Steps
  <2>4. step' \in [Calls -> Steps]
    BY <2>3, MovesTyped
  <2>5. emitted' \in [Calls -> Seq(Events)]
    BY <1>6, EmitsTyped DEF Refuse, Events
  <2>6. verdict' \in [Calls -> Verdicts]
    BY <1>6, DecidesTyped DEF Refuse, Verdicts
  <2>7. sequence' \in Nat \ {0}
    BY <1>6 DEF Refuse
  <2> QED
    BY <2>1, <2>2, <2>4, <2>5, <2>6, <2>7 DEF Numbered
<1>7. ASSUME NEW c \in Calls, NEW name \in Tools, Announce(c, name)
      PROVE  TypeOK'
  <2>1. Numbered(c, name) /\ UNCHANGED verdict
    BY <1>7 DEF Announce
  <2>2. tool' \in [Calls -> Tools \cup {NoName}] /\ id' \in [Calls -> Nat]
    BY <2>1, NumberedTyped
  <2>3. Moves(c, "idle", "announcing") /\ "announcing" \in Steps
    BY <1>7 DEF Announce, Steps
  <2>4. step' \in [Calls -> Steps]
    BY <2>3, MovesTyped
  <2>5. emitted' \in [Calls -> Seq(Events)]
    BY <1>7, EmitsTyped DEF Announce, Events
  <2>6. sequence' \in Nat \ {0}
    BY <1>7 DEF Announce
  <2> QED
    BY <2>1, <2>2, <2>4, <2>5, <2>6 DEF Numbered
<1>8. ASSUME NEW c \in Calls, SkillUnsupported(c) \/ Select(c) \/ Send(c) \/ Conclude(c)
      PROVE  TypeOK'
  BY <1>8 DEF SkillUnsupported, Select, Send, Conclude, Moves, Decides, Steps, Verdicts
<1>9. ASSUME NEW c \in Calls, RunSkill(c) \/ Abort(c) \/ RemoteAnswers(c) \/ RpcFails(c)
      PROVE  TypeOK'
  <2>1. /\ \E from \in Steps, to \in Steps : Moves(c, from, to)
        /\ \E outcome \in Verdicts : Decides(c, outcome)
        /\ Emits(c, "tool_result")
        /\ UNCHANGED <<runVars, tool, id, sequence, records, taken,
                       requested, executed>>
    BY <1>9 DEF RunSkill, Abort, RemoteAnswers, RpcFails, Steps, Verdicts
  <2>2. step' \in [Calls -> Steps] /\ verdict' \in [Calls -> Verdicts]
    BY <2>1, MovesTyped, DecidesTyped
  <2>3. emitted' \in [Calls -> Seq(Events)]
    BY <2>1, EmitsTyped DEF Events
  <2> QED
    BY <2>1, <2>2, <2>3
<1>10. ASSUME NEW c \in Calls, FinishRpcFailure(c) \/ RemoteExecutes(c)
      PROVE  TypeOK'
  BY <1>10 DEF FinishRpcFailure, RemoteExecutes, Moves, Steps, callVars
<1>11. ASSUME NEW c \in Calls, FinishRefusal(c) \/ FinishAbort(c) \/ RecordResult(c)
      PROVE  TypeOK'
  <2>1. id[c] \in Nat \ {0} /\ (RecordResult(c) => verdict[c] \in Recorded)
    BY <1>11 DEF FinishRefusal, FinishAbort, RecordResult, Moves, CallByStep,
       Numbering, Recorded
  <2>2. \E outcome \in Recorded : Record(c, outcome)
    BY <1>11, <2>1 DEF FinishRefusal, FinishAbort, RecordResult, Recorded
  <2>3. records' \in Seq(Records)
    BY <2>1, <2>2 DEF Record, Records
  <2> QED
    BY <1>11, <2>3 DEF FinishRefusal, FinishAbort, RecordResult, Moves, Steps
<1> QED
  BY <1>1, <1>2, <1>3, <1>4, <1>5, <1>6, <1>7, <1>8, <1>9, <1>10, <1>11, Steps1

\* Every step leads from what is known of a call at one place of its future to
\* what is known of it at the next.
LEMMA CallByStepInductive ==
    ASSUME TypeOK, CallByStep, [Next]_vars
    PROVE  CallByStep'
<1> USE DEF TypeOK
<1>0. ASSUME NEW name, UNCHANGED allowlist
      PROVE  Cleared(name)' <=> Cleared(name)
  BY <1>0 DEF Cleared, IsToolAllowed, ToolAllowlist
<1>1. CASE Cancel \/ TakeToolExecutions \/ UNCHANGED vars
  BY <1>0, <1>1 DEF Cancel, TakeToolExecutions, callVars, vars, CallByStep
<1>2. CASE TurnEnds
  BY <1>0, <1>2 DEF TurnEnds, InFlight, Steps, CallByStep
<1>3. ASSUME NEW c \in Calls,
             (\E name \in Tools : DispatchMemory(c, name)) \/ MemoryReturns(c)
      PROVE  CallByStep'
  BY <1>0, <1>3 DEF DispatchMemory, MemoryReturns, Moves, Decides, CallByStep
<1>4. ASSUME NEW c \in Calls, NEW name \in Tools, Announce(c, name)
      PROVE  CallByStep'
  <2>1. /\ step[c] = "idle" /\ step'[c] = "announcing"
        /\ tool'[c] = name /\ (name \in SkillTools \/ Cleared(name))
        /\ emitted'[c] = Append(emitted[c], "tool_call")
        /\ verdict' = verdict /\ allowlist' = allowlist
        /\ \A d \in Calls \ {c} : UNCHANGED <<step[d], tool[d], emitted[d]>>
    <3>1. /\ Numbered(c, name) /\ UNCHANGED verdict
          /\ Moves(c, "idle", "announcing") /\ "announcing" \in Steps
          /\ Emits(c, "tool_call") /\ "tool_call" \in Events
      BY <1>4 DEF Announce, Steps, Events
    <3>2. tool'[c] = name /\ \A d \in Calls \ {c} : tool'[d] = tool[d]
      BY <3>1, NumberedTyped
    <3>5. (name \in SkillTools \/ Cleared(name)) /\ allowlist' = allowlist
      BY <1>4 DEF Announce, Numbered, Cleared, LocalTools
    <3>3. /\ step[c] = "idle" /\ step'[c] = "announcing"
          /\ \A d \in Calls \ {c} : step'[d] = step[d]
      BY <3>1, MovesTyped
    <3>4. /\ emitted'[c] = Append(emitted[c], "tool_call")
          /\ \A d \in Calls \ {c} : emitted'[d] = emitted[d]
      BY <3>1, EmitsTyped
    <3> QED
      BY <3>1, <3>2, <3>3, <3>4, <3>5
  <2>2. emitted[c] = <<>> /\ verdict[c] = "none"
    BY <2>1 DEF CallByStep
  <2>3. emitted'[c] = <<"tool_call">>
    BY <2>1, <2>2
  <2> QED
    BY <1>0, <2>1, <2>2, <2>3 DEF CallByStep
<1>5. ASSUME NEW c \in Calls, NEW name \in Tools, Refuse(c, name)
      PROVE  CallByStep'
  <2>1. /\ step[c] = "idle" /\ step'[c] = "refusing"
        /\ emitted'[c] = Append(emitted[c], "tool_result")
        /\ verdict'[c] = "not_permitted"
        /\ tool'[c] = name /\ allowlist' = allowlist
        /\ \A d \in Calls \ {c} :
              UNCHANGED <<step[d], tool[d], emitted[d], verdict[d]>>
    <3>1. /\ Numbered(c, name) /\ allowlist' = allowlist
          /\ Moves(c, "idle", "refusing") /\ "refusing" \in Steps
          /\ Emits(c, "tool_result") /\ "tool_result" \in Events
          /\ Decides(c, "not_permitted") /\ "not_permitted" \in Verdicts
      BY <1>5 DEF Refuse, Numbered, Steps, Events, Verdicts
    <3>2. tool'[c] = name /\ \A d \in Calls \ {c} : tool'[d] = tool[d]
      BY <3>1, NumberedTyped
    <3>3. /\ step[c] = "idle" /\ step'[c] = "refusing"
          /\ \A d \in Calls \ {c} : step'[d] = step[d]
      BY <3>1, MovesTyped
    <3>4. /\ emitted'[c] = Append(emitted[c], "tool_result")
          /\ \A d \in Calls \ {c} : emitted'[d] = emitted[d]
      BY <3>1, EmitsTyped
    <3>5. /\ verdict'[c] = "not_permitted"
          /\ \A d \in Calls \ {c} : verdict'[d] = verdict[d]
      BY <3>1, DecidesTyped
    <3> QED
      BY <3>1, <3>2, <3>3, <3>4, <3>5
  <2>2. emitted[c] = <<>>
    BY <2>1 DEF CallByStep
  <2>3. emitted'[c] = <<"tool_result">>
    BY <2>1, <2>2
  <2> QED
    BY <1>0, <2>1, <2>3 DEF CallByStep
<1>6. ASSUME NEW c \in Calls, SkillUnsupported(c) \/ Select(c) \/ Send(c) \/ Conclude(c)
      PROVE  CallByStep'
  BY <1>0, <1>6 DEF SkillUnsupported, Select, Send, Conclude, Moves, Decides,
     CallByStep, Cleared, LocalTools
<1>7. ASSUME NEW c \in Calls, NEW to \in Steps, NEW outcome \in Verdicts,
             Moves(c, "announcing", to) \/ Moves(c, "waiting", to),
             \/ to = "reporting" /\ outcome \in {"output", "tool_error"}
             \/ to = "cancelling" /\ outcome = "cancelled"
             \/ to = "failing" /\ outcome = "rpc_error",
             Decides(c, outcome), Emits(c, "tool_result"),
             UNCHANGED <<tool, allowlist>>
      PROVE  CallByStep'
  <2>1. /\ step[c] \in {"announcing", "waiting"} /\ step'[c] = to
        /\ emitted'[c] = Append(emitted[c], "tool_result")
        /\ verdict'[c] = outcome
        /\ \A d \in Calls \ {c} : UNCHANGED <<step[d], emitted[d], verdict[d]>>
    <3>1. /\ step[c] \in {"announcing", "waiting"} /\ step'[c] = to
          /\ \A d \in Calls \ {c} : step'[d] = step[d]
      BY <1>7, MovesTyped
    <3>2. /\ emitted'[c] = Append(emitted[c], "tool_result")
          /\ \A d \in Calls \ {c} : emitted'[d] = emitted[d]
      BY <1>7, EmitsTyped DEF Events
    <3>3. /\ verdict'[c] = outcome
          /\ \A d \in Calls \ {c} : verdict'[d] = verdict[d]
      BY <1>7, DecidesTyped
    <3> QED
      BY <3>1, <3>2, <3>3
  <2>2. emitted[c] = <<"tool_call">>
    BY <2>1 DEF CallByStep
  <2>3. emitted'[c] = Append(<<"tool_call">>, "tool_result")
    BY <2>1, <2>2
  <2>4. emitted'[c] = Pair
    BY <2>3, PairOfEvents DEF Pair
  <2> QED
    BY <1>0, <1>7, <2>1, <2>4 DEF CallByStep
<1>8. ASSUME NEW c \in Calls, RunSkill(c) \/ Abort(c) \/ RemoteAnswers(c) \/ RpcFails(c)
      PROVE  CallByStep'
  <2>1. CASE RunSkill(c)
    BY <2>1, <1>7 DEF RunSkill, Steps, Verdicts
  <2>2. CASE Abort(c)
    BY <2>2, <1>7 DEF Abort, Steps, Verdicts
  <2>3. CASE RemoteAnswers(c)
    BY <2>3, <1>7 DEF RemoteAnswers, Steps, Verdicts
  <2>4. CASE RpcFails(c)
    BY <2>4, <1>7 DEF RpcFails, Steps, Verdicts
  <2> QED
    BY <1>8, <2>1, <2>2, <2>3, <2>4
<1>9. ASSUME NEW c \in Calls,
             FinishRpcFailure(c) \/ RemoteExecutes(c) \/ FinishRefusal(c)
               \/ FinishAbort(c) \/ RecordResult(c)
      PROVE  CallByStep'
  BY <1>0, <1>9 DEF FinishRpcFailure, RemoteExecutes, FinishRefusal, FinishAbort,
     RecordResult, Moves, callVars, CallByStep
<1> QED
  BY <1>1, <1>2, <1>3, <1>4, <1>5, <1>6, <1>8, <1>9, Steps1

\* The next number is above all that were given out, hence new.
LEMMA NumberingInductive ==
    ASSUME TypeOK, Numbering, IdsAreUnique, CallByStep, [Next]_vars
    PROVE  Numbering' /\ IdsAreUnique'
<1> USE DEF TypeOK, Numbering, IdsAreUnique
<1>1. CASE Cancel \/ TakeToolExecutions \/ UNCHANGED vars
  BY <1>1 DEF Cancel, TakeToolExecutions, callVars, vars
<1>2. CASE TurnEnds
  BY <1>2 DEF TurnEnds, InFlight, Steps
<1>3. ASSUME NEW c \in Calls,
             (\E name \in Tools : DispatchMemory(c, name)) \/ MemoryReturns(c)
      PROVE  Numbering' /\ IdsAreUnique'
  <2>1. CASE MemoryReturns(c)
    BY <2>1 DEF MemoryReturns, Moves
  <2>2. ASSUME NEW name \in Tools, DispatchMemory(c, name)
        PROVE  Numbering' /\ IdsAreUnique'
    <3>1. /\ step' = [step EXCEPT ![c] = "memory"]
          /\ tool' = [tool EXCEPT ![c] = name]
          /\ UNCHANGED <<id, sequence>>
      BY <2>2 DEF DispatchMemory, Moves
    <3>2. name # NoName
      BY ToolsAssumption
    <3> QED
      BY <3>1, <3>2
  <2> QED
    BY <1>3, <2>1, <2>2
<1>4. ASSUME NEW c \in Calls, NEW name \in Tools,
             Numbered(c, name), sequence' = sequence + 1,
             Moves(c, "idle", "announcing") \/ Moves(c, "idle", "refusing")
      PROVE  Numbering' /\ IdsAreUnique'
  BY <1>4, ToolsAssumption DEF Numbered, Moves
<1>5. ASSUME NEW c \in Calls, NEW name \in Tools,
             Refuse(c, name) \/ Announce(c, name)
      PROVE  Numbering' /\ IdsAreUnique'
  BY <1>4, <1>5 DEF Refuse, Announce
<1>6. ASSUME NEW c \in Calls,
             RunSkill(c) \/ SkillUnsupported(c) \/ Select(c) \/ Send(c) \/ Conclude(c)
      PROVE  Numbering' /\ IdsAreUnique'
  BY <1>6 DEF RunSkill, SkillUnsupported, Select, Send, Conclude, Moves
<1>7. ASSUME NEW c \in Calls, Abort(c) \/ RemoteAnswers(c) \/ RpcFails(c)
      PROVE  Numbering' /\ IdsAreUnique'
  BY <1>7 DEF Abort, RemoteAnswers, RpcFails, Moves
<1>8. ASSUME NEW c \in Calls,
             FinishRpcFailure(c) \/ RemoteExecutes(c) \/ FinishRefusal(c)
               \/ FinishAbort(c) \/ RecordResult(c)
      PROVE  Numbering' /\ IdsAreUnique'
  BY <1>8 DEF FinishRpcFailure, RemoteExecutes, FinishRefusal, FinishAbort,
     RecordResult, Moves, callVars
<1> QED
  BY <1>1, <1>2, <1>3, <1>5, <1>6, <1>7, <1>8, Steps1

\* Requests are those of calls past their select, which the allowlist has let
\* through; refusals are of calls that it has not; results are of executed ones.
LEMMA RequestsInductive ==
    ASSUME TypeOK, CallByStep, RequestsByStep, OnlyPermittedToolsRun, [Next]_vars
    PROVE  RequestsByStep' /\ OnlyPermittedToolsRun'
<1> USE DEF TypeOK, RequestsByStep, OnlyPermittedToolsRun
<1>0. ASSUME NEW name, UNCHANGED allowlist
      PROVE  Permitted(name)' <=> Permitted(name)
  BY <1>0 DEF Permitted
<1>1. CASE Cancel \/ TakeToolExecutions \/ UNCHANGED vars
  BY <1>0, <1>1 DEF Cancel, TakeToolExecutions, callVars, vars
<1>2. CASE TurnEnds
  BY <1>0, <1>2 DEF TurnEnds, InFlight, Steps
<1>3. ASSUME NEW c \in Calls, NEW name \in Tools, Refuse(c, name)
      PROVE  RequestsByStep' /\ OnlyPermittedToolsRun'
  <2>1. /\ step[c] = "idle" /\ step'[c] = "refusing"
        /\ tool'[c] = name /\ verdict'[c] = "not_permitted"
        /\ UNCHANGED <<allowlist, requested, executed>>
        /\ \A d \in Calls \ {c} : UNCHANGED <<step[d], tool[d], verdict[d]>>
    BY <1>3 DEF Refuse, Numbered, Moves, Decides
  <2>2. name \notin LocalTools /\ ~Permitted(name)
    BY <1>3, AllowedIsPermitted DEF Refuse, Numbered, LocalTools
  <2> QED
    BY <1>0, <2>1, <2>2
<1>4. ASSUME NEW c \in Calls, NEW name \in Tools,
             Announce(c, name) \/ DispatchMemory(c, name)
      PROVE  RequestsByStep' /\ OnlyPermittedToolsRun'
  <2>1. /\ step[c] = "idle" /\ step'[c] \in {"announcing", "memory"}
        /\ UNCHANGED <<allowlist, verdict, requested, executed>>
        /\ \A d \in Calls \ {c} : UNCHANGED <<step[d], tool[d]>>
    BY <1>4 DEF Announce, DispatchMemory, Numbered, Moves
  <2>2. verdict[c] = "none"
    BY <2>1 DEF CallByStep
  <2> QED
    BY <1>0, <2>1, <2>2
<1>5. ASSUME NEW c \in Calls, Send(c)
      PROVE  RequestsByStep' /\ OnlyPermittedToolsRun'
  <2>1. /\ tool[c] \notin LocalTools /\ Permitted(tool[c])
        /\ step'[c] = "waiting"
        /\ requested' = requested \cup {c}
        /\ UNCHANGED <<allowlist, tool, verdict, executed>>
        /\ \A d \in Calls \ {c} : UNCHANGED step[d]
    BY <1>5, AllowedIsPermitted DEF Send, Moves, CallByStep, Cleared
  <2> QED
    BY <1>0, <2>1
<1>6. ASSUME NEW c \in Calls,
             MemoryReturns(c) \/ RunSkill(c) \/ SkillUnsupported(c) \/ Select(c)
               \/ Conclude(c)
      PROVE  RequestsByStep' /\ OnlyPermittedToolsRun'
  BY <1>0, <1>6 DEF MemoryReturns, RunSkill, SkillUnsupported, Select, Conclude,
     Moves, Decides, CallByStep, LocalTools
<1>7. ASSUME NEW c \in Calls, Abort(c) \/ RemoteAnswers(c) \/ RpcFails(c)
      PROVE  RequestsByStep' /\ OnlyPermittedToolsRun'
  BY <1>0, <1>7 DEF Abort, RemoteAnswers, RpcFails, Moves, Decides
<1>8. ASSUME NEW c \in Calls,
             FinishRpcFailure(c) \/ RemoteExecutes(c) \/ FinishRefusal(c)
               \/ FinishAbort(c) \/ RecordResult(c)
      PROVE  RequestsByStep' /\ OnlyPermittedToolsRun'
  BY <1>0, <1>8 DEF FinishRpcFailure, RemoteExecutes, FinishRefusal, FinishAbort,
     RecordResult, Moves, callVars
<1> QED
  BY <1>1, <1>2, <1>3, <1>4, <1>5, <1>6, <1>7, <1>8, Steps1

\* A call settles with the events that its verdict calls for.
LEMMA EventsPairUpInductive ==
    ASSUME TypeOK, CallByStep, EventsPairUp, [Next]_vars
    PROVE  EventsPairUp'
<1> USE DEF TypeOK, EventsPairUp
<1>1. CASE Cancel \/ TakeToolExecutions \/ UNCHANGED vars
  BY <1>1 DEF Cancel, TakeToolExecutions, callVars, vars
<1>2. CASE TurnEnds
  BY <1>2 DEF TurnEnds, InFlight, Steps
<1>3. ASSUME NEW c \in Calls, NEW name \in Tools,
             DispatchMemory(c, name) \/ Refuse(c, name) \/ Announce(c, name)
      PROVE  EventsPairUp'
  BY <1>3 DEF DispatchMemory, Refuse, Announce, Numbered, Moves, Emits, Decides
<1>4. ASSUME NEW c \in Calls, MemoryReturns(c) \/ SkillUnsupported(c)
      PROVE  EventsPairUp'
  <2>1. CASE MemoryReturns(c)
    <3>1. step[c] = "memory" /\ emitted'[c] = <<>> /\ verdict'[c] = "local"
      BY <2>1 DEF MemoryReturns, Moves, Decides, CallByStep
    <3>2. \A d \in Calls \ {c} : UNCHANGED <<step[d], emitted[d], verdict[d]>>
      BY <2>1 DEF MemoryReturns, Moves, Decides
    <3> QED
      BY <3>1, <3>2
  <2>2. CASE SkillUnsupported(c)
    <3>1. /\ step[c] = "announcing" /\ emitted'[c] = <<"tool_call">>
          /\ verdict'[c] = "unsupported"
      BY <2>2 DEF SkillUnsupported, Moves, Decides, CallByStep
    <3>2. \A d \in Calls \ {c} : UNCHANGED <<step[d], emitted[d], verdict[d]>>
      BY <2>2 DEF SkillUnsupported, Moves, Decides
    <3> QED
      BY <3>1, <3>2
  <2> QED
    BY <1>4, <2>1, <2>2
<1>5. ASSUME NEW c \in Calls,
             RunSkill(c) \/ Select(c) \/ Send(c) \/ Abort(c) \/ RemoteAnswers(c)
               \/ RpcFails(c) \/ RecordResult(c) \/ RemoteExecutes(c)
      PROVE  EventsPairUp'
  BY <1>5 DEF RunSkill, Select, Send, Abort, RemoteAnswers, RpcFails,
     RecordResult, RemoteExecutes, Moves, Emits, Decides, callVars
<1>6. ASSUME NEW c \in Calls,
             FinishRefusal(c) \/ FinishAbort(c) \/ FinishRpcFailure(c) \/ Conclude(c)
      PROVE  EventsPairUp'
  BY <1>6 DEF FinishRefusal, FinishAbort, FinishRpcFailure, Conclude, Moves,
     CallByStep, Pair
<1> QED
  BY <1>1, <1>2, <1>3, <1>4, <1>5, <1>6, Steps1

\* After the turn nothing is in flight, so nothing is recorded any more.
LEMMA TurnInductive ==
    ASSUME TypeOK, TurnIsOver, NothingRecordedLate, [Next]_vars
    PROVE  TurnIsOver' /\ NothingRecordedLate'
<1> USE DEF TypeOK, TurnIsOver, NothingRecordedLate, InFlight
<1>1. CASE Cancel \/ TakeToolExecutions \/ UNCHANGED vars
  BY <1>1 DEF Cancel, TakeToolExecutions, callVars, vars
<1>2. CASE TurnEnds
  BY <1>2 DEF TurnEnds
<1>3. ASSUME NEW c \in Calls, NEW name \in Tools,
             DispatchMemory(c, name) \/ Refuse(c, name) \/ Announce(c, name)
      PROVE  TurnIsOver' /\ NothingRecordedLate'
  BY <1>3 DEF DispatchMemory, Refuse, Announce, Numbered
<1>4. ASSUME NEW c \in Calls,
             MemoryReturns(c) \/ SkillUnsupported(c) \/ RunSkill(c) \/ Select(c)
               \/ Send(c) \/ Conclude(c)
      PROVE  TurnIsOver' /\ NothingRecordedLate'
  BY <1>4 DEF MemoryReturns, SkillUnsupported, RunSkill, Select, Send, Conclude,
     Moves, Steps
<1>5. ASSUME NEW c \in Calls,
             Abort(c) \/ RemoteAnswers(c) \/ RpcFails(c) \/ RemoteExecutes(c)
               \/ FinishRpcFailure(c)
      PROVE  TurnIsOver' /\ NothingRecordedLate'
  BY <1>5 DEF Abort, RemoteAnswers, RpcFails, RemoteExecutes, FinishRpcFailure,
     Moves, Steps, callVars
<1>6. ASSUME NEW c \in Calls, FinishRefusal(c) \/ FinishAbort(c) \/ RecordResult(c)
      PROVE  TurnIsOver' /\ NothingRecordedLate'
  BY <1>6 DEF FinishRefusal, FinishAbort, RecordResult, Moves, Steps
<1> QED
  BY <1>1, <1>2, <1>3, <1>4, <1>5, <1>6, Steps1

-----------------------------------------------------------------------------
(* The records *)

\* A step that leaves the records alone, and what the entries say of calls
\* that have one, keeps the account.
LEMMA EntriesUntouched ==
    ASSUME EntriesByStep, RecordsAccountForCalls,
           UNCHANGED Book,
           \A c \in Calls : EntriesOf(c) # {} =>
              UNCHANGED <<verdict[c], id[c]>>,
           \A c \in Calls :
              \/ UNCHANGED step[c]
              \/ step'[c] = "dropped"
              \/ step'[c] \notin {"concluding", "settled"} /\ EntriesOf(c) = {}
              \/ /\ step'[c] = "settled"
                 /\ EntriesOf(c) # {} <=> verdict'[c] \in Recorded,
           \A c \in Calls : step[c] = "settled" => UNCHANGED verdict[c]
    PROVE  EntriesByStep' /\ RecordsAccountForCalls'
<1>1. \A c \in Calls : EntriesOf(c)' = EntriesOf(c)
  BY DEF EntriesOf
<1>2. EntriesByStep'
  BY <1>1 DEF EntriesByStep
<1>3. RecordsAccountForCalls'
  <2> SUFFICES ASSUME NEW c \in Calls
      PROVE  /\ \A i, j \in EntriesOf(c) : i = j
             /\ \A i \in EntriesOf(c) :
                   Book[i].verdict = verdict'[c] /\ Book[i].id = id'[c]
             /\ step'[c] = "settled" =>
                   (EntriesOf(c) # {} <=> verdict'[c] \in Recorded)
    BY <1>1 DEF RecordsAccountForCalls
  <2> QED
    BY DEF RecordsAccountForCalls
<1> QED
  BY <1>2, <1>3

\* A step that adds the one entry of a call that had none keeps it too.
LEMMA EntryAdded ==
    ASSUME TypeOK, EntriesByStep, RecordsAccountForCalls, turn # "taken",
           NEW c \in Calls, NEW outcome \in Recorded,
           id[c] # 0, EntriesOf(c) = {},
           Record(c, outcome), verdict[c] = outcome,
           UNCHANGED <<turn, verdict, id>>,
           step' = [step EXCEPT ![c] = "settled"]
              \/ step' = [step EXCEPT ![c] = "concluding"]
    PROVE  EntriesByStep' /\ RecordsAccountForCalls'
<1> DEFINE entry == [id |-> id[c], call |-> c, verdict |-> outcome]
           n == Len(records) + 1
<1>1. /\ Book = records /\ Book' = records'
      /\ records \in Seq(Records) /\ entry \in Records
      /\ records' = Append(records, entry)
  BY DEF Book, Record, TypeOK, Records
<1>2. /\ DOMAIN records = 1..Len(records) /\ Len(records) \in Nat
      /\ DOMAIN records' = 1..n
      /\ \A i \in 1..Len(records) : records'[i] = records[i]
      /\ records'[n] = entry
  BY <1>1
<1>3. /\ EntriesOf(c)' = {n}
      /\ \A d \in Calls \ {c} : EntriesOf(d)' = EntriesOf(d)
  BY <1>1, <1>2 DEF EntriesOf
<1>4. \A d \in Calls \ {c} : \A i \in EntriesOf(d) : Book'[i] = Book[i]
  BY <1>1, <1>2 DEF EntriesOf
<1>5. Book'[n].verdict = verdict'[c] /\ Book'[n].id = id'[c]
  BY <1>1, <1>2
<1>6. EntriesByStep'
  BY <1>3 DEF EntriesByStep, TypeOK
<1>7. RecordsAccountForCalls'
  <2> SUFFICES ASSUME NEW d \in Calls
      PROVE  /\ \A i, j \in EntriesOf(d)' : i = j
             /\ \A i \in EntriesOf(d)' :
                   Book'[i].verdict = verdict'[d] /\ Book'[i].id = id'[d]
             /\ step'[d] = "settled" =>
                   (EntriesOf(d)' # {} <=> verdict'[d] \in Recorded)
    BY DEF RecordsAccountForCalls
  <2>1. CASE d = c
    BY <1>3, <1>5, <2>1
  <2>2. CASE d # c
    <3>1. EntriesOf(d)' = EntriesOf(d) /\ \A i \in EntriesOf(d) : Book'[i] = Book[i]
      BY <1>3, <1>4, <2>2
    <3>2. step'[d] = step[d] /\ verdict'[d] = verdict[d] /\ id'[d] = id[d]
      BY <2>2 DEF TypeOK
    <3>3. /\ \A i, j \in EntriesOf(d) : i = j
          /\ \A i \in EntriesOf(d) :
                Book[i].verdict = verdict[d] /\ Book[i].id = id[d]
          /\ step[d] = "settled" =>
                (EntriesOf(d) # {} <=> verdict[d] \in Recorded)
      BY DEF RecordsAccountForCalls
    <3> QED
      BY <3>1, <3>2, <3>3
  <2> QED
    BY <2>1, <2>2
<1> QED
  BY <1>6, <1>7

\* Every step keeps the account of the entries.
LEMMA EntriesInductive ==
    ASSUME IInv, [Next]_vars
    PROVE  EntriesByStep' /\ RecordsAccountForCalls'
<1> USE DEF IInv
<1>1. CASE Cancel \/ UNCHANGED vars
  <2>1. UNCHANGED <<turn, step, verdict, id, records, taken>>
    BY <1>1 DEF Cancel, callVars, vars
  <2> QED
    BY <2>1, EntriesUntouched DEF Book
<1>2. CASE TakeToolExecutions
  BY <1>2, EntriesUntouched DEF TakeToolExecutions, callVars, Book
<1>3. CASE TurnEnds
  <2>1. \A c \in Calls : step'[c] = step[c] \/ step'[c] = "dropped"
    BY <1>3 DEF TurnEnds, TypeOK
  <2>2. UNCHANGED <<Book, verdict, id>>
    BY <1>3 DEF TurnEnds, Book
  <2> QED
    BY <2>1, <2>2, EntriesUntouched
<1>4. ASSUME NEW c \in Calls, NEW name \in Tools,
             DispatchMemory(c, name) \/ Refuse(c, name) \/ Announce(c, name)
      PROVE  EntriesByStep' /\ RecordsAccountForCalls'
  <2>1. /\ UNCHANGED <<turn, records, taken>>
        /\ step[c] = "idle" /\ step'[c] \in {"memory", "refusing", "announcing"}
        /\ \A d \in Calls \ {c} : UNCHANGED <<step[d], verdict[d], id[d]>>
    BY <1>4 DEF DispatchMemory, Refuse, Announce, Numbered, Moves, Decides, TypeOK
  <2>2. EntriesOf(c) = {}
    BY <2>1 DEF EntriesByStep
  <2>3. UNCHANGED Book
    BY <2>1 DEF Book
  <2> QED
    BY <2>1, <2>2, <2>3, EntriesUntouched
<1>5. ASSUME NEW c \in Calls,
             RunSkill(c) \/ Select(c) \/ Send(c) \/ Abort(c) \/ RemoteAnswers(c)
               \/ RpcFails(c)
      PROVE  EntriesByStep' /\ RecordsAccountForCalls'
  <2>1. /\ UNCHANGED <<turn, records, taken, id>>
        /\ step[c] \in {"announcing", "selecting", "waiting"}
        /\ step'[c] \in {"selecting", "waiting", "cancelling", "reporting", "failing"}
        /\ \A d \in Calls \ {c} : UNCHANGED <<step[d], verdict[d]>>
    BY <1>5 DEF RunSkill, Select, Send, Abort, RemoteAnswers, RpcFails, Moves,
       Decides, TypeOK
  <2>2. EntriesOf(c) = {}
    BY <2>1 DEF EntriesByStep
  <2>3. UNCHANGED Book
    BY <2>1 DEF Book
  <2> QED
    BY <2>1, <2>2, <2>3, EntriesUntouched
<1>6. ASSUME NEW c \in Calls,
             MemoryReturns(c) \/ SkillUnsupported(c) \/ FinishRpcFailure(c)
      PROVE  EntriesByStep' /\ RecordsAccountForCalls'
  <2>1. /\ UNCHANGED <<turn, records, taken, id>>
        /\ step[c] \in {"memory", "announcing", "failing"}
        /\ step'[c] = "settled" /\ verdict'[c] \notin Recorded
        /\ \A d \in Calls \ {c} : UNCHANGED <<step[d], verdict[d]>>
    BY <1>6 DEF MemoryReturns, SkillUnsupported, FinishRpcFailure, Moves,
       Decides, TypeOK, CallByStep, Recorded
  <2>2. EntriesOf(c) = {}
    BY <2>1 DEF EntriesByStep
  <2>3. UNCHANGED Book
    BY <2>1 DEF Book
  <2> QED
    BY <2>1, <2>2, <2>3, EntriesUntouched
<1>7. ASSUME NEW c \in Calls, Conclude(c)
      PROVE  EntriesByStep' /\ RecordsAccountForCalls'
  <2>1. /\ UNCHANGED <<turn, records, taken, id, verdict>>
        /\ step[c] = "concluding" /\ step'[c] = "settled"
        /\ \A d \in Calls \ {c} : UNCHANGED step[d]
    BY <1>7 DEF Conclude, Moves, TypeOK
  <2>2. EntriesOf(c) # {} /\ verdict[c] \in Recorded
    BY <2>1 DEF EntriesByStep, CallByStep, Recorded
  <2>3. UNCHANGED Book
    BY <2>1 DEF Book
  <2> QED
    BY <2>1, <2>2, <2>3, EntriesUntouched
<1>8. ASSUME NEW c \in Calls, RemoteExecutes(c)
      PROVE  EntriesByStep' /\ RecordsAccountForCalls'
  <2>1. UNCHANGED <<turn, step, verdict, id, records, taken>>
    BY <1>8 DEF RemoteExecutes, callVars
  <2> QED
    BY <2>1, EntriesUntouched DEF Book
<1>9. ASSUME NEW c \in Calls, FinishRefusal(c) \/ FinishAbort(c) \/ RecordResult(c)
      PROVE  EntriesByStep' /\ RecordsAccountForCalls'
  <2>1. /\ step[c] \in {"refusing", "cancelling", "reporting"}
        /\ UNCHANGED <<turn, verdict, id>>
        /\ \/ step' = [step EXCEPT ![c] = "settled"]
           \/ step' = [step EXCEPT ![c] = "concluding"]
        /\ Record(c, verdict[c]) /\ verdict[c] \in Recorded
    BY <1>9 DEF FinishRefusal, FinishAbort, RecordResult, Moves, CallByStep, Recorded
  <2>2. id[c] # 0 /\ EntriesOf(c) = {}
    BY <2>1 DEF Numbering, EntriesByStep
  <2>3. turn # "taken"
    BY <2>1 DEF TurnIsOver, InFlight, Steps
  <2> QED
    BY <2>1, <2>2, <2>3, EntryAdded
<1> QED
  BY <1>1, <1>2, <1>3, <1>4, <1>5, <1>6, <1>7, <1>8, <1>9, Steps1

-----------------------------------------------------------------------------
\* The executor as it is made.
LEMMA InitIInv ==
    ASSUME Init PROVE IInv
<1>1. TypeOK
  <2>1. <<>> \in Seq(Events) /\ <<>> \in Seq(Records)
    OBVIOUS
  <2>2. emitted \in [Calls -> Seq(Events)]
    BY <2>1 DEF Init
  <2>3. records \in Seq(Records) /\ taken \in Seq(Records)
    BY <2>1 DEF Init
  <2>4. /\ allowlist \in Allowlists
        /\ turn \in {"running", "over", "taken"} /\ token \in BOOLEAN
        /\ requested \subseteq Calls /\ executed \subseteq requested
    BY Zenon DEF Init
  <2>6. id \in [Calls -> Nat] /\ sequence \in Nat \ {0}
    BY DEF Init
  <2>5. /\ tool \in [Calls -> Tools \cup {NoName}] /\ step \in [Calls -> Steps]
        /\ verdict \in [Calls -> Verdicts]
    BY DEF Init, Steps, Verdicts
  <2> QED
    BY <2>2, <2>3, <2>4, <2>5, <2>6 DEF TypeOK
<1>2. CallByStep
  BY DEF Init, CallByStep
<1>3. Numbering /\ IdsAreUnique
  BY DEF Init, Numbering, IdsAreUnique
<1>4. /\ RequestsByStep /\ OnlyPermittedToolsRun /\ EventsPairUp
      /\ TurnIsOver /\ NothingRecordedLate
  BY DEF Init, RequestsByStep, OnlyPermittedToolsRun, EventsPairUp, TurnIsOver,
     NothingRecordedLate, InFlight
<1>5. Book = <<>> /\ \A c \in Calls : EntriesOf(c) = {}
  BY DEF Init, Book, EntriesOf
<1>6. EntriesByStep /\ RecordsAccountForCalls
  BY <1>5 DEF Init, EntriesByStep, RecordsAccountForCalls
<1> QED
  BY <1>1, <1>2, <1>3, <1>4, <1>6 DEF IInv

\* Everything below rests on this: IInv holds whatever calls interleave.
THEOREM InductiveInvariant == Spec => []IInv
<1>1. IInv /\ [Next]_vars => IInv'
  BY TypeInductive, CallByStepInductive, NumberingInductive, RequestsInductive,
     EventsPairUpInductive, TurnInductive, EntriesInductive DEF IInv
<1> QED
  BY InitIInv, <1>1, PTL DEF Spec

\* The state is well-typed (the executor's fields, tool_bridge.rs:32-69).
THEOREM TypeCorrect == Spec => []TypeOK
BY InductiveInvariant, PTL DEF IInv

\* The records stored with the answer account for the turn's calls, exactly
\* (tool_bridge.rs:154-333, main.rs:629).
THEOREM CompleteAccount == Spec => []RecordsAccountForCalls
BY InductiveInvariant, PTL DEF IInv

\* No two calls share a number (tool_bridge.rs:136-142).
THEOREM UniqueIds == Spec => []IdsAreUnique
BY InductiveInvariant, PTL DEF IInv

\* The remote tools that are asked for are those the operator permits, whatever
\* the entries of the allowlist are, the refused ones those he does not, and the
\* results are real (tool_bridge.rs:99-176).
THEOREM PermittedToolsOnly == Spec => []OnlyPermittedToolsRun
BY InductiveInvariant, PTL DEF IInv

\* The events of a settled call pair up (tool_bridge.rs:154-333).
THEOREM PairedEvents == Spec => []EventsPairUp
BY InductiveInvariant, PTL DEF IInv

\* No record is lost behind take_tool_executions (main.rs:600-629).
THEOREM NoLateRecord == Spec => []NothingRecordedLate
BY InductiveInvariant, PTL DEF IInv

\* After the cancellation, a call that has not been at its select is never sent
\* (tool_bridge.rs:242-276).
THEOREM NoSendAfterCancel == Spec => NothingSentAfterCancel
<1> DEFINE Barred(c) == token /\ c \notin requested /\ step[c] # "selecting"
<1> SUFFICES ASSUME NEW c \in Calls
    PROVE  Spec => [](token /\ step[c] \in {"idle", "announcing"}
                         => [](c \notin requested))
  BY DEF NothingSentAfterCancel
<1>1. IInv /\ token /\ step[c] \in {"idle", "announcing"} => Barred(c)
  BY DEF IInv, RequestsByStep
<1>2. IInv /\ Barred(c) /\ [Next]_vars => Barred(c)'
  <2> SUFFICES ASSUME IInv, Barred(c), [Next]_vars PROVE Barred(c)'
    OBVIOUS
  <2> USE DEF IInv, TypeOK
  <2>1. CASE Cancel \/ TakeToolExecutions \/ TurnEnds \/ UNCHANGED vars
    BY <2>1 DEF Cancel, TakeToolExecutions, TurnEnds, callVars, vars
  <2>2. ASSUME NEW d \in Calls, NEW name \in Tools,
               DispatchMemory(d, name) \/ Refuse(d, name) \/ Announce(d, name)
        PROVE  Barred(c)'
    BY <2>2 DEF DispatchMemory, Refuse, Announce, Numbered, Moves
  <2>3. ASSUME NEW d \in Calls,
               MemoryReturns(d) \/ SkillUnsupported(d) \/ RunSkill(d) \/ Select(d)
                 \/ Send(d) \/ Conclude(d) \/ FinishRefusal(d) \/ FinishAbort(d)
        PROVE  Barred(c)'
    BY <2>3 DEF MemoryReturns, SkillUnsupported, RunSkill, Select, Send, Conclude,
       FinishRefusal, FinishAbort, Moves
  <2>4. ASSUME NEW d \in Calls,
               Abort(d) \/ RemoteAnswers(d) \/ RpcFails(d) \/ RemoteExecutes(d)
                 \/ FinishRpcFailure(d) \/ RecordResult(d)
        PROVE  Barred(c)'
    BY <2>4 DEF Abort, RemoteAnswers, RpcFails, RemoteExecutes, FinishRpcFailure,
       RecordResult, Moves, callVars
  <2> QED
    BY <2>1, <2>2, <2>3, <2>4, Steps1
<1>3. Barred(c) => c \notin requested
  OBVIOUS
<1> QED
  BY <1>1, <1>2, <1>3, InductiveInvariant, PTL DEF Spec
=============================================================================
