------------------------- MODULE ModelRunnerProofs -------------------------
(***************************************************************************)
(* Theorems about ModelRunner, for any number of calls and of keys.  That  *)
(* Sanitize lists every key once is an induction over its argument         *)
(* (FoldFacts).                                                            *)
(***************************************************************************)
EXTENDS ModelRunner, TLAPS

Keeping == INSTANCE FoldFacts WITH Op <- KeepKey

ListedKeys == {Head(keys)} \cup {keys[i] : i \in Nat}
Tries == [key : ListedKeys, reply : Replies]

\* What is known of a call at each of its places.
CallFits ==
    /\ smoke \in BOOLEAN
    /\ attempts \in Seq(Tries)
    /\ call = "waiting" => Len(attempts) > 0 /\ result = Nothing

UsageFits ==
    /\ usage \in Nat /\ delivered \in Nat /\ billed \in Nat
    /\ UsageIsOfOutputs

IInv == CallFits /\ UsageFits /\ ServedCallsStand

KeysListedOnce ==
    /\ keys \in Seq(Keys)
    /\ \A i, j \in 1..Len(keys) : keys[i] = keys[j] => i = j

\* The n-th attempt is that with the n-th key, and a call that ended with a
\* failure of authentication has made one for each.
TriesFollowKeys ==
    /\ KeysListedOnce
    /\ Len(attempts) <= Len(keys)
    /\ \A i \in 1..Len(attempts) : attempts[i].key = keys[i]
    /\ \A i \in 1..(Len(attempts) - 1) : IsAuthFailure(attempts[i].reply.text)
    /\ IsAuthFailure(result.text) => Len(attempts) = Len(keys)

-----------------------------------------------------------------------------
(* What Sanitize returns *)

ListedOnce(list) ==
    /\ list \in Seq(Keys)
    /\ \A i, j \in 1..Len(list) : list[i] = list[j] => i = j

LEMMA SanitizeFolds == ASSUME NEW values PROVE Sanitize(values) = Keeping!Fold(<<>>, values)
BY Zenon DEF Sanitize, Keeping!Fold, FoldLeft, Keeping!FoldLeft, MapThenFoldSet,
             Keeping!MapThenFoldSet, Max, Keeping!Max

LEMMA SanitizeEmpty == Sanitize(<<>>) = <<>>
BY SanitizeFolds, Keeping!FoldEmpty

LEMMA SanitizeAppend ==
    ASSUME NEW values \in Seq(Keys \cup {NoKey}), NEW k \in Keys \cup {NoKey}
    PROVE  Sanitize(Append(values, k)) = KeepKey(Sanitize(values), k)
BY SanitizeFolds, Keeping!FoldAppend

LEMMA KeepKeyListsOnce ==
    ASSUME NEW list, ListedOnce(list), NEW k \in Keys \cup {NoKey}
    PROVE  ListedOnce(KeepKey(list, k))
<1>1. CASE k = NoKey \/ k \in ToSet(list)
  BY <1>1 DEF KeepKey
<1>2. CASE k \in Keys /\ k \notin ToSet(list)
  <2>1. k # NoKey
    BY <1>2, NoKeyAssumption
  <2>2. KeepKey(list, k) = Append(list, k)
    BY <1>2, <2>1 DEF KeepKey
  <2>3. \A i \in 1..Len(list) : list[i] # k
    BY <1>2 DEF ToSet, ListedOnce
  <2> QED BY <2>2, <2>3, <1>2 DEF ListedOnce
<1> QED BY <1>1, <1>2

\* Whatever values the environment and the control plane name, the list has no
\* blank and no key twice (control_rpc.rs, model.rs: sanitize_api_keys).
THEOREM SanitizeListsOnce ==
    ASSUME NEW values \in Seq(Keys \cup {NoKey})
    PROVE  ListedOnce(Sanitize(values))
<1> DEFINE T == {v \in Seq(Keys \cup {NoKey}) : ListedOnce(Sanitize(v))}
<1>1. <<>> \in T
  <2>1. ListedOnce(<<>>)
    BY DEF ListedOnce
  <2> QED BY <2>1, SanitizeEmpty
<1>2. ASSUME NEW v \in Seq(Keys \cup {NoKey}), NEW k \in Keys \cup {NoKey}, v \in T
      PROVE  Append(v, k) \in T
  <2>1. ListedOnce(KeepKey(Sanitize(v), k))
    BY <1>2, KeepKeyListsOnce
  <2>2. Append(v, k) \in Seq(Keys \cup {NoKey})
    OBVIOUS
  <2> QED BY <2>1, <2>2, SanitizeAppend
<1> HIDE DEF T
<1>3. Seq(Keys \cup {NoKey}) \subseteq T
  BY <1>1, <1>2, Keeping!SequenceInduction
<1> QED BY <1>3 DEF T

LEMMA KeysAreListedOnce == Init => KeysListedOnce
<1> SUFFICES ASSUME NEW control \in Keys \cup {NoKey},
                    NEW container \in Keys \cup {NoKey},
                    keys = Sanitize(Sanitize(<<control, container>>))
             PROVE  KeysListedOnce
  BY DEF Init
<1>1. Sanitize(<<control, container>>) \in Seq(Keys)
  <2>1. <<control, container>> \in Seq(Keys \cup {NoKey})
    OBVIOUS
  <2> QED BY <2>1, SanitizeListsOnce DEF ListedOnce
<1>2. Sanitize(<<control, container>>) \in Seq(Keys \cup {NoKey})
  BY <1>1
<1> QED BY <1>2, SanitizeListsOnce DEF ListedOnce, KeysListedOnce

-----------------------------------------------------------------------------
(* What replies are *)

LEMMA ReplyTypes ==
    /\ \A r \in Outputs : r.text = {} /\ r.reported \in BOOLEAN
    /\ \A r \in Errors : r.reported \in BOOLEAN
    /\ \A r \in Errors : r.served /\ IsAuthFailure(r.text) =>
          r.kind = "undecodable" \/ (r.kind = "network" /\ r.text # {})
    /\ Nothing.text = {} /\ KeyMissing.text = {}
    /\ BadDirective.text = {} /\ BadDirective.reported = FALSE
<1>1. ASSUME NEW r \in Outputs PROVE r.text = {} /\ r.reported \in BOOLEAN
  BY DEF Outputs, Reply
<1>2. ASSUME NEW r \in Errors
      PROVE  /\ r.reported \in BOOLEAN
             /\ \/ r.kind = "rejected" /\ ~r.served
                \/ r.kind \in {"undecodable", "network"}
                \/ r.text = {}
  <2>1. CASE r \in Rejections
    <3>1. PICK t \in Texts : r = Reply("rejected", t, FALSE, FALSE)
      BY <2>1 DEF Rejections
    <3> QED BY <3>1 DEF Reply
  <2>2. CASE r \in Undecodables
    BY <2>2 DEF Undecodables, Reply
  <2>3. CASE r \in WithoutChoices
    BY <2>3 DEF WithoutChoices, Reply
  <2>4. CASE r \in NetworkErrors
    BY <2>4 DEF NetworkErrors, Reply
  <2> QED BY <2>1, <2>2, <2>3, <2>4 DEF Errors
<1>3. ~IsAuthFailure({})
  BY DEF IsAuthFailure
<1> QED BY <1>1, <1>2, <1>3 DEF Nothing, KeyMissing, BadDirective, Reply

\* The reply is put beside the last attempt.
LEMMA AnsweredAttempts ==
    ASSUME attempts \in Seq(Tries), Len(attempts) > 0, NEW r \in Replies
    PROVE  /\ Answered(r) \in Seq(Tries) /\ Len(Answered(r)) = Len(attempts)
           /\ Answered(r)[Len(attempts)].reply = r
           /\ \A i \in 1..Len(attempts) : Answered(r)[i].key = attempts[i].key
           /\ \A i \in 1..(Len(attempts) - 1) : Answered(r)[i] = attempts[i]
<1>1. \A i \in 1..Len(attempts) : attempts[i] \in Tries
  OBVIOUS
<1>2. [attempts[Len(attempts)] EXCEPT !.reply = r] \in Tries
  BY <1>1 DEF Tries
<1> QED BY <1>1, <1>2 DEF Answered, Tries

-----------------------------------------------------------------------------
(* Steps *)

LEMMA InitIsFine == Init => IInv
<1> SUFFICES ASSUME Init PROVE IInv
  OBVIOUS
<1>1. CallFits
  BY DEF Init, CallFits
<1>2. UsageFits /\ ServedCallsStand
  BY DEF Init, UsageFits, UsageIsOfOutputs, ServedCallsStand
<1> QED BY <1>1, <1>2 DEF IInv

\* A call without a request.
LEMMA CallsWithoutRequestKeepIInv ==
    ASSUME IInv, LocalSmoke \/ FailWithoutKey
    PROVE  IInv'
<1>1. /\ attempts' = <<>> /\ call' = "idle" /\ smoke' = smoke /\ keys' = keys
  BY DEF LocalSmoke, FailWithoutKey, StartCall
<1>2. CallFits' /\ ServedCallsStand'
  BY <1>1 DEF IInv, CallFits, ServedCallsStand
<1>3. CASE LocalSmoke
  <2>1. PICK r \in Outputs \cup {BadDirective} :
           /\ usage' = usage + Count(r.reported)
           /\ delivered' = delivered + Count(r.reported)
    BY <1>3 DEF LocalSmoke
  <2>2. Count(r.reported) \in Nat
    BY DEF Count
  <2> HIDE DEF Count
  <2> QED BY <1>2, <1>3, <2>1, <2>2 DEF IInv, UsageFits, UsageIsOfOutputs, LocalSmoke, StartCall
<1>4. CASE FailWithoutKey
  BY <1>2, <1>4 DEF IInv, UsageFits, UsageIsOfOutputs, FailWithoutKey, StartCall
<1> QED BY <1>3, <1>4

LEMMA SendFirstKeepsIInv ==
    ASSUME IInv, SendFirst
    PROVE  IInv'
<1> DEFINE first == [key |-> Head(keys), reply |-> Nothing]
<1>1. first \in Tries
  BY DEF Tries, ListedKeys, Replies
<1>2. attempts' = <<first>> /\ keys' = keys /\ smoke' = smoke /\ result' = Nothing
  BY DEF SendFirst, StartCall
<1>3. Tries' = Tries
  BY <1>2 DEF Tries, ListedKeys
<1>4. CallFits'
  BY <1>1, <1>2, <1>3 DEF IInv, CallFits
<1>5. ServedCallsStand'
  BY <1>2 DEF ServedCallsStand
<1>6. UsageFits'
  BY <1>2 DEF IInv, UsageFits, UsageIsOfOutputs, SendFirst
<1> QED BY <1>4, <1>5, <1>6 DEF IInv

\* Decoding counts an output and nothing else.
LEMMA DecodeKeepsUsage ==
    ASSUME UsageFits, NEW r \in Outputs \cup Errors, Decode(r)
    PROVE  UsageFits'
<1> DEFINE n == Count(r.reported)
<1>1. n \in Nat
  BY DEF Count
<1>2. billed' = billed + n /\ smoke' = smoke
  BY DEF Decode
<1>3. \/ usage' = usage + n /\ delivered' = delivered + n
      \/ usage' = usage + 0 /\ delivered' = delivered + 0
  BY DEF Decode
<1> HIDE DEF n
<1> QED BY <1>1, <1>2, <1>3 DEF UsageFits, UsageIsOfOutputs

LEMMA ReplyKeepsIInv ==
    ASSUME IInv, NEW r \in Outputs \cup Errors, Succeed(r) \/ Failover(r) \/ Fail(r)
    PROVE  IInv'
<1>1. /\ call = "waiting" /\ Decode(r) /\ keys' = keys /\ smoke' = smoke
      /\ endpoint' = endpoint
      /\ Len(attempts) > 0 /\ attempts \in Seq(Tries) /\ result = Nothing
  BY DEF IInv, CallFits, Succeed, Failover, Fail, Decode
<1>2. UsageFits'
  BY <1>1, DecodeKeepsUsage DEF IInv
<1>3. Tries' = Tries
  BY <1>1 DEF Tries, ListedKeys
<1>4. /\ Answered(r) \in Seq(Tries) /\ Len(Answered(r)) = Len(attempts)
      /\ Answered(r)[Len(attempts)].reply = r
      /\ \A i \in 1..(Len(attempts) - 1) : Answered(r)[i] = attempts[i]
  BY <1>1, AnsweredAttempts DEF Replies
<1>5. CASE Succeed(r) \/ Fail(r)
  <2>1. call' = "idle" /\ attempts' = Answered(r)
    BY <1>5 DEF Succeed, Fail
  <2>2. CallFits'
    BY <1>1, <1>3, <1>4, <2>1 DEF IInv, CallFits
  <2>3. ServedCallsStand'
    BY <1>1, <1>4, <2>1 DEF IInv, ServedCallsStand
  <2> QED BY <1>2, <2>2, <2>3 DEF IInv
<1>6. CASE Failover(r)
  <2> DEFINE next == [key |-> keys[Len(attempts) + 1], reply |-> Nothing]
  <2>1. /\ attempts' = Append(Answered(r), next) /\ IsAuthFailure(r.text)
        /\ UNCHANGED <<call, result>> /\ r \in Errors
    BY <1>6 DEF Failover
  <2>2. next \in Tries
    BY <1>1 DEF Tries, ListedKeys, Replies
  <2> HIDE DEF next
  <2>3. /\ attempts' \in Seq(Tries) /\ Len(attempts') = Len(attempts) + 1
        /\ \A i \in 1..Len(attempts) : attempts'[i] = Answered(r)[i]
    BY <1>4, <2>1, <2>2
  <2>4. CallFits'
    BY <1>1, <1>3, <2>1, <2>3 DEF IInv, CallFits
  <2>5. ServedCallsStand'
    <3> SUFFICES ASSUME NEW i \in 1..Len(attempts), attempts'[i].reply.served
                 PROVE  \/ /\ attempts'[i].reply.kind = "undecodable"
                           /\ IsAuthFailure(attempts'[i].reply.text)
                        \/ /\ attempts'[i].reply.kind = "network"
                           /\ IsAuthFailure(endpoint')
      BY <1>1, <2>3 DEF ServedCallsStand
    <3>1. CASE i = Len(attempts)
      <4>1. attempts'[i].reply = r
        BY <3>1, <1>4, <2>3
      <4>2. r.kind = "network" => r.text \in {{}, endpoint}
        BY <1>1 DEF Decode
      <4> QED BY <4>1, <4>2, <1>1, <2>1, ReplyTypes
    <3>2. CASE i < Len(attempts)
      <4>1. attempts'[i] = attempts[i]
        BY <3>2, <1>1, <1>4, <2>3
      <4> QED BY <4>1, <3>2, <1>1 DEF IInv, ServedCallsStand
    <3> QED BY <3>1, <3>2, <1>1
  <2> QED BY <1>2, <2>4, <2>5 DEF IInv
<1> QED BY <1>5, <1>6

LEMMA DropKeepsIInv ==
    ASSUME IInv, Drop
    PROVE  IInv'
<1>1. PICK reported \in BOOLEAN : billed' = billed + Count(reported)
  BY DEF Drop
<1>2. Count(reported) \in Nat
  BY DEF Count
<1>3. UsageFits'
  BY <1>1, <1>2 DEF IInv, UsageFits, UsageIsOfOutputs, Drop
<1>4. CallFits' /\ ServedCallsStand'
  BY DEF IInv, CallFits, ServedCallsStand, Drop, Tries, ListedKeys
<1> QED BY <1>3, <1>4 DEF IInv

LEMMA NextKeepsIInv == IInv /\ [Next]_vars => IInv'
<1> SUFFICES ASSUME IInv, [Next]_vars PROVE IInv'
  OBVIOUS
<1>1. CASE UNCHANGED vars
  BY <1>1 DEF vars, IInv, CallFits, Tries, ListedKeys, UsageFits, UsageIsOfOutputs,
     ServedCallsStand
<1>2. CASE Next
  BY <1>2, CallsWithoutRequestKeepIInv, SendFirstKeepsIInv, ReplyKeepsIInv,
     DropKeepsIInv DEF Next, ReplyStep
<1> QED BY <1>1, <1>2
LEMMA AlwaysIInv == Spec => []IInv
BY InitIsFine, NextKeepsIInv, PTL DEF Spec

-----------------------------------------------------------------------------
(* The order of keys *)

LEMMA NextKeepsTries ==
    ASSUME IInv, TriesFollowKeys, [Next]_vars
    PROVE  TriesFollowKeys'
<1>1. CASE UNCHANGED vars \/ Drop
  <2>1. keys' = keys /\ attempts' = attempts /\ result' = result
    BY <1>1 DEF vars, Drop
  <2> QED BY <2>1 DEF TriesFollowKeys, KeysListedOnce
<1>2. CASE LocalSmoke \/ FailWithoutKey
  <2>1. attempts' = <<>> /\ keys' = keys
    BY <1>2 DEF LocalSmoke, FailWithoutKey, StartCall
  <2>2. result'.text = {}
    BY <1>2, ReplyTypes DEF LocalSmoke, FailWithoutKey
  <2>3. ~IsAuthFailure(result'.text)
    BY <2>2 DEF IsAuthFailure
  <2> QED BY <2>1, <2>3 DEF TriesFollowKeys, KeysListedOnce
<1>3. CASE SendFirst
  <2>1. /\ attempts' = <<[key |-> Head(keys), reply |-> Nothing]>> /\ keys' = keys
        /\ result' = Nothing /\ keys # <<>>
    BY <1>3 DEF SendFirst, StartCall
  <2>2. ~IsAuthFailure(Nothing.text)
    BY ReplyTypes DEF IsAuthFailure
  <2>3. Len(keys) >= 1 /\ Head(keys) = keys[1]
    BY <2>1 DEF TriesFollowKeys, KeysListedOnce
  <2> QED BY <2>1, <2>2, <2>3 DEF TriesFollowKeys, KeysListedOnce
<1>4. ASSUME NEW r \in Outputs \cup Errors, Succeed(r) \/ Failover(r) \/ Fail(r)
      PROVE  TriesFollowKeys'
  <2>1. call = "waiting" /\ keys' = keys /\ KeysListedOnce' /\ Len(keys) \in Nat
    BY <1>4 DEF Succeed, Failover, Fail, Decode, TriesFollowKeys, KeysListedOnce
  <2>2. /\ Len(attempts) > 0 /\ attempts \in Seq(Tries) /\ result = Nothing
        /\ Len(attempts) \in Nat
    BY <2>1 DEF IInv, CallFits
  <2>3. /\ Answered(r) \in Seq(Tries) /\ Len(Answered(r)) = Len(attempts)
        /\ Answered(r)[Len(attempts)].reply = r
        /\ \A i \in 1..Len(attempts) : Answered(r)[i].key = attempts[i].key
        /\ \A i \in 1..(Len(attempts) - 1) : Answered(r)[i] = attempts[i]
    BY <2>2, AnsweredAttempts DEF Replies
  <2>4. /\ \A i \in 1..Len(attempts) : attempts[i].key = keys[i]
        /\ \A i \in 1..(Len(attempts) - 1) : IsAuthFailure(attempts[i].reply.text)
        /\ Len(attempts) <= Len(keys)
    BY DEF TriesFollowKeys
  <2>5. CASE Succeed(r) \/ Fail(r)
    <3>1. attempts' = Answered(r) /\ result' = r
      BY <2>5 DEF Succeed, Fail
    <3>2. ~IsAuthFailure(r.text) \/ ~(Len(attempts) < Len(keys))
      <4>1. CASE Succeed(r)
        BY <4>1, ReplyTypes DEF Succeed, IsAuthFailure
      <4>2. CASE Fail(r)
        BY <4>2 DEF Fail
      <4> QED BY <4>1, <4>2, <2>5
    <3>3. /\ \A i \in 1..Len(attempts) : Answered(r)[i].key = keys[i]
          /\ \A i \in 1..(Len(attempts) - 1) : IsAuthFailure(Answered(r)[i].reply.text)
      BY <2>3, <2>4
    <3> QED BY <2>1, <2>2, <2>3, <2>4, <3>1, <3>2, <3>3 DEF TriesFollowKeys
  <2>6. CASE Failover(r)
    <3> DEFINE next == [key |-> keys[Len(attempts) + 1], reply |-> Nothing]
    <3>1. /\ attempts' = Append(Answered(r), next) /\ IsAuthFailure(r.text)
          /\ result' = result /\ Len(attempts) < Len(keys)
      BY <2>6 DEF Failover
    <3>2. next \in Tries /\ next.key = keys[Len(attempts) + 1]
      BY <2>2 DEF Tries, ListedKeys, Replies
    <3> HIDE DEF next
    <3>3. /\ Len(attempts') = Len(attempts) + 1
          /\ attempts'[Len(attempts) + 1] = next
          /\ \A i \in 1..Len(attempts) : attempts'[i] = Answered(r)[i]
      BY <2>2, <2>3, <3>1, <3>2
    <3>4. ASSUME NEW i \in 1..(Len(attempts) + 1)
          PROVE  attempts'[i].key = keys[i]
      <4>1. CASE i = Len(attempts) + 1
        BY <4>1, <3>2, <3>3
      <4>2. CASE i \in 1..Len(attempts)
        BY <4>2, <2>3, <2>4, <3>3
      <4> QED BY <4>1, <4>2, <2>2
    <3>5. ASSUME NEW i \in 1..Len(attempts)
          PROVE  IsAuthFailure(attempts'[i].reply.text)
      <4>1. CASE i = Len(attempts)
        <5>1. attempts'[i].reply = r
          BY <4>1, <2>3, <3>3
        <5> QED BY <5>1, <3>1
      <4>2. CASE i \in 1..(Len(attempts) - 1)
        <5>1. attempts'[i] = attempts[i]
          BY <4>2, <2>3, <3>3
        <5> QED BY <5>1, <4>2, <2>4
      <4> QED BY <4>1, <4>2, <2>2
    <3>6. ~IsAuthFailure(result'.text)
      BY <2>2, <3>1, ReplyTypes DEF IsAuthFailure
    <3>7. Len(attempts') <= Len(keys) /\ Len(attempts') - 1 = Len(attempts)
      BY <2>1, <2>2, <3>1, <3>3
    <3> QED BY <2>1, <3>3, <3>4, <3>5, <3>6, <3>7 DEF TriesFollowKeys
  <2> QED BY <1>4, <2>5, <2>6
<1> QED BY <1>1, <1>2, <1>3, <1>4 DEF Next, ReplyStep

\* Following the keys is using them in turn, and with all used the last is final.
LEMMA KeysAreTriedIfFollowed ==
    ASSUME IInv, TriesFollowKeys
    PROVE  KeysInTurn
<1>1. attempts \in Seq(Tries) /\ Len(attempts) \in Nat /\ DOMAIN attempts = 1..Len(attempts)
  BY DEF IInv, CallFits
<1>2. ASSUME NEW i \in DOMAIN attempts, NEW j \in DOMAIN attempts,
             attempts[i].key = attempts[j].key
      PROVE  i = j
  BY <1>1, <1>2 DEF TriesFollowKeys, KeysListedOnce
<1>3. ASSUME NEW i \in DOMAIN attempts
      PROVE  /\ attempts[i].key = keys[i]
             /\ i < Len(attempts) => attempts[i].reply.text \cap {"401", "invalid key"} # {}
  <2>1. i \in 1..Len(attempts)
    BY <1>1
  <2>2. i < Len(attempts) => IsAuthFailure(attempts[i].reply.text)
    BY <2>1, <1>1 DEF TriesFollowKeys
  <2> QED BY <2>1, <2>2 DEF TriesFollowKeys, IsAuthFailure
<1> QED BY <1>2, <1>3 DEF KeysInTurn

\* Only a text that the code takes for a failure of authentication is one to the
\* user.
LEMMA InvalidKeyIsAuthFailure ==
    ASSUME NEW r, "invalid key" \in UserMessages(r)
    PROVE  IsAuthFailure(r.text)
<1>1. PICK t \in Texts \cap SUBSET r.text : UserMessage(r.kind, t) = "invalid key"
  BY DEF UserMessages
<1>2. t \cap {"401 unauthorized", "invalid key"} # {}
  BY <1>1 DEF UserMessage
<1>3. "401" \in t \/ "invalid key" \in t
  BY <1>1, <1>2 DEF Texts
<1> QED BY <1>1, <1>3 DEF IsAuthFailure

-----------------------------------------------------------------------------
(* Theorems *)

\* Type correctness: what a request is answered and what a call returns is one of
\* the replies there are, for any keys and number of calls.
THEOREM TypeCorrect == Spec => []TypeOK
<1>1. Init => TypeOK
  BY MaxCallsAssumption DEF Init, TypeOK, Results
<1>2. ASSUME IInv', TypeOK, [Next]_vars PROVE TypeOK'
  <2>1. CASE UNCHANGED vars
    BY <2>1, <1>2 DEF vars, TypeOK
  <2>2. ASSUME Next PROVE TypeOK'
    <3>1. calls' \in 0..MaxCalls
      BY <1>2, <2>2, MaxCallsAssumption DEF TypeOK, Next, LocalSmoke, FailWithoutKey, SendFirst,
         StartCall, ReplyStep, Succeed, Failover, Fail, Decode, Drop
    <3>2. call' \in {"idle", "waiting", "dropped"}
      BY <1>2, <2>2 DEF TypeOK, Next, LocalSmoke, FailWithoutKey, SendFirst, ReplyStep,
         Succeed, Failover, Fail, Drop
    <3>3. result' \in Results
      <4>1. CASE LocalSmoke
        BY <4>1 DEF LocalSmoke, Results
      <4>2. CASE FailWithoutKey \/ SendFirst
        BY <4>2 DEF FailWithoutKey, SendFirst, Results
      <4>3. CASE ReplyStep
        BY <4>3, <1>2 DEF ReplyStep, TypeOK, Succeed, Failover, Fail, Results
      <4>4. CASE Drop
        BY <4>4, <1>2 DEF Drop, TypeOK
      <4> QED BY <2>2, <4>1, <4>2, <4>3, <4>4 DEF Next
    <3>4. \A i \in DOMAIN attempts' : attempts'[i].reply \in Replies
      <4>1. attempts' \in Seq(Tries')
        BY <1>2 DEF IInv, CallFits
      <4>2. \A i \in DOMAIN attempts' : attempts'[i] \in Tries'
        BY <4>1
      <4> QED BY <4>2 DEF Tries
    <3>5. endpoint' \in Endpoints
      BY <1>2, <2>2 DEF TypeOK, Next, LocalSmoke, FailWithoutKey, SendFirst, StartCall,
         ReplyStep, Succeed, Failover, Fail, Decode, Drop
    <3> QED BY <1>2, <3>1, <3>2, <3>3, <3>4, <3>5 DEF IInv, CallFits, UsageFits, TypeOK
  <2> QED BY <2>1, <2>2, <1>2
<1> QED BY <1>1, <1>2, AlwaysIInv, PTL DEF Spec

\* The usage of a run is that of the outputs the engine got, and no more than the
\* provider has charged (model.rs:193-196, 306-309).
THEOREM UsageIsTrue == Spec => []UsageIsOfOutputs
<1>1. IInv => UsageIsOfOutputs
  BY DEF IInv, UsageFits
<1> QED BY <1>1, AlwaysIInv, PTL

\* A call that was served is not sent again, unless its completion was unreadable
\* and reads like a failure of authentication, or its reply was lost at an endpoint
\* whose URL does (model.rs:211-219, 235-244, 294-304).
THEOREM NothingPaidTwice == Spec => []ServedCallsStand
<1>1. IInv => ServedCallsStand
  BY DEF IInv
<1> QED BY <1>1, AlwaysIInv, PTL

\* Keys are tried in their order, none twice, and whoever is told that a key is
\* invalid has no other (model.rs:209-222, main.rs:878-885).
THEOREM KeysTriedInOrder == Spec => []KeysAreTried
<1>1. Init => TriesFollowKeys
  <2> SUFFICES ASSUME Init PROVE TriesFollowKeys
    OBVIOUS
  <2>1. attempts = <<>> /\ ~IsAuthFailure(result.text)
    BY ReplyTypes DEF Init, IsAuthFailure
  <2>2. KeysListedOnce
    BY KeysAreListedOnce
  <2> QED BY <2>1, <2>2 DEF TriesFollowKeys, KeysListedOnce
<1>2. IInv /\ TriesFollowKeys /\ [Next]_vars => TriesFollowKeys'
  BY NextKeepsTries
<1>3. IInv /\ TriesFollowKeys => KeysAreTried
  BY InvalidKeyIsAuthFailure, KeysAreTriedIfFollowed
     DEF TriesFollowKeys, KeysAreTried, InvalidKeyIsFinal
<1> QED BY <1>1, <1>2, <1>3, AlwaysIInv, PTL DEF Spec
=============================================================================
