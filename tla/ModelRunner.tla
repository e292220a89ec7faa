----------------------------- MODULE ModelRunner -----------------------------
(***************************************************************************)
(* TakosModelRunner (src/model.rs): the model calls of one turn, the API   *)
(* keys they go through, the usage they leave in the UsageTracker, and     *)
(* what the user is told of a call that failed (src/main.rs).              *)
(*                                                                         *)
(* The engine makes one call at a time and may give one up, which drops    *)
(* its request.  From sending a request to its reply, or the client's      *)
(* timeout, a call waits; the rest of the code does not.  What the         *)
(* provider does with a request, its reply, and what becomes of the reply  *)
(* on the way are one choice.                                              *)
(*                                                                         *)
(* Abstracted: prompts, outputs, tool calls, amounts of tokens (a response *)
(* that reports usage counts as one).  Of an error's text there is what    *)
(* the code looks for in it: Marks.  Keys are compared trimmed.            *)
(***************************************************************************)
EXTENDS Naturals, Sequences, SequencesExt

CONSTANTS
    Keys,      \* API keys
    NoKey,     \* a key that is absent or blank
    Endpoints, \* of the URLs that TAKOS_AGENT_MODEL_ENDPOINT may say: what the
               \* code looks for in errors and the URL has; port 4010 has "401"
    MaxCalls   \* bound: model calls of the turn

ASSUME NoKeyAssumption == NoKey \notin Keys
\* A URL has no blanks.
ASSUME EndpointsAssumption == Endpoints \subseteq SUBSET {"401", "invalid key", "rate limit"}
ASSUME MaxCallsAssumption == MaxCalls \in Nat

VARIABLES
    smoke,      \* the model is "local-smoke"
    endpoint,   \* the endpoint's URL
    keys,       \* openai_api_keys
    call,       \* "idle", "waiting" for a reply, "dropped" with the turn
    calls,      \* calls made
    attempts,   \* the requests of the last call, with their replies
    result,     \* what the last call returned
    usage,      \* the usage tracker
    delivered,  \* outputs the engine got whose response reported usage
    billed      \* responses of the provider that reported usage

vars == <<smoke, endpoint, keys, call, calls, attempts, result, usage, delivered, billed>>

\* "401 unauthorized" is the status line, "401" the number anywhere, "invalid
\* key" one of the two phrases for it, "rate limit" that phrase or "429".
Marks == {"401 unauthorized", "401", "invalid key", "rate limit"}
Texts == {t \in SUBSET Marks : "401 unauthorized" \in t => "401" \in t}

\* served: the provider has produced a completion for the request.
Reply(kind, text, served, reported) ==
    [kind |-> kind, text |-> text, served |-> served, reported |-> reported]
Nothing == Reply("none", {}, FALSE, FALSE)
KeyMissing == Reply("no_key", {}, FALSE, FALSE)
BadDirective == Reply("bad_directive", {}, FALSE, FALSE)
Outputs == {Reply("output", {}, TRUE, r) : r \in BOOLEAN}

\* A status that is no success: the text is the status and the body.
Rejections == {Reply("rejected", t, FALSE, FALSE) : t \in Texts}
\* A body that is no response: the text has the body.
Undecodables == {Reply("undecodable", t, TRUE, r) : t \in Texts, r \in BOOLEAN}
WithoutChoices == {Reply("no_choices", {}, TRUE, r) : r \in BOOLEAN}
\* Not sent, not answered in time, or the body broke off: reqwest names the URL
\* in most of these errors, and nothing else that is looked for.
NetworkErrors ==
    {Reply("network", t, s, r) : t \in Endpoints \cup {{}}, s \in BOOLEAN, r \in BOOLEAN}
Errors == Rejections \cup Undecodables \cup WithoutChoices \cup NetworkErrors

Results == Outputs \cup Errors \cup {Nothing, KeyMissing, BadDirective}
Replies == Outputs \cup Errors \cup {Nothing}

TypeOK ==
    /\ smoke \in BOOLEAN
    /\ endpoint \in Endpoints
    /\ call \in {"idle", "waiting", "dropped"}
    /\ calls \in 0..MaxCalls
    /\ \A i \in DOMAIN attempts : attempts[i].reply \in Replies
    /\ result \in Results
    /\ usage \in Nat /\ delivered \in Nat /\ billed \in Nat

-----------------------------------------------------------------------------
(* The keys *)

\* A key that is blank, or there already, is left out.
KeepKey(kept, k) ==
    IF k = NoKey \/ k \in ToSet(kept) THEN kept ELSE Append(kept, k)

\* collect_openai_api_keys and sanitize_api_keys, which do the same.
Sanitize(values) == FoldLeft(KeepKey, <<>>, values)

Init ==
    /\ smoke \in BOOLEAN
    /\ endpoint \in Endpoints
    /\ \E control, container \in Keys \cup {NoKey} :
          keys = Sanitize(Sanitize(<<control, container>>))
    /\ call = "idle" /\ calls = 0
    /\ attempts = <<>> /\ result = Nothing
    /\ usage = 0 /\ delivered = 0 /\ billed = 0

\* Slip: only the status counts.
IsStatusOnly(text) == "401" \in text

\* is_openai_auth_failure
IsAuthFailure(text) == text \cap {"401", "invalid key"} # {}

-----------------------------------------------------------------------------
(* Calls *)

Count(reported) == IF reported THEN 1 ELSE 0

StartCall ==
    /\ call = "idle"
    /\ calls < MaxCalls /\ calls' = calls + 1
    /\ UNCHANGED <<smoke, endpoint, keys>>

\* local_smoke_response: a tool call, which counts no usage, a bad directive,
\* or an answer.
LocalSmoke ==
    /\ StartCall /\ smoke
    /\ \E r \in Outputs \cup {BadDirective} :
          /\ result' = r
          /\ usage' = usage + Count(r.reported)
          /\ delivered' = delivered + Count(r.reported)
    /\ attempts' = <<>>
    /\ UNCHANGED <<call, billed>>

FailWithoutKey ==
    /\ StartCall /\ ~smoke /\ keys = <<>>
    /\ result' = KeyMissing
    /\ attempts' = <<>>
    /\ UNCHANGED <<call, usage, delivered, billed>>

\* The first request.
SendFirst ==
    /\ StartCall /\ ~smoke /\ keys # <<>>
    /\ call' = "waiting"
    /\ attempts' = <<[key |-> Head(keys), reply |-> Nothing]>>
    /\ result' = Nothing
    /\ UNCHANGED <<usage, delivered, billed>>

Answered(r) == [attempts EXCEPT ![Len(attempts)].reply = r]

\* Slip: usage is recorded for whatever the provider reports.
DecodeEagerly(r) ==
    /\ call = "waiting"
    /\ r.kind = "network" => r.text \in {{}, endpoint}
    /\ billed' = billed + Count(r.reported)
    /\ usage' = usage + Count(r.reported)
    /\ delivered' = delivered + IF r \in Outputs THEN Count(r.reported) ELSE 0
    /\ UNCHANGED <<smoke, endpoint, keys, calls>>

\* A reply is there, or an error that may name the URL.  Only a response with a
\* choice is counted.
Decode(r) ==
    /\ call = "waiting"
    /\ r.kind = "network" => r.text \in {{}, endpoint}
    /\ billed' = billed + Count(r.reported)
    /\ usage' = usage + IF r \in Outputs THEN Count(r.reported) ELSE 0
    /\ delivered' = delivered + IF r \in Outputs THEN Count(r.reported) ELSE 0
    /\ UNCHANGED <<smoke, endpoint, keys, calls>>

Succeed(r) ==
    /\ r \in Outputs
    /\ Decode(r)
    /\ call' = "idle" /\ result' = r
    /\ attempts' = Answered(r)

\* Slip: an error after which the request may be repeated gets the next key.
FailoverWhenUnanswered(r) ==
    /\ r \in Errors
    /\ IsAuthFailure(r.text) \/ r.kind = "network"
    /\ Len(attempts) < Len(keys)
    /\ Decode(r)
    /\ attempts' = Append(Answered(r), [key |-> keys[Len(attempts) + 1], reply |-> Nothing])
    /\ UNCHANGED <<call, result>>

\* The error looks like one of authentication and there is another key.
Failover(r) ==
    /\ r \in Errors
    /\ IsAuthFailure(r.text)
    /\ Len(attempts) < Len(keys)
    /\ Decode(r)
    /\ attempts' = Append(Answered(r), [key |-> keys[Len(attempts) + 1], reply |-> Nothing])
    /\ UNCHANGED <<call, result>>

\* Slip: after the last key it is the first one's turn again.
FailAround(r) ==
    /\ r \in Errors
    /\ IsAuthFailure(r.text) => Len(attempts) = Len(keys)
    /\ Decode(r)
    /\ IF IsAuthFailure(r.text) /\ ~r.reported
       THEN /\ attempts' = <<[key |-> Head(keys), reply |-> Nothing]>>
            /\ UNCHANGED <<call, result>>
       ELSE call' = "idle" /\ result' = r /\ attempts' = Answered(r)

Fail(r) ==
    /\ r \in Errors
    /\ ~(IsAuthFailure(r.text) /\ Len(attempts) < Len(keys))
    /\ Decode(r)
    /\ call' = "idle" /\ result' = r
    /\ attempts' = Answered(r)

\* The turn is given up; its request may be served all the same.
Drop ==
    /\ call = "waiting"
    /\ call' = "dropped"
    /\ \E reported \in BOOLEAN : billed' = billed + Count(reported)
    /\ UNCHANGED <<smoke, endpoint, keys, calls, attempts, result, usage,
                   delivered>>

ReplyStep == \E r \in Outputs \cup Errors : Succeed(r) \/ Failover(r) \/ Fail(r)

Next == LocalSmoke \/ FailWithoutKey \/ SendFirst \/ ReplyStep \/ Drop

Spec == Init /\ [][Next]_vars

\* The HTTP client gives every request an end after MODEL_HTTP_TIMEOUT.
FairSpec == Spec /\ WF_vars(ReplyStep)

-----------------------------------------------------------------------------
(* What the user is told *)

UserMessage(kind, text) ==
    IF text \cap {"401 unauthorized", "invalid key"} # {} THEN "invalid key"
    ELSE IF kind = "no_key" THEN "no key"
    ELSE IF "rate limit" \in text THEN "rate limit"
    ELSE "model failed"

\* The text may lose some of its marks to the redaction of secrets.
UserMessages(r) == {UserMessage(r.kind, t) : t \in Texts \cap SUBSET r.text}

-----------------------------------------------------------------------------
(* Properties *)

\* The usage that the run reports is that of the outputs the engine got: nothing
\* of calls that failed or were given up, nothing twice, and never more than the
\* provider has charged (model.rs:193-196, 306-309).
UsageIsOfOutputs ==
    /\ usage = delivered
    /\ ~smoke => usage <= billed

\* A call goes through the keys in their order, none of them twice, and leaves
\* one only when the reply looked like a failure of authentication
\* (model.rs:209-222).
KeysInTurn ==
    /\ \A i, j \in DOMAIN attempts : attempts[i].key = attempts[j].key => i = j
    /\ \A i \in DOMAIN attempts :
          /\ attempts[i].key = keys[i]
          /\ i < Len(attempts) =>
                attempts[i].reply.text \cap {"401", "invalid key"} # {}

\* Nothing is paid for twice: a call that the provider has served is not sent
\* again, with two exceptions, as errors are judged by their text: the completion
\* was unreadable and, quoted in the error, read like a failure of
\* authentication; or the reply was lost and the endpoint's URL, which the error
\* names, reads like one.  So it is the operator's choice of an endpoint that
\* makes lost replies harmless (model.rs:211-219, 235-244, 294-304, 385-390).
ServedCallsStand ==
    \A i \in DOMAIN attempts :
       i < Len(attempts) /\ attempts[i].reply.served =>
          \/ /\ attempts[i].reply.kind = "undecodable"
             /\ IsAuthFailure(attempts[i].reply.text)
          \/ /\ attempts[i].reply.kind = "network"
             /\ IsAuthFailure(endpoint)

\* Whoever is told that the API key is invalid has no other: the call has tried
\* every configured key (model.rs:215, main.rs:878-885).
InvalidKeyIsFinal ==
    "invalid key" \in UserMessages(result) => Len(attempts) = Len(keys)

\* The keys are tried as the operator lists them, and nobody is told that they
\* are invalid before the last one was (model.rs:209-222).
KeysAreTried == KeysInTurn /\ InvalidKeyIsFinal

\* A call comes to an end: with a bounded number of requests that each have one
\* (model.rs:22, 210-222).
CallsEnd == call = "waiting" ~> call # "waiting"
=============================================================================
