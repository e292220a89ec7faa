---------------------------- MODULE InternalRpc ----------------------------
(***************************************************************************)
(* The signed envelope around a control RPC (src/internal_rpc.rs): what    *)
(* sign_internal_rpc signs, a request that takes its time and may be       *)
(* rewritten on its way, and verify_internal_rpc, the counterpart that the *)
(* repository keeps beside the signing as its contract.                    *)
(*                                                                         *)
(* Abstracted: a digest or a MAC is the tuple it is computed from; texts   *)
(* are short tokens.  No capability has a comma in it, as in this code.    *)
(***************************************************************************)
EXTENDS Integers, Sequences

CONSTANTS
    Inputs,       \* what requests are signed from
    Receivers,    \* what receivers insist on
    Skew,         \* max_clock_skew_ms
    MaxDelay      \* bound: by how much the receiver's clock may differ

ASSUME SkewAssumption == Skew \in Nat /\ MaxDelay \in Nat
ASSUME TimestampsAssumption == \A i \in Inputs : i.timestamp \in Int

VARIABLES
    stage,        \* "signed", "received", "verified"
    input,        \* what the request was signed from
    request,      \* the request as it is now, headers included
    now,          \* the receiver's clock
    receiver,
    verified      \* the envelope it accepted, if it did: Some or None

envelopeVars == <<stage, input, request, now, receiver, verified>>

-----------------------------------------------------------------------------
(* Texts *)

ToUppercase(method) == IF method = "post" THEN "POST" ELSE method
Trim(capability) == IF capability = " rpc " THEN "rpc" ELSE capability

\* A sorted, joined BTreeSet of what is not empty: no more than the set.
NormalizeCapabilities(capabilities) ==
    {Trim(capabilities[n]) : n \in DOMAIN capabilities} \ {""}

PathWithQuery(path, query) ==
    IF query \in {"none", ""} THEN <<path>>
    ELSE <<path, IF query = "?q" THEN "q" ELSE query>>

-----------------------------------------------------------------------------
(* sign_internal_rpc *)

Version == "takos-internal-v3"

\* Slip: the audience is left out of what is signed.
CanonicalSansAudience(r) ==
    <<Version, ToUppercase(r.method), PathWithQuery(r.path, r.query), r.timestamp,
      r.requestId, r.nonce, r.caller, r.capabilities, r.digest, r.actor>>

\* canonical_internal_rpc
Canonical(r) ==
    <<Version, ToUppercase(r.method), PathWithQuery(r.path, r.query), r.timestamp,
      r.requestId, r.nonce, r.caller, r.audience, r.capabilities, r.digest, r.actor>>

HmacSha256(secret, message) == <<secret, message>>

\* Slip: capabilities are signed as they were given, but sent normalized.
SignRaw(i) ==
    LET unsigned == [
            version |-> Version, method |-> i.method, path |-> i.path, query |-> i.query,
            body |-> i.body, digest |-> i.body, actor |-> i.actor, nonce |-> i.nonce,
            requestId |-> IF i.requestId = "none" THEN i.actor.requestId ELSE i.requestId,
            timestamp |-> i.timestamp, caller |-> i.caller, audience |-> i.audience,
            capabilities |-> {i.capabilities[n] : n \in DOMAIN i.capabilities},
            signature |-> <<>>]
    IN  [unsigned EXCEPT !.signature = HmacSha256(i.secret, Canonical(unsigned)),
                         !.capabilities = NormalizeCapabilities(i.capabilities)]

Sign(i) ==
    LET unsigned == [
            version |-> Version, method |-> i.method, path |-> i.path, query |-> i.query,
            body |-> i.body, digest |-> i.body, actor |-> i.actor, nonce |-> i.nonce,
            requestId |-> IF i.requestId = "none" THEN i.actor.requestId ELSE i.requestId,
            timestamp |-> i.timestamp, caller |-> i.caller, audience |-> i.audience,
            capabilities |-> NormalizeCapabilities(i.capabilities),
            signature |-> <<>>]
    IN  [unsigned EXCEPT !.signature = HmacSha256(i.secret, Canonical(unsigned))]

-----------------------------------------------------------------------------
(* verify_internal_rpc *)

TimestampWithinSkew(timestamp, clock) ==
    clock - timestamp \in (-Skew)..Skew

Accepts(policy, r, clock) ==
    /\ r.version = Version
    /\ TimestampWithinSkew(r.timestamp, clock)
    /\ policy.callers # {} => r.caller \in policy.callers
    /\ policy.audience # "any" => r.audience = policy.audience
    /\ policy.required \subseteq r.capabilities
    /\ r.digest = r.body
    /\ r.actor.requestId = r.requestId
    /\ r.signature = HmacSha256(policy.secret, Canonical(r))

\* What the receiver learns of an accepted request.
Envelope(r) ==
    [actor |-> r.actor, caller |-> r.caller, audience |-> r.audience,
     capabilities |-> r.capabilities, requestId |-> r.requestId, nonce |-> r.nonce,
     timestamp |-> r.timestamp]

-----------------------------------------------------------------------------
EnvelopeInit ==
    /\ stage = "signed"
    /\ input \in Inputs /\ request = Sign(input)
    /\ receiver \in Receivers
    /\ now \in (input.timestamp - MaxDelay)..(input.timestamp + MaxDelay)
    /\ verified = {}

\* On its way a request may come to say something else in one place.
Rewrite ==
    /\ stage = "signed"
    /\ stage' = "rewritten"
    /\ \E other \in Inputs, field \in DOMAIN request :
          request' = [request EXCEPT ![field] = Sign(other)[field]]
    /\ UNCHANGED <<input, now, receiver, verified>>

Verify ==
    /\ stage \in {"signed", "rewritten"}
    /\ stage' = "verified"
    /\ verified' = IF Accepts(receiver, request, now) THEN {Envelope(request)} ELSE {}
    /\ UNCHANGED <<input, request, now, receiver>>

EnvelopeNext == Rewrite \/ Verify

EnvelopeSpec == EnvelopeInit /\ [][EnvelopeNext]_envelopeVars

-----------------------------------------------------------------------------
(* Properties *)

\* A receiver with the same secret accepts what was signed, unchanged and in
\* time, whenever it is of the callers, for the audience and with the
\* capabilities that the receiver asks for (internal_rpc.rs:48-55, "the
\* round-trip counterpart that proves the signing contract"): the two sides
\* normalize alike.  A request id that is not the actor's own is the one way to
\* sign a request nobody accepts.
RoundTrip ==
    LET id == input.requestId
    IN  /\ stage = "verified" /\ request = Sign(input)
        /\ receiver.secret = input.secret
        /\ now - input.timestamp \in (-Skew)..Skew
        /\ receiver.callers = {} \/ input.caller \in receiver.callers
        /\ receiver.audience \in {"any", input.audience}
        /\ receiver.required \subseteq NormalizeCapabilities(input.capabilities)
        => (verified = {} <=> id \notin {"none", input.actor.requestId})

\* What a receiver learns from an accepted request is what its sender signed,
\* for the body, path and query it comes with, at most Skew after and at most
\* Skew before the time it was signed at, by the receiver's clock
\* (internal_rpc.rs:170-207, 294-306).
AcceptedAsSigned ==
    stage = "verified" /\ verified # {} =>
        /\ verified = {Envelope(Sign(input))}
        /\ request.body = input.body
        /\ PathWithQuery(request.path, request.query)
              = PathWithQuery(input.path, input.query)
        /\ now <= input.timestamp + Skew
        /\ now >= input.timestamp - Skew
=============================================================================
