----------------------------- MODULE ControlRpc -----------------------------
(***************************************************************************)
(* ControlRpcClient (src/control_rpc.rs): the requests that the tasks of   *)
(* one run send to the control plane at the same time, the numbers they    *)
(* draw from counters that all clones of the client share, and what their  *)
(* errors are taken for.  When execute_run returns an error, the net sends *)
(* what it has to say through a client of its own (main.rs:319-325), whose *)
(* counters are new, while requests of the first may still be on their way.*)
(*                                                                         *)
(* Requests arrive in any order, or not at all, and a caller may be told   *)
(* of a failure although its request has arrived or will.                  *)
(*                                                                         *)
(* Abstracted: endpoints other than run-event and heartbeat are one; their *)
(* payloads, headers and the HMAC itself (see InternalRpc).                *)
(***************************************************************************)
EXTENDS Naturals, FiniteSets

CONSTANTS
    Task,         \* the run's task
    Heart,        \* the heartbeat task
    Tools,        \* the tool calls in flight
    Statuses,     \* what the control plane may answer to a failed request:
    Bodies,       \* HTTP statuses, and bodies as ErrorBodies has them
    MaxRequests,  \* bound: requests of the run's client
    NetRequests   \* bound: requests of the net's

ASSUME CallersAssumption == Task \notin Tools /\ Heart \notin Tools /\ Task # Heart
ASSUME BoundsAssumption == MaxRequests \in Nat /\ NetRequests \in 0..MaxRequests

VARIABLES
    signing,      \* an internal RPC key is configured
    client,       \* whose client is in use: "run", then perhaps "net"
    sequence,     \* its counters
    nonceCounter,
    begun,        \* how many requests it was asked for
    call,         \* what each caller is about
    wire,         \* requests on their way, or lost
    arrived,      \* requests that the control plane has got
    acked,        \* events that their callers know of having arrived
    token,        \* the run's cancellation token
    verdict       \* what became of the last heartbeat

vars == <<signing, client, sequence, nonceCounter, begun, call, wire, arrived,
          acked, token, verdict>>

-----------------------------------------------------------------------------
(* Vocabulary *)

Callers == {Task, Heart} \cup Tools
Clients == {"run", "net"}
Rpcs == {"run-event", "heartbeat", "other"}
NoRequest == [number |-> 0, client |-> "run", caller |-> Task, rpc |-> "other",
              sequence |-> 0, nonce |-> 0, after |-> {}]

\* What of a body decides anything: the "error" field of a JSON object, and
\* whether the text has "Lease lost" or "lease_lost" in it.
ErrorBodies ==
    {[error |-> e, quotes |-> q] : e \in {"lease_lost", "LEASE-LOST", "another", "no such field"},
                                   q \in BOOLEAN}
       \ {[error |-> "lease_lost", quotes |-> FALSE]}
ASSUME AnswersAssumption ==
    Statuses \subseteq {"200", "404", "409", "500"} /\ Bodies \subseteq ErrorBodies

\* An RPC fails without a response, while its body is read, with a status, or
\* because the body of a 2xx is not what was expected.
Failures ==
    [at : {"transport", "reading"}] \cup
    [at : {"response"}, status : Statuses, body : Bodies]
Renewed == [at |-> "renewed"]

-----------------------------------------------------------------------------
(* decode_response, ControlRpcErrorKind::from_response, is_lease_lost *)

\* Slip: the body is searched whatever the status.
FromResponseAnyStatus(status, body) ==
    IF body.quotes THEN "LeaseLost"
    ELSE IF status = "404" THEN "NotFound" ELSE "Other"

FromResponse(status, body) ==
    CASE status = "409" /\ (body.error \in {"lease_lost", "LEASE-LOST"} \/ body.quotes)
            -> "LeaseLost"
      [] status = "409" /\ body.error \in {"another", "no such field"} /\ ~body.quotes
            -> "Conflict"
      [] status = "404" -> "NotFound"
      [] OTHER -> "Other"

\* The error of send() is reqwest's own, without a kind.
KindOf(failure) ==
    CASE failure.at = "transport" -> "untyped"
      [] failure.at = "reading" -> "Network"
      [] failure.at = "response" ->
            IF failure.status = "200" THEN "Other"
            ELSE FromResponse(failure.status, failure.body)

IsLeaseLost(failure) == KindOf(failure) = "LeaseLost"

-----------------------------------------------------------------------------
Init ==
    /\ signing \in BOOLEAN
    /\ client = "run" /\ sequence = 1 /\ nonceCounter = 1 /\ begun = 0
    /\ call = [c \in Callers |-> [at |-> "idle", request |-> NoRequest]]
    /\ wire = {} /\ arrived = {} /\ acked = {}
    /\ token = FALSE /\ verdict = Renewed

Moves(c, from, to, request) ==
    /\ call[c].at = from
    /\ call' = [call EXCEPT ![c] = [at |-> to, request |-> request]]

\* What each task sends: the heartbeat task only heartbeats, and only while
\* its loop runs; the net, which is the run's task, neither those nor tools.
MaySend(c, rpc) ==
    /\ rpc = "heartbeat" <=> c = Heart
    /\ c = Heart => ~token
    /\ client = "net" => c = Task

\* A method is called; emit_run_event has a number to draw first.
Begin(c, rpc) ==
    /\ MaySend(c, rpc) /\ begun < (IF client = "run" THEN MaxRequests ELSE NetRequests)
    /\ begun' = begun + 1
    /\ Moves(c, "idle", IF rpc = "run-event" THEN "numbering" ELSE "signing",
             [number |-> begun', client |-> client, caller |-> c, rpc |-> rpc,
              sequence |-> 0, nonce |-> 0, after |-> {}])
    /\ UNCHANGED <<signing, client, sequence, nonceCounter, wire, arrived, acked,
                   token, verdict>>

\* Slip: load and store, with room for another caller between the two.
DrawSequenceRacy(c) ==
    /\ Moves(c, "numbering", "signing",
             [call[c].request EXCEPT !.sequence = sequence, !.after = acked])
    /\ sequence' \in {sequence, sequence + 1}
    /\ UNCHANGED <<signing, client, nonceCounter, begun, wire, arrived, acked,
                   token, verdict>>

\* next_sequence; `after` notes the events that are known to be stored already.
DrawSequence(c) ==
    /\ Moves(c, "numbering", "signing",
             [call[c].request EXCEPT !.sequence = sequence, !.after = acked])
    /\ sequence' = sequence + 1
    /\ UNCHANGED <<signing, client, nonceCounter, begun, wire, arrived, acked,
                   token, verdict>>

\* post_json: a nonce if requests are signed, and the request is out.
Send(c) ==
    LET request == [call[c].request EXCEPT !.nonce = IF signing THEN nonceCounter ELSE 0]
    IN  /\ Moves(c, "signing", "waiting", request)
        /\ nonceCounter' = IF signing THEN nonceCounter + 1 ELSE nonceCounter
        /\ wire' = wire \cup {request}
        /\ UNCHANGED <<signing, client, sequence, begun, arrived, acked, token,
                       verdict>>

Arrive(request) ==
    /\ request \in wire
    /\ wire' = wire \ {request} /\ arrived' = arrived \cup {request}
    /\ UNCHANGED <<signing, client, sequence, nonceCounter, begun, call, acked,
                   token, verdict>>

\* A 2xx whose body decodes.
Succeed(c) ==
    /\ call[c].request \in arrived
    /\ Moves(c, "waiting", "idle", NoRequest)
    /\ verdict' = IF c = Heart THEN Renewed ELSE verdict
    /\ acked' = IF call[c].request.rpc = "run-event"
                THEN acked \cup {<<call[c].request.client, call[c].request.sequence>>}
                ELSE acked
    /\ UNCHANGED <<signing, client, sequence, nonceCounter, begun, wire, arrived,
                   token>>

\* Any failure; of all callers only heartbeat_loop asks what kind it is.
Fail(c, failure) ==
    /\ failure.at # "transport" => call[c].request \in arrived
    /\ Moves(c, "waiting", "idle", NoRequest)
    /\ IF c = Heart
       THEN token' = (token \/ IsLeaseLost(failure)) /\ verdict' = failure
       ELSE UNCHANGED <<token, verdict>>
    /\ UNCHANGED <<signing, client, sequence, nonceCounter, begun, wire, arrived,
                   acked>>

\* execute_run returned an error: the heartbeat was joined, the calls in flight
\* are dropped where they wait, and a new client begins.
NetTakesOver ==
    /\ client = "run"
    /\ call[Task].at = "idle" /\ call[Heart].at = "idle"
    /\ \A c \in Tools : call[c].at \in {"idle", "waiting"}
    /\ client' = "net" /\ sequence' = 1 /\ nonceCounter' = 1 /\ begun' = 0
    /\ call' = [c \in Callers |-> [at |-> "idle", request |-> NoRequest]]
    /\ token' = TRUE
    /\ UNCHANGED <<signing, wire, arrived, acked, verdict>>

Next ==
    \/ \E c \in Callers :
          \/ \E rpc \in Rpcs : Begin(c, rpc)
          \/ DrawSequence(c) \/ Send(c) \/ Succeed(c)
          \/ \E failure \in Failures : Fail(c, failure)
    \/ \E request \in wire : Arrive(request)
    \/ NetTakesOver

Spec == Init /\ [][Next]_vars

-----------------------------------------------------------------------------
(* Properties *)

Sent == wire \cup arrived
EventsOf(k) == {request \in Sent : request.client = k /\ request.rpc = "run-event"}

TypeOK ==
    /\ signing \in BOOLEAN /\ client \in Clients
    /\ sequence \in Nat \ {0} /\ nonceCounter \in Nat \ {0}
    /\ begun \in 0..MaxRequests
    /\ \A c \in Callers :
          /\ call[c].at \in {"idle", "numbering", "signing", "waiting"}
          /\ call[c].at = "waiting" => call[c].request \in Sent
    /\ acked \subseteq {<<e.client, e.sequence>> : e \in arrived}
    /\ token \in BOOLEAN /\ verdict \in Failures \cup {Renewed}

\* However the events of a client arrive, their numbers put them into an order
\* that agrees with what their senders knew: numbers are distinct, and an event
\* whose arrival was known, or that the same caller sent before, has the lower
\* one (control_rpc.rs:294-296, 520-533).  Nothing of the kind holds between
\* the run's events and the net's, whose numbers begin again at 1.
EventsCanBeOrdered ==
    \A k \in Clients : \A a, b \in EventsOf(k) :
       /\ a # b => a.sequence # b.sequence
       /\ <<k, a.sequence>> \in b.after \/ (a.caller = b.caller /\ a.number < b.number)
             => a.sequence < b.sequence

\* A gap in the numbers of the events that have arrived stands for an event on
\* its way or lost, never for a number that no event was sent with, as long as
\* nobody is about to send it (control_rpc.rs:520-533).
GapsAreLosses ==
    \A n \in 1..(sequence - 1) :
       \/ \E event \in EventsOf(client) : event.sequence = n
       \/ \E c \in Callers : call[c].at = "signing" /\ call[c].request.sequence = n

\* No two signed requests of a client carry one nonce, whoever sends them and
\* in whichever order they draw (control_rpc.rs:579-583).
NoncesAreFresh ==
    \A a, b \in Sent :
       signing /\ a.client = b.client /\ a # b => a.nonce # b.nonce

\* Whatever comes late, twice drawn for or never, the numbers on what a client
\* sends can be trusted (control_rpc.rs:294-296, 520-533, 579-583).
NumbersCanBeTrusted == EventsCanBeOrdered /\ GapsAreLosses /\ NoncesAreFresh

\* "a stray "Lease lost" in an unrelated server response cannot cancel a run"
\* (control_rpc.rs:650-653): only a heartbeat that is answered 409 and told so
\* does, at once, and it always does.
CancelledByLostLeaseOnly ==
    client = "run" =>
       (token <=> /\ verdict.at = "response" /\ verdict.status = "409"
                  /\ \/ verdict.body.error \in {"lease_lost", "LEASE-LOST"}
                     \/ verdict.body.quotes)

\* "Compatibility with control planes that have not yet adopted the structured
\* `error` field" (control_rpc.rs:687-688): a 409 that has the field and names
\* another error there does not cancel the run, whatever else it says.
StructuredErrorDecides ==
    client = "run" /\ token => verdict.body.error # "another"
=============================================================================
