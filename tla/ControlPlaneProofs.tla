------------------------- MODULE ControlPlaneProofs -------------------------
(***************************************************************************)
(* Theorems about what passes between the executors and the control plane: *)
(* ControlRpc, InternalRpc and LeaseHandover, for any callers, answers,    *)
(* requests, clocks, containers and bounds.                                *)
(*                                                                         *)
(* ControlRpc: the numbers on what a client sends can be trusted, and only *)
(* a lost lease cancels a run.  A number is drawn from a counter that only *)
(* grows while its client is in use, so it is larger than all numbers that *)
(* were sent, acknowledged or drawn before.  What has to be carried along  *)
(* is where a number is between the draw and the request's way: it belongs *)
(* to a call that is pending.  The net begins with new counters, but also  *)
(* as another client, with no call pending.                                *)
(*                                                                         *)
(* InternalRpc: a rewritten request differs from the signed one in one     *)
(* field.  Either that is the signature, and everything else is as it was; *)
(* or the signature is as it was, and accepting it means that what it      *)
(* signs is what was signed.  The body is signed through its digest only.  *)
(*                                                                         *)
(* LeaseHandover: what is at work, on its way or renewed goes back to an   *)
(* execution that was begun, under the token of its lease.                 *)
(***************************************************************************)
EXTENDS ControlRpc, InternalRpc, LeaseHandover, TLAPS

-----------------------------------------------------------------------------
(* ControlRpc *)

Requests ==
    [number : Nat, client : Clients, caller : Callers, rpc : Rpcs,
     sequence : Nat, nonce : Nat, after : SUBSET (Clients \X Nat)]

Calls == [at : {"idle", "numbering", "signing", "waiting"}, request : Requests]

Pending(c) == call[c].at \in {"numbering", "signing"}

\* A call that has its number, of an event that was not sent yet.
Numbered(c) == call[c].at = "signing" /\ call[c].request.rpc = "run-event"

Typed ==
    /\ client \in Clients /\ signing \in BOOLEAN
    /\ sequence \in Nat \ {0} /\ nonceCounter \in Nat \ {0} /\ begun \in 0..MaxRequests
    /\ wire \subseteq Requests /\ arrived \subseteq Requests
    /\ call \in [Callers -> Calls]
    /\ acked \subseteq Clients \X Nat
    /\ acked \subseteq {<<e.client, e.sequence>> : e \in arrived}
    /\ token \in BOOLEAN /\ verdict \in Failures \cup {Renewed}

\* A call is about a request of its caller and of the client in use.
CallsFit ==
    \A c \in Callers : call[c].at # "idle" =>
        /\ call[c].request.caller = c /\ call[c].request.client = client
        /\ call[c].request.number \in 1..begun
        /\ call[c].at = "numbering" => call[c].request.rpc = "run-event"
        /\ call[c].request.rpc # "run-event" => call[c].request.sequence = 0
        /\ call[c].at = "waiting" => call[c].request \in Sent

\* What was sent by the client in use has been counted; the net has sent
\* nothing before it takes over.
SentFits ==
    \A a \in Sent :
        /\ a.client = "net" => client = "net"
        /\ a.client = client => a.number \in 1..begun
        /\ a.client = client /\ a.rpc = "run-event" => a.sequence \in 1..(sequence - 1)
        /\ a.client = client /\ signing => a.nonce \in 1..(nonceCounter - 1)

AckedFits ==
    \A n \in Nat :
        /\ <<client, n>> \in acked => n < sequence
        /\ client = "run" => <<"net", n>> \notin acked

\* A number is larger than those that were acknowledged before it was drawn.
AfterIsBelow(r) == \A n \in Nat : <<r.client, n>> \in r.after => n < r.sequence
KnownAreBelow ==
    /\ \A a \in Sent : a.rpc = "run-event" => AfterIsBelow(a)
    /\ \A c \in Callers : Numbered(c) => AfterIsBelow(call[c].request)

\* What is about to be sent is newer than what its caller has sent, and has a
\* number of its own.
PendingAreNew ==
    \A c \in Callers :
        /\ Pending(c) => \A a \in Sent :
              a.client = client /\ a.caller = c => a.number < call[c].request.number
        /\ Numbered(c) =>
              /\ call[c].request.sequence \in 1..(sequence - 1)
              /\ \A a \in Sent : a.client = client /\ a.rpc = "run-event" =>
                    /\ a.sequence # call[c].request.sequence
                    /\ a.caller = c => a.sequence < call[c].request.sequence
              /\ \A d \in Callers \ {c} :
                    Numbered(d) => call[d].request.sequence # call[c].request.sequence

\* After the token was cancelled the heartbeat is over.
HeartIsQuiet == client = "run" /\ token => call[Heart].at = "idle"

Numbers == /\ SentFits /\ AckedFits /\ KnownAreBelow /\ PendingAreNew
           /\ EventsCanBeOrdered /\ GapsAreLosses /\ NoncesAreFresh

RpcInv == Typed /\ CallsFit /\ Numbers /\ HeartIsQuiet /\ CancelledByLostLeaseOnly

-----------------------------------------------------------------------------
LEMMA CallersThere == Task \in Callers /\ Heart \in Callers /\ Task # Heart
BY CallersAssumption DEF Callers

LEMMA NoRequestIsARequest == NoRequest \in Requests
BY CallersThere DEF NoRequest, Requests, Clients, Rpcs

\* What makes a failure a lost lease.
LEMMA LostLeaseIs409 ==
    ASSUME NEW failure \in Failures
    PROVE  IsLeaseLost(failure) <=>
             /\ failure.at = "response" /\ failure.status = "409"
             /\ \/ failure.body.error \in {"lease_lost", "LEASE-LOST"}
                \/ failure.body.quotes
<1>1. CASE failure.at = "transport"
  BY <1>1 DEF IsLeaseLost, KindOf
<1>2. CASE failure.at = "reading"
  BY <1>2 DEF IsLeaseLost, KindOf
<1>3. CASE failure.at = "response" /\ failure.status = "200"
  BY <1>3 DEF IsLeaseLost, KindOf
<1>4. CASE failure.at = "response" /\ failure.status # "200"
  <2>1. KindOf(failure) = FromResponse(failure.status, failure.body)
    BY <1>4 DEF KindOf
  <2> QED BY <1>4, <2>1 DEF IsLeaseLost, FromResponse
<1> QED BY <1>1, <1>2, <1>3, <1>4 DEF Failures

\* A move changes the call of one caller.
LEMMA MoveOfOne ==
    ASSUME Typed, NEW c \in Callers, NEW from, NEW to, NEW req,
           Moves(c, from, to, req)
    PROVE  /\ call[c].at = from
           /\ call'[c] = [at |-> to, request |-> req]
           /\ \A d \in Callers \ {c} : call'[d] = call[d]
BY DEF Typed, Moves
-----------------------------------------------------------------------------
(* Steps *)

LEMMA InitIsFine == Init => RpcInv
<1> SUFFICES ASSUME Init PROVE RpcInv
  OBVIOUS
<1>1. Typed
  <2>1. call \in [Callers -> Calls]
    BY NoRequestIsARequest DEF Init, Calls
  <2>2. begun \in 0..MaxRequests
    BY BoundsAssumption DEF Init
  <2>3. token \in BOOLEAN /\ verdict \in Failures \cup {Renewed}
    BY DEF Init
  <2>4. /\ wire \subseteq Requests /\ arrived \subseteq Requests
        /\ acked \subseteq Clients \X Nat
        /\ acked \subseteq {<<e.client, e.sequence>> : e \in arrived}
    BY DEF Init
  <2>5. /\ client \in Clients /\ signing \in BOOLEAN
        /\ sequence \in Nat \ {0} /\ nonceCounter \in Nat \ {0}
    BY DEF Init, Clients
  <2> QED BY <2>1, <2>2, <2>3, <2>4, <2>5 DEF Typed
<1>2. Sent = {} /\ \A c \in Callers : call[c].at = "idle"
  BY DEF Init, Sent
<1>3. CallsFit /\ HeartIsQuiet
  BY <1>2, CallersThere DEF CallsFit, HeartIsQuiet
<1>4. Numbers
  BY <1>2 DEF Init, Numbers, SentFits, AckedFits, KnownAreBelow, PendingAreNew,
     Pending, Numbered, EventsCanBeOrdered, EventsOf, GapsAreLosses, NoncesAreFresh
<1>5. CancelledByLostLeaseOnly
  BY DEF Init, CancelledByLostLeaseOnly, Renewed
<1> QED BY <1>1, <1>3, <1>4, <1>5 DEF RpcInv

LEMMA BeginKeepsRpcInv ==
    ASSUME RpcInv, NEW c \in Callers, NEW rpc \in Rpcs, Begin(c, rpc)
    PROVE  RpcInv'
<1> DEFINE to == IF rpc = "run-event" THEN "numbering" ELSE "signing"
           req == [number |-> begun', client |-> client, caller |-> c, rpc |-> rpc,
                       sequence |-> 0, nonce |-> 0, after |-> {}]
<1> USE DEF RpcInv
<1>1. Moves(c, "idle", to, req) /\ begun' = begun + 1 /\ begun' \in 0..MaxRequests
  BY BoundsAssumption DEF Begin, Typed, Clients
<1>2. /\ req \in Requests /\ req.number = begun + 1
      /\ req.client = client /\ req.caller = c /\ req.rpc = rpc
      /\ req.sequence = 0
  <2>1. begun' \in Nat /\ client \in Clients
    BY <1>1, BoundsAssumption DEF Typed
  <2> QED BY <2>1, <1>1 DEF Requests
<1> HIDE DEF req
<1>3. /\ call[c].at = "idle" /\ call'[c] = [at |-> to, request |-> req]
      /\ \A d \in Callers \ {c} : call'[d] = call[d]
  BY <1>1, MoveOfOne
<1>4. Sent' = Sent
  BY DEF Begin, Sent
<1>5. Typed'
  <2>1. call' \in [Callers -> Calls]
    BY <1>1, <1>2 DEF Typed, Moves, Calls
  <2>2. UNCHANGED <<signing, client, sequence, nonceCounter, wire, arrived, acked,
                    token, verdict>>
    BY DEF Begin
  <2> QED BY <2>1, <2>2, <1>1 DEF Typed
<1>6. CallsFit'
  BY <1>1, <1>2, <1>3, <1>4 DEF Begin, CallsFit, Typed
<1>7. SentFits' /\ AckedFits'
  BY <1>1, <1>4 DEF Begin, Numbers, SentFits, AckedFits, Typed
<1>8. \A d \in Callers : Numbered(d)' => d # c /\ Numbered(d)
  BY <1>2, <1>3 DEF Numbered
<1>9. KnownAreBelow'
  BY <1>3, <1>4, <1>8 DEF Numbers, KnownAreBelow, AfterIsBelow
<1>10. PendingAreNew'
  BY <1>1, <1>2, <1>3, <1>4, <1>8 DEF Begin, Numbers, PendingAreNew, Pending,
     SentFits, Typed
<1>11. EventsCanBeOrdered' /\ NoncesAreFresh'
  BY <1>4 DEF Begin, Numbers, EventsCanBeOrdered, EventsOf, NoncesAreFresh
<1>12. GapsAreLosses'
  BY <1>3, <1>4 DEF Begin, Numbers, GapsAreLosses, EventsOf
<1>13. HeartIsQuiet' /\ CancelledByLostLeaseOnly'
  BY <1>3, CallersThere DEF Begin, MaySend, HeartIsQuiet, CancelledByLostLeaseOnly
<1> QED BY <1>5, <1>6, <1>7, <1>9, <1>10, <1>11, <1>12, <1>13 DEF Numbers

LEMMA DrawKeepsRpcInv ==
    ASSUME RpcInv, NEW c \in Callers, DrawSequence(c)
    PROVE  RpcInv'
<1> DEFINE req == [call[c].request EXCEPT !.sequence = sequence, !.after = acked]
<1> USE DEF RpcInv
<1>1. Moves(c, "numbering", "signing", req) /\ sequence' = sequence + 1
  BY DEF DrawSequence
<1>2. /\ call[c].at = "numbering" /\ call'[c] = [at |-> "signing", request |-> req]
      /\ \A d \in Callers \ {c} : call'[d] = call[d]
  BY <1>1, MoveOfOne
<1>3. /\ req \in Requests
      /\ req.number = call[c].request.number /\ req.number \in 1..begun
      /\ req.client = client /\ req.caller = c /\ req.rpc = "run-event"
      /\ req.sequence = sequence /\ req.after = acked
  <2>1. call[c].request \in Requests
    BY DEF Typed, Calls
  <2>2. sequence \in Nat /\ acked \in SUBSET (Clients \X Nat)
    BY DEF Typed
  <2>3. /\ call[c].request.number \in 1..begun /\ call[c].request.client = client
        /\ call[c].request.caller = c /\ call[c].request.rpc = "run-event"
    BY <1>2 DEF CallsFit
  <2> QED BY <2>1, <2>2, <2>3 DEF Requests
<1> HIDE DEF req
<1>4. Sent' = Sent
  BY DEF DrawSequence, Sent
<1>5. Typed'
  BY <1>1, <1>3 DEF DrawSequence, Typed, Moves, Calls
<1>6. CallsFit'
  BY <1>2, <1>3, <1>4 DEF DrawSequence, CallsFit
<1>7. SentFits' /\ AckedFits'
  BY <1>4 DEF DrawSequence, Numbers, SentFits, AckedFits, Typed
<1>8. Numbered(c)' /\ \A d \in Callers \ {c} : Numbered(d)' <=> Numbered(d)
  BY <1>2, <1>3 DEF Numbered
<1>9. KnownAreBelow'
  <2>1. AfterIsBelow(call'[c].request)
    <3>1. call'[c].request = req
      BY <1>2
    <3>2. AfterIsBelow(req)
      BY <1>3 DEF AfterIsBelow, Numbers, AckedFits
    <3> QED BY <3>1, <3>2 DEF AfterIsBelow
  <2> QED BY <2>1, <1>2, <1>4, <1>8 DEF Numbers, KnownAreBelow, AfterIsBelow
<1>10. PendingAreNew'
  <2>1. \A a \in Sent : a.client = client /\ a.caller = c => a.number < req.number
    BY <1>2, <1>3 DEF Numbers, PendingAreNew, Pending
  <2>2. \A a \in Sent : a.client = client /\ a.rpc = "run-event" => a.sequence < sequence
    BY DEF Numbers, SentFits, Typed
  <2>3. \A d \in Callers : Numbered(d) => call[d].request.sequence < sequence
    BY DEF Numbers, PendingAreNew, Typed
  <2>4. client' = client
    BY DEF DrawSequence
  <2>5. ASSUME NEW d \in Callers, Pending(d)', NEW a \in Sent,
               a.client = client, a.caller = d
        PROVE  a.number < call'[d].request.number
    BY <2>1, <2>5, <1>2 DEF Numbers, PendingAreNew, Pending
  <2>6. ASSUME NEW d \in Callers, Numbered(d)'
        PROVE  call'[d].request.sequence \in 1..(sequence' - 1)
    BY <2>6, <1>1, <1>2, <1>3, <1>8 DEF Numbers, PendingAreNew, Typed
  <2>7. ASSUME NEW d \in Callers, Numbered(d)', NEW a \in Sent,
               a.client = client, a.rpc = "run-event"
        PROVE  /\ a.sequence # call'[d].request.sequence
               /\ a.caller = d => a.sequence < call'[d].request.sequence
    <3>1. a.sequence \in Nat BY DEF Sent, Typed, Requests
    <3> QED BY <3>1, <2>2, <2>7, <1>2, <1>3, <1>8 DEF Numbers, PendingAreNew, Typed
  <2>8. ASSUME NEW d \in Callers, Numbered(d)', NEW e \in Callers \ {d}, Numbered(e)'
        PROVE  call'[e].request.sequence # call'[d].request.sequence
    <3>1. \A f \in Callers \ {c} : Numbered(f) =>
             call'[f].request.sequence \in Nat /\ call'[f].request.sequence < sequence
      BY <2>3, <1>2 DEF Typed, Calls, Requests
    <3> QED BY <2>8, <3>1, <1>2, <1>3, <1>8 DEF Numbers, PendingAreNew, Typed
  <2> QED BY <2>4, <2>5, <2>6, <2>7, <2>8, <1>4 DEF PendingAreNew
<1>11. EventsCanBeOrdered' /\ NoncesAreFresh'
  BY <1>4 DEF DrawSequence, Numbers, EventsCanBeOrdered, EventsOf, NoncesAreFresh
<1>12. GapsAreLosses'
  <2>1. ASSUME NEW n \in 1..(sequence' - 1), n # sequence
        PROVE  n \in 1..(sequence - 1)
    BY <2>1, <1>1 DEF Typed
  <2>2. \A d \in Callers : call[d].at = "signing" => call'[d] = call[d]
    BY <1>2
  <2>3. EventsOf(client)' = EventsOf(client)
    BY <1>4 DEF DrawSequence, EventsOf
  <2> QED BY <2>1, <2>2, <2>3, <1>2, <1>3 DEF Numbers, GapsAreLosses
<1>13. HeartIsQuiet' /\ CancelledByLostLeaseOnly'
  BY <1>2, CallersThere DEF DrawSequence, HeartIsQuiet, CancelledByLostLeaseOnly
<1> QED BY <1>5, <1>6, <1>7, <1>9, <1>10, <1>11, <1>12, <1>13 DEF Numbers
LEMMA SendKeepsRpcInv ==
    ASSUME RpcInv, NEW c \in Callers, Send(c)
    PROVE  RpcInv'
<1> DEFINE req == [call[c].request EXCEPT !.nonce = IF signing THEN nonceCounter ELSE 0]
           old == call[c].request
<1> USE DEF RpcInv
<1>1. /\ Moves(c, "signing", "waiting", req) /\ wire' = wire \cup {req}
      /\ nonceCounter' = (IF signing THEN nonceCounter + 1 ELSE nonceCounter)
  BY DEF Send
<1>2. /\ call[c].at = "signing" /\ call'[c] = [at |-> "waiting", request |-> req]
      /\ \A d \in Callers \ {c} : call'[d] = call[d]
  BY <1>1, MoveOfOne
<1>3. /\ req \in Requests
      /\ req.number = old.number /\ req.number \in 1..begun
      /\ req.client = client /\ req.caller = c /\ req.rpc = old.rpc
      /\ req.sequence = old.sequence /\ req.after = old.after
      /\ req.nonce = (IF signing THEN nonceCounter ELSE 0)
      /\ req.rpc # "run-event" => req.sequence = 0
  <2>1. call[c].request \in Requests
    BY DEF Typed, Calls
  <2>2. (IF signing THEN nonceCounter ELSE 0) \in Nat
    BY DEF Typed
  <2>3. /\ call[c].request.number \in 1..begun /\ call[c].request.client = client
        /\ call[c].request.caller = c
        /\ call[c].request.rpc # "run-event" => call[c].request.sequence = 0
    BY <1>2 DEF CallsFit
  <2> QED BY <2>1, <2>2, <2>3 DEF Requests
<1> HIDE DEF req
<1>4. Sent' = Sent \cup {req} /\ req \in Sent'
  BY <1>1 DEF Send, Sent
<1>5. UNCHANGED <<signing, client, sequence, begun, arrived, acked, token, verdict>>
  BY DEF Send
<1>6. Typed'
  BY <1>1, <1>3, <1>5 DEF Typed, Moves, Calls
<1>7. CallsFit'
  BY <1>2, <1>3, <1>4, <1>5 DEF CallsFit
<1>8. req.rpc = "run-event" =>
         /\ Numbered(c) /\ req.sequence \in 1..(sequence - 1)
         /\ AfterIsBelow(req)
  <2> HAVE req.rpc = "run-event"
  <2>1. Numbered(c)
    BY <1>2, <1>3 DEF Numbered
  <2>2. AfterIsBelow(old)
    BY <2>1 DEF Numbers, KnownAreBelow
  <2>3. old.client = client
    BY <1>2 DEF CallsFit
  <2>4. AfterIsBelow(req)
    BY <2>2, <2>3, <1>3 DEF AfterIsBelow
  <2> QED BY <2>1, <2>4, <1>3 DEF Numbers, PendingAreNew
<1>9. SentFits'
  <2>1. ASSUME NEW a \in Sent PROVE a.nonce \in 1..(nonceCounter - 1)
                                     => a.nonce \in 1..(nonceCounter' - 1)
    BY <1>1 DEF Typed
  <2>2. signing => req.nonce \in 1..(nonceCounter' - 1)
    BY <1>1, <1>3 DEF Typed
  <2> QED BY <2>1, <2>2, <1>3, <1>4, <1>5, <1>8 DEF Numbers, SentFits
<1>10. AckedFits'
  BY <1>5 DEF Numbers, AckedFits
<1>11. ~Pending(c)' /\ \A d \in Callers \ {c} :
         (Numbered(d)' <=> Numbered(d)) /\ (Pending(d)' <=> Pending(d))
  BY <1>2 DEF Numbered, Pending
<1>12. ~Numbered(c)'
  BY <1>2 DEF Numbered
<1>13. KnownAreBelow'
  BY <1>2, <1>4, <1>8, <1>11, <1>12 DEF Numbers, KnownAreBelow, AfterIsBelow
<1>14. PendingAreNew'
  <2>1. ASSUME NEW d \in Callers \ {c}, Numbered(d), req.rpc = "run-event"
        PROVE  req.sequence # call[d].request.sequence
    BY <2>1, <1>3, <1>8 DEF Numbers, PendingAreNew
  <2> QED BY <2>1, <1>2, <1>3, <1>4, <1>5, <1>11, <1>12 DEF Numbers, PendingAreNew
<1>15. EventsCanBeOrdered'
  <2> DEFINE Fine(a, b) ==
        /\ a # b => a.sequence # b.sequence
        /\ (<<a.client, a.sequence>> \in b.after \/ (a.caller = b.caller /\ a.number < b.number))
              => a.sequence < b.sequence
      Event(a, k) == a.client = k /\ a.rpc = "run-event"
  <2> SUFFICES ASSUME NEW k \in Clients, NEW a \in Sent', Event(a, k),
                      NEW b \in Sent', Event(b, k)
               PROVE  Fine(a, b)
    BY DEF EventsCanBeOrdered, EventsOf
  <2>1. CASE a \in Sent /\ b \in Sent
    BY <2>1 DEF Numbers, EventsCanBeOrdered, EventsOf
  <2>2. a.sequence \in Nat /\ b.sequence \in Nat /\ a.number \in Nat /\ b.number \in Nat
    BY <1>3, <1>4 DEF Sent, Typed, Requests
  <2>3. AfterIsBelow(b)
    BY <1>4, <1>8 DEF Numbers, KnownAreBelow
  <2>4. <<a.client, a.sequence>> \in b.after => a.sequence < b.sequence
    BY <2>2, <2>3 DEF AfterIsBelow
  <2>5. \A e \in Sent : Event(e, client) /\ req.rpc = "run-event" =>
           /\ e.sequence # req.sequence
           /\ e.caller = c => e.sequence < req.sequence /\ e.number < req.number
    BY <1>2, <1>3, <1>8 DEF Numbers, PendingAreNew, Pending
  <2>6. CASE a = req /\ b = req
    BY <2>2, <2>4, <2>6
  <2>7. CASE a \in Sent /\ b = req
    BY <2>2, <2>4, <2>5, <2>7, <1>3
  <2>8. CASE a = req /\ b \in Sent
    BY <2>2, <2>4, <2>5, <2>8, <1>3
  <2> QED BY <2>1, <2>6, <2>7, <2>8, <1>4
<1>16. NoncesAreFresh'
  <2>1. signing => \A a \in Sent : a.client = client => a.nonce # req.nonce
    BY <1>3 DEF Numbers, SentFits, Typed
  <2> QED BY <2>1, <1>3, <1>4, <1>5 DEF Numbers, NoncesAreFresh
<1>17. GapsAreLosses'
  <2> SUFFICES ASSUME NEW n \in 1..(sequence - 1)
               PROVE  \/ \E event \in EventsOf(client)' : event.sequence = n
                      \/ \E d \in Callers :
                            call'[d].at = "signing" /\ call'[d].request.sequence = n
    BY <1>5 DEF GapsAreLosses
  <2>1. CASE \E event \in EventsOf(client) : event.sequence = n
    BY <2>1, <1>4, <1>5 DEF EventsOf
  <2>2. CASE call[c].at = "signing" /\ call[c].request.sequence = n
    <3>1. req.rpc = "run-event" /\ req.sequence = n
      BY <2>2, <1>3
    <3> QED BY <3>1, <1>3, <1>4, <1>5 DEF EventsOf
  <2>3. CASE \E d \in Callers \ {c} : call[d].at = "signing" /\ call[d].request.sequence = n
    BY <2>3, <1>2
  <2> QED BY <2>1, <2>2, <2>3 DEF Numbers, GapsAreLosses
<1>18. HeartIsQuiet' /\ CancelledByLostLeaseOnly'
  BY <1>2, <1>5, CallersThere DEF HeartIsQuiet, CancelledByLostLeaseOnly
<1> QED BY <1>6, <1>7, <1>9, <1>10, <1>13, <1>14, <1>15, <1>16, <1>17, <1>18
        DEF Numbers

\* What a step that neither draws, counts nor sends leaves as it is.
LEMMA SentAloneKeepsNumbers ==
    ASSUME RpcInv, Sent' = Sent,
           UNCHANGED <<signing, client, sequence, nonceCounter, begun>>,
           AckedFits', call' \in [Callers -> Calls],
           \A d \in Callers : call'[d] = call[d] \/ (call[d].at = "waiting" /\ call'[d].at = "idle")
    PROVE  Numbers'
<1> USE DEF RpcInv, Numbers
<1>1. \A d \in Callers : Pending(d) \/ Pending(d)' => call'[d] = call[d]
  BY DEF Pending
<1>2. \A d \in Callers : (Pending(d)' <=> Pending(d)) /\ (Numbered(d)' <=> Numbered(d))
  BY DEF Pending, Numbered
<1>3. SentFits' /\ EventsCanBeOrdered' /\ NoncesAreFresh'
  BY DEF SentFits, EventsCanBeOrdered, EventsOf, NoncesAreFresh
<1>4. KnownAreBelow' /\ PendingAreNew'
  BY <1>1, <1>2 DEF KnownAreBelow, AfterIsBelow, PendingAreNew, Pending, Numbered
<1>5. GapsAreLosses'
  <2>1. \A d \in Callers : call[d].at = "signing" => call'[d] = call[d]
    OBVIOUS
  <2>2. EventsOf(client)' = EventsOf(client)
    BY DEF EventsOf
  <2> QED BY <2>1, <2>2 DEF GapsAreLosses
<1> QED BY <1>3, <1>4, <1>5

LEMMA ArriveKeepsRpcInv ==
    ASSUME RpcInv, NEW req \in wire, Arrive(req)
    PROVE  RpcInv'
<1> USE DEF RpcInv
<1>1. Sent' = Sent
  BY DEF Arrive, Sent
<1>2. Typed'
  BY DEF Arrive, Typed
<1>3. AckedFits'
  BY DEF Arrive, Numbers, AckedFits
<1>4. CallsFit' /\ HeartIsQuiet' /\ CancelledByLostLeaseOnly'
  BY <1>1 DEF Arrive, CallsFit, HeartIsQuiet, CancelledByLostLeaseOnly
<1>5. Numbers'
  BY <1>1, <1>3, SentAloneKeepsNumbers DEF Arrive, Typed
<1> QED BY <1>2, <1>4, <1>5

LEMMA SucceedKeepsRpcInv ==
    ASSUME RpcInv, NEW c \in Callers, Succeed(c)
    PROVE  RpcInv'
<1> USE DEF RpcInv
<1>1. Moves(c, "waiting", "idle", NoRequest)
  BY DEF Succeed
<1>2. /\ call[c].at = "waiting" /\ call'[c] = [at |-> "idle", request |-> NoRequest]
      /\ \A d \in Callers \ {c} : call'[d] = call[d]
  BY <1>1, MoveOfOne
<1>3. call' \in [Callers -> Calls]
  BY <1>1, NoRequestIsARequest DEF Moves, Typed, Calls
<1>4. Sent' = Sent
  BY DEF Succeed, Sent
<1>5. /\ call[c].request \in arrived /\ call[c].request \in Sent
      /\ call[c].request \in Requests /\ call[c].request.client = client
  BY <1>2 DEF Succeed, Sent, Typed, CallsFit
<1>6. Typed'
  <2>1. acked' \subseteq Clients \X Nat
    BY <1>5 DEF Succeed, Typed, Requests
  <2>2. acked' \subseteq {<<e.client, e.sequence>> : e \in arrived}
    BY <1>5 DEF Succeed, Typed
  <2> QED BY <2>1, <2>2, <1>3 DEF Succeed, Typed
<1>7. CallsFit'
  BY <1>2, <1>4 DEF Succeed, CallsFit
<1>8. AckedFits'
  <2>1. call[c].request.rpc = "run-event" => call[c].request.sequence < sequence
    BY <1>5 DEF Numbers, SentFits, Typed
  <2> QED BY <2>1, <1>5 DEF Succeed, Numbers, AckedFits, Typed
<1>9. Numbers'
  BY <1>2, <1>3, <1>4, <1>8, SentAloneKeepsNumbers DEF Succeed
<1>10. HeartIsQuiet'
  BY <1>2, CallersThere DEF Succeed, HeartIsQuiet
<1>11. CancelledByLostLeaseOnly'
  BY <1>2 DEF Succeed, CancelledByLostLeaseOnly, HeartIsQuiet, Renewed
<1> QED BY <1>6, <1>7, <1>9, <1>10, <1>11

LEMMA FailKeepsRpcInv ==
    ASSUME RpcInv, NEW c \in Callers, NEW failure \in Failures, Fail(c, failure)
    PROVE  RpcInv'
<1> USE DEF RpcInv
<1>1. Moves(c, "waiting", "idle", NoRequest)
  BY DEF Fail
<1>2. /\ call[c].at = "waiting" /\ call'[c] = [at |-> "idle", request |-> NoRequest]
      /\ \A d \in Callers \ {c} : call'[d] = call[d]
  BY <1>1, MoveOfOne
<1>3. call' \in [Callers -> Calls]
  BY <1>1, NoRequestIsARequest DEF Moves, Typed, Calls
<1>4. Sent' = Sent
  BY DEF Fail, Sent
<1>5. Typed'
  <2>1. token' \in BOOLEAN
    BY DEF Fail, Typed, IsLeaseLost
  <2> QED BY <2>1, <1>3 DEF Fail, Typed
<1>6. CallsFit'
  BY <1>2, <1>4 DEF Fail, CallsFit
<1>7. AckedFits'
  BY DEF Fail, Numbers, AckedFits
<1>8. Numbers'
  <2>1. UNCHANGED <<signing, client, sequence, nonceCounter, begun>>
    BY DEF Fail
  <2> QED BY <2>1, <1>2, <1>3, <1>4, <1>7, SentAloneKeepsNumbers
<1>9. HeartIsQuiet'
  <2>1. CASE c = Heart
    BY <2>1, <1>2 DEF HeartIsQuiet
  <2>2. CASE c # Heart
    <3>1. token' = token /\ client' = client /\ call'[Heart] = call[Heart]
      BY <2>2, <1>2, CallersThere DEF Fail
    <3> QED BY <3>1 DEF HeartIsQuiet
  <2> QED BY <2>1, <2>2
<1>10. CancelledByLostLeaseOnly'
  <2>1. CASE c # Heart
    BY <2>1 DEF Fail, CancelledByLostLeaseOnly
  <2>2. CASE c = Heart
    <3>1. client = "run" => ~token
      BY <2>2, <1>2 DEF HeartIsQuiet
    <3>2. /\ token' = (token \/ IsLeaseLost(failure)) /\ verdict' = failure
          /\ client' = client
      BY <2>2 DEF Fail
    <3> QED BY <3>1, <3>2, LostLeaseIs409 DEF CancelledByLostLeaseOnly
  <2> QED BY <2>1, <2>2
<1> QED BY <1>5, <1>6, <1>8, <1>9, <1>10

LEMMA NetTakesOverKeepsRpcInv ==
    ASSUME RpcInv, NetTakesOver
    PROVE  RpcInv'
<1> USE DEF RpcInv
<1>1. Sent' = Sent /\ client = "run" /\ client' = "net"
  BY DEF NetTakesOver, Sent
<1>2. \A c \in Callers : call'[c].at = "idle"
  BY DEF NetTakesOver
<1>3. Typed'
  <2>1. call' \in [Callers -> Calls]
    BY NoRequestIsARequest DEF NetTakesOver, Calls
  <2>2. begun' \in 0..MaxRequests
    BY BoundsAssumption DEF NetTakesOver
  <2> QED BY <2>1, <2>2 DEF NetTakesOver, Typed, Clients
<1>4. CallsFit' /\ HeartIsQuiet' /\ CancelledByLostLeaseOnly'
  BY <1>1, <1>2 DEF CallsFit, HeartIsQuiet, CancelledByLostLeaseOnly
<1>5. \A a \in Sent : a.client # "net"
  BY <1>1 DEF Numbers, SentFits
<1>6. SentFits' /\ AckedFits'
  BY <1>1, <1>5 DEF NetTakesOver, Numbers, SentFits, AckedFits
<1>7. KnownAreBelow' /\ PendingAreNew'
  BY <1>1, <1>2 DEF Numbers, KnownAreBelow, AfterIsBelow, PendingAreNew, Pending,
     Numbered
<1>8. EventsCanBeOrdered' /\ NoncesAreFresh'
  BY <1>1 DEF NetTakesOver, Numbers, EventsCanBeOrdered, EventsOf, NoncesAreFresh
<1>9. GapsAreLosses'
  BY DEF NetTakesOver, GapsAreLosses
<1> QED BY <1>3, <1>4, <1>6, <1>7, <1>8, <1>9 DEF Numbers

-----------------------------------------------------------------------------
(* Theorems *)

\* The strengthened invariant holds in every behaviour (control_rpc.rs:294-610,
\* main.rs:319-325, 658-677).
THEOREM RpcInductive == Spec => []RpcInv
<1>1. Init => RpcInv
  BY InitIsFine
<1>2. RpcInv /\ [Next]_vars => RpcInv'
  <2> SUFFICES ASSUME RpcInv, [Next]_vars PROVE RpcInv'
    OBVIOUS
  <2>1. CASE UNCHANGED vars
    BY <2>1 DEF vars, RpcInv, Typed, CallsFit, Numbers, SentFits, AckedFits,
       KnownAreBelow,
       AfterIsBelow, PendingAreNew, Pending, Numbered, EventsCanBeOrdered, EventsOf,
       GapsAreLosses, NoncesAreFresh, HeartIsQuiet, CancelledByLostLeaseOnly, Sent
  <2>2. CASE Next
    BY <2>2, BeginKeepsRpcInv, DrawKeepsRpcInv, SendKeepsRpcInv, ArriveKeepsRpcInv,
       SucceedKeepsRpcInv, FailKeepsRpcInv, NetTakesOverKeepsRpcInv DEF Next
  <2> QED BY <2>1, <2>2
<1> QED BY <1>1, <1>2, PTL DEF Spec

\* Type correctness: an event known of has arrived, what is waited for was sent.
THEOREM RpcTypeCorrect == Spec => []TypeOK
<1>1. RpcInv => TypeOK
  BY DEF RpcInv, Typed, CallsFit, Calls, TypeOK
<1> QED BY <1>1, RpcInductive, PTL

\* The numbers on what a client sends can be trusted, however many tasks share
\* its counters (control_rpc.rs:294-296, 520-533, 579-583).
THEOREM NumbersAreTrusted == Spec => []NumbersCanBeTrusted
<1>1. RpcInv => NumbersCanBeTrusted
  BY DEF RpcInv, Numbers, NumbersCanBeTrusted
<1> QED BY <1>1, RpcInductive, PTL

\* Only the answer of a lost lease to a heartbeat cancels a run, and it always
\* does (control_rpc.rs:650-700, main.rs:667-677).
THEOREM LostLeaseCancels == Spec => []CancelledByLostLeaseOnly
<1>1. RpcInv => CancelledByLostLeaseOnly
  BY DEF RpcInv
<1> QED BY <1>1, RpcInductive, PTL

-----------------------------------------------------------------------------
(* InternalRpc *)

\* On its way a request keeps all fields but at most one.
Travelled ==
    \/ request = Sign(input)
    \/ \E other \in Inputs, field \in DOMAIN Sign(input) :
          request = [Sign(input) EXCEPT ![field] = Sign(other)[field]]

\* What the receiver makes of it.
Judged ==
    stage = "verified" =>
        verified = IF Accepts(receiver, request, now) THEN {Envelope(request)} ELSE {}

EnvelopeInv ==
    /\ input \in Inputs /\ now \in Int /\ Travelled /\ Judged
    /\ stage \in {"signed", "rewritten", "verified"}
    /\ stage = "signed" => request = Sign(input)

-----------------------------------------------------------------------------
(* What a signed request is *)

Fields == {"version", "method", "path", "query", "body", "digest", "actor", "nonce",
           "requestId", "timestamp", "caller", "audience", "capabilities", "signature"}

LEMMA SignedFields ==
    ASSUME NEW i
    PROVE  /\ DOMAIN Sign(i) = Fields
           /\ Sign(i).version = Version /\ Sign(i).method = i.method
           /\ Sign(i).path = i.path /\ Sign(i).query = i.query
           /\ Sign(i).body = i.body /\ Sign(i).digest = i.body
           /\ Sign(i).actor = i.actor /\ Sign(i).timestamp = i.timestamp
           /\ Sign(i).requestId = (IF i.requestId = "none" THEN i.actor.requestId
                                   ELSE i.requestId)
           /\ Sign(i).caller = i.caller /\ Sign(i).audience = i.audience
           /\ Sign(i).capabilities = NormalizeCapabilities(i.capabilities)
BY DEF Sign, Fields

LEMMA SignatureIsOfFields ==
    ASSUME NEW i
    PROVE  Sign(i).signature = HmacSha256(i.secret, Canonical(Sign(i)))
BY DEF Sign, Canonical

\* A signature tells requests apart by all it is computed from.
LEMMA SignatureTells ==
    ASSUME NEW r, NEW s, NEW k, NEW l,
           HmacSha256(k, Canonical(r)) = HmacSha256(l, Canonical(s))
    PROVE  /\ Envelope(r) = Envelope(s) /\ r.digest = s.digest
           /\ PathWithQuery(r.path, r.query) = PathWithQuery(s.path, s.query)
<1>1. Canonical(r) = Canonical(s)
  BY DEF HmacSha256
<1> HIDE DEF HmacSha256
<1>2. /\ r.timestamp = s.timestamp /\ r.requestId = s.requestId /\ r.nonce = s.nonce
      /\ r.caller = s.caller /\ r.audience = s.audience
      /\ r.capabilities = s.capabilities /\ r.digest = s.digest /\ r.actor = s.actor
      /\ PathWithQuery(r.path, r.query) = PathWithQuery(s.path, s.query)
  BY <1>1 DEF Canonical
<1> QED BY <1>2 DEF Envelope

LEMMA AcceptedMeansSigned ==
    ASSUME NEW i \in Inputs, NEW other \in Inputs, NEW field \in DOMAIN Sign(i), NEW r,
           r = Sign(i) \/ r = [Sign(i) EXCEPT ![field] = Sign(other)[field]],
           NEW policy, NEW clock, Accepts(policy, r, clock)
    PROVE  /\ Envelope(r) = Envelope(Sign(i)) /\ r.body = i.body
           /\ PathWithQuery(r.path, r.query) = PathWithQuery(i.path, i.query)
<1>1. \A f \in Fields : f = field \/ r[f] = Sign(i)[f]
  BY SignedFields
<1>2. r.digest = r.body /\ r.signature = HmacSha256(policy.secret, Canonical(r))
  BY DEF Accepts
<1>3. CASE field = "signature"
  <2>1. /\ r.actor = Sign(i).actor /\ r.caller = Sign(i).caller
        /\ r.audience = Sign(i).audience /\ r.capabilities = Sign(i).capabilities
        /\ r.requestId = Sign(i).requestId /\ r.nonce = Sign(i).nonce
        /\ r.timestamp = Sign(i).timestamp /\ r.body = Sign(i).body
        /\ r.path = Sign(i).path /\ r.query = Sign(i).query
    BY <1>1, <1>3 DEF Fields
  <2> QED BY <2>1, SignedFields DEF Envelope
<1>4. CASE field # "signature"
  <2>1. r.signature = Sign(i).signature
    BY <1>1, <1>4 DEF Fields
  <2>2. HmacSha256(policy.secret, Canonical(r)) = HmacSha256(i.secret, Canonical(Sign(i)))
    BY <1>2, <2>1, SignatureIsOfFields
  <2>3. /\ Envelope(r) = Envelope(Sign(i)) /\ r.digest = Sign(i).digest
        /\ PathWithQuery(r.path, r.query) = PathWithQuery(Sign(i).path, Sign(i).query)
    BY <2>2, SignatureTells
  <2> QED BY <1>2, <2>3, SignedFields
<1> QED BY <1>3, <1>4

-----------------------------------------------------------------------------
(* Theorems *)

\* On its way a request keeps all but one of its fields, and is judged as it
\* arrives (internal_rpc.rs:124-209).
THEOREM EnvelopeInductive == EnvelopeSpec => []EnvelopeInv
<1>1. EnvelopeInit => EnvelopeInv
  BY TimestampsAssumption, SkewAssumption DEF EnvelopeInit, EnvelopeInv, Travelled,
     Judged
<1>2. EnvelopeInv /\ [EnvelopeNext]_envelopeVars => EnvelopeInv'
  <2> SUFFICES ASSUME EnvelopeInv, [EnvelopeNext]_envelopeVars PROVE EnvelopeInv'
    OBVIOUS
  <2>1. CASE UNCHANGED envelopeVars
    BY <2>1 DEF envelopeVars, EnvelopeInv, Travelled, Judged
  <2>2. CASE Rewrite
    BY <2>2 DEF Rewrite, EnvelopeInv, Travelled, Judged
  <2>3. CASE Verify
    BY <2>3 DEF Verify, EnvelopeInv, Travelled, Judged
  <2> QED BY <2>1, <2>2, <2>3 DEF EnvelopeNext
<1> QED BY <1>1, <1>2, PTL DEF EnvelopeSpec

\* What an accepted request says is what its sender signed, in time, for any
\* requests, receivers and tolerance (internal_rpc.rs:170-207, 294-306).
THEOREM AcceptedIsSigned == EnvelopeSpec => []AcceptedAsSigned
<1>1. EnvelopeInv => AcceptedAsSigned
  <2> SUFFICES ASSUME EnvelopeInv, stage = "verified", verified # {}
               PROVE  /\ verified = {Envelope(Sign(input))}
                      /\ request.body = input.body
                      /\ PathWithQuery(request.path, request.query)
                            = PathWithQuery(input.path, input.query)
                      /\ now <= input.timestamp + Skew
                      /\ now >= input.timestamp - Skew
    BY DEF AcceptedAsSigned
  <2>1. Accepts(receiver, request, now) /\ verified = {Envelope(request)}
    BY DEF EnvelopeInv, Judged
  <2>2. PICK other \in Inputs, field \in DOMAIN Sign(input) :
           request = Sign(input) \/ request = [Sign(input) EXCEPT ![field] = Sign(other)[field]]
    BY SignedFields DEF EnvelopeInv, Travelled, Fields
  <2>3. /\ Envelope(request) = Envelope(Sign(input)) /\ request.body = input.body
        /\ PathWithQuery(request.path, request.query) = PathWithQuery(input.path, input.query)
    BY <2>1, <2>2, AcceptedMeansSigned DEF EnvelopeInv
  <2>4. request.timestamp = input.timestamp
    BY <2>3, SignedFields DEF Envelope
  <2>5. now - request.timestamp \in (-Skew)..Skew
    BY <2>1 DEF Accepts, TimestampWithinSkew
  <2>6. now \in Int /\ input.timestamp \in Int /\ Skew \in Int
    BY TimestampsAssumption, SkewAssumption DEF EnvelopeInv
  <2>7. now <= input.timestamp + Skew /\ now >= input.timestamp - Skew
    BY <2>4, <2>5, <2>6
  <2> QED BY <2>1, <2>3, <2>7
<1> QED BY <1>1, EnvelopeInductive, PTL

\* What the two sides normalize they normalize alike: a receiver that shares the
\* secret takes what was signed for it, unless its request id is not the actor's
\* (internal_rpc.rs:86-209).
THEOREM SignedIsAccepted == EnvelopeSpec => []RoundTrip
<1>1. EnvelopeInv => RoundTrip
  <2> SUFFICES ASSUME EnvelopeInv, stage = "verified", request = Sign(input),
                      receiver.secret = input.secret,
                      now - input.timestamp \in (-Skew)..Skew,
                      receiver.callers = {} \/ input.caller \in receiver.callers,
                      receiver.audience \in {"any", input.audience},
                      receiver.required \subseteq NormalizeCapabilities(input.capabilities)
               PROVE  verified = {} <=> input.requestId \notin {"none", input.actor.requestId}
    BY DEF RoundTrip
  <2>1. Accepts(receiver, request, now) <=> request.actor.requestId = request.requestId
    BY SignedFields, SignatureIsOfFields DEF Accepts, TimestampWithinSkew
  <2>2. request.actor.requestId = request.requestId
           <=> input.requestId \in {"none", input.actor.requestId}
    BY SignedFields
  <2> QED BY <2>1, <2>2 DEF EnvelopeInv, Judged
<1> QED BY <1>1, EnvelopeInductive, PTL

-----------------------------------------------------------------------------
(* LeaseHandover *)

\* What is at work, on its way or renewed goes back to an execution that was
\* begun; and a token is that of the lease beside it.
ExecutionsWereServed ==
    \A c \in Containers :
        execs[c].pc # "idle" =>
            /\ execs[c].lease \in served
            /\ execs[c].token = TokenOf(execs[c].lease)
BeatsAreOfServed == \A b \in beats : b.lease \in served
ReportsKeepToken == \A r \in reports : r.token = TokenOf(r.lease)

HandoverInv ==
    /\ HandoverTypeOK /\ ExecutionsWereServed /\ BeatsAreOfServed /\ ReportsKeepToken
    /\ RenewedMeansServed

USE DEF Leases, NoLease, AnyToken

\* The execution there is has the fields of one.
LEMMA ExecutionType ==
    ASSUME HandoverInv, NEW c \in Containers, execs[c].pc # "idle"
    PROVE  /\ execs[c] \in Executions
           /\ execs[c].lease \in served /\ execs[c].token = TokenOf(execs[c].lease)
BY DEF HandoverInv, HandoverTypeOK, ExecutionsWereServed, Idle

\* The steps of an execution that leave everything but its place alone.
LEMMA MovesKeepInv ==
    ASSUME HandoverInv, NEW c \in Containers, NEW from, NEW to \in Places \ {"idle"},
           "idle" \notin from, MovesOn(c, from, to), UNCHANGED localVars
    PROVE  HandoverInv'
<1>1. execs[c].pc # "idle" BY DEF MovesOn
<1>2. execs[c] \in Executions BY <1>1, ExecutionType
<1>3. HandoverTypeOK'
  <2>1. [execs[c] EXCEPT !.pc = to] \in Executions BY <1>2 DEF Executions
  <2>2. execs' = [execs EXCEPT ![c] = [execs[c] EXCEPT !.pc = to]] BY DEF MovesOn
  <2> QED BY <2>1, <2>2 DEF HandoverInv, HandoverTypeOK, localVars, controlVars
<1>4. ExecutionsWereServed'
  BY <1>1, <1>2 DEF HandoverInv, HandoverTypeOK, ExecutionsWereServed, MovesOn,
     localVars,
     controlVars, Executions, TokenOf
<1>5. BeatsAreOfServed' /\ ReportsKeepToken' /\ RenewedMeansServed'
  BY DEF HandoverInv, BeatsAreOfServed, ReportsKeepToken, RenewedMeansServed,
     localVars,
     controlVars, TokenOf
<1> QED BY <1>3, <1>4, <1>5 DEF HandoverInv

LEMMA FreedKeepsInv ==
    ASSUME HandoverInv, NEW c \in Containers, execs' = Freed(c), UNCHANGED localVars
    PROVE  HandoverInv'
<1>1. HandoverTypeOK'
  BY DEF HandoverInv, HandoverTypeOK, Freed, localVars, controlVars
<1>2. ExecutionsWereServed'
  BY DEF HandoverInv, HandoverTypeOK, ExecutionsWereServed, Freed, localVars,
     controlVars, TokenOf,
     Idle
<1>3. BeatsAreOfServed' /\ ReportsKeepToken' /\ RenewedMeansServed'
  BY DEF HandoverInv, BeatsAreOfServed, ReportsKeepToken, RenewedMeansServed,
     localVars,
     controlVars, TokenOf
<1> QED BY <1>1, <1>2, <1>3 DEF HandoverInv

\* A change of the heartbeat's state or of the place within an execution.
LEMMA BeatingKeepsInv ==
    ASSUME HandoverInv, NEW c \in Containers, execs[c].pc # "idle",
           NEW e \in Executions, e.lease = execs[c].lease, e.token = execs[c].token,
           execs' = [execs EXCEPT ![c] = e], UNCHANGED localVars
    PROVE  HandoverInv'
<1>1. HandoverTypeOK'
  BY DEF HandoverInv, HandoverTypeOK, localVars, controlVars
<1>2. ExecutionsWereServed'
  BY DEF HandoverInv, HandoverTypeOK, ExecutionsWereServed, localVars, controlVars,
     TokenOf
<1>3. BeatsAreOfServed' /\ ReportsKeepToken' /\ RenewedMeansServed'
  BY DEF HandoverInv, BeatsAreOfServed, ReportsKeepToken, RenewedMeansServed,
     localVars,
     controlVars, TokenOf
<1> QED BY <1>1, <1>2, <1>3 DEF HandoverInv

LEMMA InitHandoverInv == HandoverInit => HandoverInv
BY MaxLeaseAssumption
   DEF HandoverInit, HandoverInv, HandoverTypeOK, ExecutionsWereServed,
      BeatsAreOfServed,
       ReportsKeepToken, RenewedMeansServed, Idle

LEMMA NextHandoverInv == HandoverInv /\ [HandoverNext]_handoverVars => HandoverInv'
<1> SUFFICES ASSUME HandoverInv, [HandoverNext]_handoverVars PROVE HandoverInv'
  OBVIOUS
<1> USE MaxLeaseAssumption
<1>1. ASSUME NEW c \in Containers, Grant(c) PROVE HandoverInv'
  <2>1. HandoverTypeOK'
    BY <1>1 DEF HandoverInv, HandoverTypeOK, Grant
  <2>2. ExecutionsWereServed' /\ BeatsAreOfServed'
    BY <1>1 DEF HandoverInv, ExecutionsWereServed, BeatsAreOfServed, Grant, TokenOf
  <2>3. ReportsKeepToken' /\ RenewedMeansServed'
    BY <1>1 DEF HandoverInv, ReportsKeepToken, RenewedMeansServed, Grant, TokenOf
  <2> QED BY <2>1, <2>2, <2>3 DEF HandoverInv
<1>2. ASSUME NEW c \in Containers, NEW s \in starts, s.to = c, Register(c, s)
      PROVE  HandoverInv'
  <2>1. s.lease \in Leases /\ TokenOf(s.lease) \in Leases \cup {AnyToken}
    BY <1>2 DEF HandoverInv, HandoverTypeOK, TokenOf
  <2>2. HandoverTypeOK'
    BY <1>2, <2>1 DEF HandoverInv, HandoverTypeOK, Register, controlVars,
       Executions, Places
  <2>3. ExecutionsWereServed'
    BY <1>2, <2>1 DEF HandoverInv, HandoverTypeOK, ExecutionsWereServed, Register,
       controlVars, TokenOf
  <2>4. BeatsAreOfServed' /\ ReportsKeepToken' /\ RenewedMeansServed'
    BY <1>2 DEF HandoverInv, BeatsAreOfServed, ReportsKeepToken, RenewedMeansServed,
       Register, controlVars, TokenOf
  <2> QED BY <2>2, <2>3, <2>4 DEF HandoverInv
<1>3. ASSUME NEW c \in Containers, NEW from \in {"closing", "failing"}, Report(c, from)
      PROVE  HandoverInv'
  <2>1. execs[c].pc # "idle" BY <1>3 DEF Report, MovesOn
  <2>2. /\ execs[c] \in Executions /\ execs[c].lease \in served
        /\ execs[c].token = TokenOf(execs[c].lease)
    BY <2>1, ExecutionType
  <2>3. HandoverTypeOK'
    BY <1>3, <2>2 DEF HandoverInv, HandoverTypeOK, Report, MovesOn, SentReport,
       controlVars, Executions, Places
  <2>4. ExecutionsWereServed'
    BY <1>3, <2>1 DEF HandoverInv, HandoverTypeOK, ExecutionsWereServed, Report,
       MovesOn, controlVars,
       TokenOf, Executions
  <2>5. ReportsKeepToken'
    BY <1>3, <2>2 DEF HandoverInv, ReportsKeepToken, Report, SentReport, TokenOf,
       controlVars
  <2>6. BeatsAreOfServed' /\ RenewedMeansServed'
    BY <1>3 DEF HandoverInv, BeatsAreOfServed, RenewedMeansServed, Report,
       controlVars
  <2> QED BY <2>3, <2>4, <2>5, <2>6 DEF HandoverInv
<1>4. ASSUME NEW c \in Containers, Beat(c) PROVE HandoverInv'
  <2>1. execs[c] \in Executions /\ execs[c].lease \in served
    BY <1>4, ExecutionType DEF Beat
  <2>2. HandoverTypeOK'
    <3>1. [execs[c] EXCEPT !.beating = TRUE] \in Executions
      BY <2>1 DEF Executions
    <3>2. execs' = [execs EXCEPT ![c] = [execs[c] EXCEPT !.beating = TRUE]]
      BY <1>4 DEF Beat
    <3>3. beats' \subseteq [from : Containers, lease : Leases]
      BY <1>4, <2>1 DEF Beat, HandoverInv, HandoverTypeOK, Executions
    <3> QED BY <1>4, <3>1, <3>2, <3>3 DEF HandoverInv, HandoverTypeOK, Beat,
       controlVars
  <2>3. ExecutionsWereServed'
    BY <1>4, <2>1 DEF HandoverInv, HandoverTypeOK, ExecutionsWereServed, Beat,
       controlVars, TokenOf,
       Executions
  <2>4. BeatsAreOfServed'
    BY <1>4, <2>1 DEF HandoverInv, BeatsAreOfServed, Beat
  <2>5. ReportsKeepToken' /\ RenewedMeansServed'
    BY <1>4 DEF HandoverInv, ReportsKeepToken, RenewedMeansServed, Beat,
       controlVars, TokenOf
  <2> QED BY <2>2, <2>3, <2>4, <2>5 DEF HandoverInv
<1>5. ASSUME NEW b \in beats, BeatArrives(b) PROVE HandoverInv'
  <2>1. Renews(b) => lease \in Leases /\ lease \in served
    BY DEF HandoverInv, HandoverTypeOK, BeatsAreOfServed, Renews
  <2>2. HandoverTypeOK'
    BY <1>5, <2>1 DEF HandoverInv, HandoverTypeOK, BeatArrives, controlVars
  <2>3. ExecutionsWereServed' /\ BeatsAreOfServed' /\ ReportsKeepToken'
    BY <1>5 DEF HandoverInv, ExecutionsWereServed, BeatsAreOfServed,
       ReportsKeepToken,
       BeatArrives, controlVars, TokenOf
  <2>4. RenewedMeansServed'
    BY <1>5, <2>1 DEF HandoverInv, RenewedMeansServed, BeatArrives
  <2> QED BY <2>2, <2>3, <2>4 DEF HandoverInv
<1>6. ASSUME NEW c \in Containers, BeatReturns(c) PROVE HandoverInv'
  <2>1. execs[c].pc # "idle" /\ execs[c] \in Executions
    <3>1. execs[c].pc # "idle"
      BY <1>6 DEF BeatReturns, HandoverInv, HandoverTypeOK, Idle, Executions
    <3> QED BY <3>1, ExecutionType
  <2>2. PICK e \in Executions :
            /\ e.lease = execs[c].lease /\ e.token = execs[c].token
            /\ execs' = [execs EXCEPT ![c] = e]
    <3>1. [execs[c] EXCEPT !.beating = FALSE] \in Executions
      BY <2>1 DEF Executions
    <3> QED BY <1>6, <2>1, <3>1 DEF BeatReturns, Executions
  <2> QED BY <1>6, <2>1, <2>2, BeatingKeepsInv DEF BeatReturns
<1>7. ASSUME NEW c \in Containers, LearnsLoss(c) PROVE HandoverInv'
  <2>1. execs[c].pc # "idle" /\ execs[c] \in Executions
    BY <1>7, ExecutionType DEF LearnsLoss
  <2>2. PICK e \in Executions :
            /\ e.lease = execs[c].lease /\ e.token = execs[c].token
            /\ execs' = [execs EXCEPT ![c] = e]
    <3>1. [execs[c] EXCEPT !.beating = FALSE, !.pc = "cancelled"] \in Executions
      BY <2>1 DEF Executions, Places
    <3>2. execs' = [execs EXCEPT ![c] =
                      [execs[c] EXCEPT !.beating = FALSE, !.pc = "cancelled"]]
      BY <1>7, <2>1 DEF LearnsLoss, HandoverInv, HandoverTypeOK
    <3> QED BY <2>1, <3>1, <3>2 DEF Executions
  <2> QED BY <1>7, <2>1, <2>2, BeatingKeepsInv DEF LearnsLoss
<1>8. ASSUME NEW r \in reports, ReportArrives(r) PROVE HandoverInv'
  <2>1. HandoverTypeOK'
    BY <1>8 DEF HandoverInv, HandoverTypeOK, ReportArrives
  <2>2. ExecutionsWereServed' /\ BeatsAreOfServed'
    BY <1>8 DEF HandoverInv, ExecutionsWereServed, BeatsAreOfServed, ReportArrives,
       TokenOf
  <2>3. ReportsKeepToken' /\ RenewedMeansServed'
    BY <1>8 DEF HandoverInv, ReportsKeepToken, RenewedMeansServed, ReportArrives,
       TokenOf
  <2> QED BY <2>1, <2>2, <2>3 DEF HandoverInv
<1>9. ASSUME NEW c \in Containers,
             SetupPasses(c) \/ SetupFails(c) \/ TurnEnds(c) \/ ReportFails(c)
      PROVE  HandoverInv'
  <2>1. CASE SetupPasses(c)
    BY <2>1, MovesKeepInv DEF SetupPasses, Places
  <2>2. CASE SetupFails(c)
    BY <2>2, MovesKeepInv DEF SetupFails, Places
  <2>3. CASE TurnEnds(c)
    BY <2>3, MovesKeepInv DEF TurnEnds, Places
  <2>4. CASE ReportFails(c)
    BY <2>4, MovesKeepInv DEF ReportFails, Places
  <2> QED BY <1>9, <2>1, <2>2, <2>3, <2>4
<1>10. ASSUME NEW c \in Containers, Ends(c) \/ Dies(c) PROVE HandoverInv'
  BY <1>10, FreedKeepsInv DEF Ends, Dies
<1>11. CASE UNCHANGED handoverVars
  BY <1>11 DEF handoverVars, controlVars, HandoverInv, HandoverTypeOK,
     ExecutionsWereServed,
     BeatsAreOfServed, ReportsKeepToken, RenewedMeansServed, TokenOf
<1>12. ASSUME NEW c \in Containers, Start(c) PROVE HandoverInv'
  BY <1>12, <1>2, <1>11 DEF Start, Duplicate
<1>13. ASSUME NEW c \in Containers, TaskStep(c) PROVE HandoverInv'
  BY <1>13, <1>3, <1>9, <1>10 DEF TaskStep
<1>14. ASSUME NEW c \in Containers, HeartbeatStep(c) PROVE HandoverInv'
  BY <1>14, <1>4, <1>6, <1>7 DEF HeartbeatStep
<1> QED BY <1>1, <1>5, <1>8, <1>10, <1>11, <1>12, <1>13, <1>14 DEF HandoverNext

\* HandoverInv is an invariant.
THEOREM HandoverInductive == HandoverSpec => []HandoverInv
BY InitHandoverInv, NextHandoverInv, PTL DEF HandoverSpec

\* A lease that is renewed was begun: no heartbeat confirms a /start that was
\* swallowed as a duplicate.
THEOREM RenewalsAreServed == HandoverSpec => []RenewedMeansServed
<1>1. HandoverInv => RenewedMeansServed BY DEF HandoverInv
<1> QED BY <1>1, HandoverInductive, PTL

\* The handover state is well-typed for any containers and leases.
THEOREM HandoverTypeCorrect == HandoverSpec => []HandoverTypeOK
<1>1. HandoverInv => HandoverTypeOK BY DEF HandoverInv
<1> QED BY <1>1, HandoverInductive, PTL

\* Where no token overrides them all, a report of a displaced execution
\* changes nothing on record.
THEOREM HoldersDecide == HandoverSpec => OnlyHolderDecides
<1>1. HandoverInv /\ [HandoverNext]_handoverVars => [record' # record => override \/ record' = lease]_handoverVars
  <2> SUFFICES ASSUME HandoverInv, HandoverNext, record' # record
              PROVE  override \/ record' = lease
    OBVIOUS
  <2>1. PICK r \in reports : ReportArrives(r)
    BY DEF HandoverNext, Grant, Start, Register, Duplicate, TaskStep, Dies,
       HeartbeatStep,
       Beat, BeatReturns, LearnsLoss, SetupPasses, SetupFails, TurnEnds, Report,
       ReportFails, Ends, BeatArrives, localVars, controlVars, handoverVars
  <2>2. r.token \in {lease, AnyToken} /\ record' = r.lease
    BY <2>1 DEF ReportArrives, Takes
  <2>3. r.token = TokenOf(r.lease) /\ r.lease \in Leases
    BY DEF HandoverInv, HandoverTypeOK, ReportsKeepToken
  <2> QED BY <2>2, <2>3, MaxLeaseAssumption DEF TokenOf
<1> QED BY <1>1, HandoverInductive, PTL DEF HandoverSpec, OnlyHolderDecides
=============================================================================
