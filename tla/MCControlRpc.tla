---------------------------- MODULE MCControlRpc ----------------------------
(***************************************************************************)
(* The two halves of the client on small instances: ControlRpc, that is    *)
(* who sends what when, and InternalRpc, that is what a signed request     *)
(* looks like to its receiver.  They share no state, so a behaviour has    *)
(* one of them for its subject, with the other at rest.                    *)
(*                                                                         *)
(* InternalRpc gets every spelling of a method, a query and a list of      *)
(* capabilities that is normalized, and a second value for every field,    *)
(* for a request to be rewritten with.                                     *)
(***************************************************************************)
EXTENDS ControlRpc, InternalRpc

VARIABLE subject    \* "client" or "envelope"

Request == [method |-> "POST", path |-> "/rpc", query |-> "none", body |-> "b1",
            actor |-> [account |-> "agent", requestId |-> "id1"], caller |-> "agent",
            audience |-> "app", capabilities |-> <<"rpc">>, requestId |-> "id1",
            nonce |-> "n1", timestamp |-> 10, secret |-> "key"]

Spellings ==
    {[Request EXCEPT !.method = m, !.query = q, !.capabilities = c, !.requestId = id] :
        m \in {"post", "POST"}, q \in {"none", "", "q", "?q"},
        c \in {<<>>, <<"rpc">>, <<" rpc ", "admin", "", "rpc">>},
        id \in {"none", "id1", "id2"}}

Others ==
    {[Request EXCEPT !.path = "/other"], [Request EXCEPT !.body = "b2"],
     [Request EXCEPT !.actor.account = "user"], [Request EXCEPT !.caller = "app"],
     [Request EXCEPT !.audience = "agent"], [Request EXCEPT !.nonce = "n2"],
     [Request EXCEPT !.timestamp = 11], [Request EXCEPT !.secret = "old key"]}

SomeInputs == Spellings \cup Others

AnyReceiver == [secret |-> "key", callers |-> {}, audience |-> "any", required |-> {}]
SomeReceivers ==
    {[AnyReceiver EXCEPT !.callers = c, !.audience = a, !.required = r] :
        c \in {{}, {"agent"}}, a \in {"any", "app"}, r \in {{}, {"rpc", "admin"}}}

MCInit ==
    /\ Init /\ EnvelopeInit
    /\ \/ subject = "client"
          /\ input = Request /\ receiver = AnyReceiver /\ now = input.timestamp
       \/ subject = "envelope" /\ signing

MCNext ==
    \/ subject = "client" /\ Next /\ UNCHANGED <<subject, envelopeVars>>
    \/ subject = "envelope" /\ EnvelopeNext /\ UNCHANGED <<subject, vars>>

MCSpec == MCInit /\ [][MCNext]_<<vars, envelopeVars, subject>>
=============================================================================
