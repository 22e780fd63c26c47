------------------------------ MODULE RpcClient ------------------------------
(***************************************************************************)
(* RpcClient over the TCP ClientProxy: one lazily opened connection to     *)
(* each service, a timer for every call, and one outcome of it, whatever   *)
(* comes of its message.  A call whose timer ends while the connection is  *)
(* still being made is never sent; one that was sent may be received long  *)
(* after its caller gave up.                                               *)
(***************************************************************************)
EXTENDS RpcErrors

CONSTANTS
    RpcCalls,     \* the calls there may be, each made at most once
    Services,
    To            \* To[r]: the service that call r is for

VARIABLES
    link,         \* the services to which a connection is open
    stage,        \* where each call is
    outcome,      \* how each call has ended, a status
    sent          \* the calls whose message is on the way

rpcVars == <<link, stage, outcome, sent>>

InFlight == {"connecting", "waiting"}
Stages == {"idle", "answered", "lost"} \union InFlight

RpcInit ==
    /\ link = {}
    /\ stage = [r \in RpcCalls |-> "idle"]
    /\ outcome = [r \in RpcCalls |-> 0]
    /\ sent = {}

(* All the calls of R end with this status; what else arrives for them is  *)
(* dropped.                                                                *)
End(R, status) ==
    /\ stage' = [r \in RpcCalls |-> IF r \in R THEN "answered" ELSE stage[r]]
    /\ outcome' = [r \in RpcCalls |-> IF r \in R THEN status ELSE outcome[r]]

CallsAt(where, s) == {r \in RpcCalls : stage[r] = where /\ To[r] = s}

(* proxy.send: the message is written at once if there is a connection.    *)
Send(r) ==
    /\ \/ /\ To[r] \in link
          /\ stage' = [stage EXCEPT ![r] = "waiting"]
          /\ sent' = sent \union {r}
       \/ /\ To[r] \notin link
          /\ stage' = [stage EXCEPT ![r] = "connecting"]
          /\ UNCHANGED sent
    /\ UNCHANGED <<link, outcome>>

(* The calls that waited for the connection go out over it together. *)
Connect(s) ==
    /\ s \notin link
    /\ CallsAt("connecting", s) # {}
    /\ link' = link \union {s}
    /\ stage' = [r \in RpcCalls |->
                     IF r \in CallsAt("connecting", s) THEN "waiting" ELSE stage[r]]
    /\ sent' = sent \union CallsAt("connecting", s)
    /\ UNCHANGED outcome

(* ECONNREFUSED, EHOSTUNREACH, ENOTFOUND. *)
ConnectFails(s) ==
    /\ s \notin link
    /\ CallsAt("connecting", s) # {}
    /\ End(CallsAt("connecting", s), Unavailable)
    /\ UNCHANGED <<link, sent>>

(* The connection closes under all the calls that use it: without a code   *)
(* (502), or with ECONNRESET or EPIPE (503).                               *)
Close(s) ==
    /\ s \in link
    /\ link' = link \ {s}
    /\ \E status \in {BadGateway, Unavailable} : End(CallsAt("waiting", s), status)
    /\ UNCHANGED sent

(* The first answer settles the call, an error by its own status. *)
Settle(r, status) ==
    /\ stage[r] = "waiting"
    /\ End({r}, status)
    /\ UNCHANGED <<link, sent>>

(* Mutant: the pipe without timeout(). *)
NoTimeOut(r) == FALSE

(* Mutant: a timeout is taken for the client's own, 408. *)
TimeOutAsBadRequest(r) ==
    stage[r] \in InFlight /\ End({r}, BadRequest) /\ UNCHANGED <<link, sent>>

TimeOut(r) ==
    /\ stage[r] \in InFlight
    /\ End({r}, GatewayTimeout)
    /\ UNCHANGED <<link, sent>>

(* The message reaches the handler of its service. *)
Received(r) ==
    /\ r \in sent
    /\ sent' = sent \ {r}
    /\ UNCHANGED <<link, stage, outcome>>

(* The process of the client dies: its calls end with it, unanswered. *)
ClientDies ==
    /\ link' = {}
    /\ stage' = [r \in RpcCalls |-> IF stage[r] \in InFlight THEN "lost" ELSE stage[r]]
    /\ UNCHANGED <<outcome, sent>>
=============================================================================
