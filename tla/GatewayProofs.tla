---------------------------- MODULE GatewayProofs ----------------------------
(***************************************************************************)
(* Theorems about Gateway, for any requests, movies, accounts and faults.  *)
(*                                                                         *)
(* The accounts are those of Auth, so what AuthProofs shows of them is     *)
(* used here, not shown again.  The rest of the argument follows a request *)
(* from the guards to its service and back: what the guards admitted was   *)
(* made by somebody who has logged in, the service works on the message of *)
(* that request and no other, and the outcome is what the service answered.*)
(***************************************************************************)
EXTENDS Gateway, FiniteSetTheorems, TLAPS

Accounts == INSTANCE AuthProofs WITH
    Calls <- AuthCalls, Menu <- AuthMenu, MaxCrashes <- MaxFaults

-----------------------------------------------------------------------------
(* What is known of a request. *)

(* Its service has received it. *)
Served(r) ==
    \/ r \in AuthCalls /\ pc[r] # "idle"
    \/ r \in MovieCalls /\ movieState[r] # "idle"
    \/ r \in OrderCalls /\ orderState[r] # "idle"

(* The guards have let it through. *)
Admitted(r) ==
    /\ asks[r] \in HttpMenu[r]
    /\ asks[r].by \in AuthCalls => LoggedIn(asks[r].by)
    /\ asks[r].route \notin Public => asks[r].by \in AuthCalls
    /\ HasRole(asks[r])

(* The service works on its message. *)
Faithful(r) ==
    /\ r \in AuthCalls => request[r] = AuthService!Normalized(MessageOf(r))
    /\ r \in MovieCalls => movieRequest[r] = MessageOf(r)
    /\ r \in OrderCalls => asked[r] = MessageOf(r)

(* The outcome a client sees is that of the service, or of none. *)
Truthful(r) ==
    /\ outcome[r] # 0 => stage[r] = "answered"
    /\ outcome[r] \in {OK, 201, 204} =>
          /\ HasAnswered(r, OK)
          /\ outcome[r] = Success(asks[r].route)
    /\ outcome[r] \in 400..499 =>
          r \notin sent /\ (Served(r) => HasAnswered(r, outcome[r]))

Known(r) ==
    /\ stage[r] = "idle" => asks[r] = NoAsk /\ r \notin sent /\ ~Served(r)
    /\ stage[r] = "connecting" => r \notin sent /\ ~Served(r)
    /\ stage[r] # "idle" => asks[r] \in HttpMenu[r]
    /\ stage[r] \in InFlight => Admitted(r)
    /\ r \in sent => ~Served(r) /\ Admitted(r)
    /\ Served(r) => Admitted(r) /\ Faithful(r)
    /\ Truthful(r)

Requested == \A r \in RpcCalls : Known(r)

-----------------------------------------------------------------------------
(* Types. *)

CallStates == {"idle", "pending", "done", "lost"}

ClientTypes ==
    /\ link \subseteq Services
    /\ stage \in [RpcCalls -> Stages]
    /\ outcome \in [RpcCalls -> Statuses \union {0, 201, 204}]
    /\ sent \subseteq RpcCalls
    /\ asks = [r \in RpcCalls |-> asks[r]]
    /\ expired \subseteq AuthCalls
    /\ faults \in 0..MaxFaults

MovieTypes ==
    /\ movies \in [Cat!MovieIds -> Cat!Row \union {NoRow}]
    /\ movieState \in [MovieCalls -> CallStates]
    /\ movieRequest \in [MovieCalls -> Cat!Requests \union {Cat!NoRequest}]
    /\ movieReply = [c \in MovieCalls |-> movieReply[c]]
    /\ \A c \in MovieCalls : movieState[c] = "done" => movieReply[c].status \in Statuses

Quoted(c) ==
    /\ quote[c].movieId \in Cat!MovieIds
    /\ quote[c].movieTitle \in Values
    /\ quote[c].movieReleaseYear \in Values
    /\ quote[c].ticketPrice \in Values

OrderTypes ==
    /\ orders \in [OrderIds -> Order \union {NoOrder}]
    /\ orderState \in [OrderCalls -> CallStates]
    /\ asked \in [OrderCalls -> OrderRequests \union {Book!NoRequest}]
    /\ answer = [c \in OrderCalls |-> answer[c]]
    /\ \A c \in OrderCalls : orderState[c] = "done" => answer[c].status \in Statuses
    /\ quote = [c \in OrderCalls |-> quote[c]]
    /\ \A c \in OrderCalls : orderState[c] # "idle" => asked[c] \in OrderRequests
    /\ \A c \in OrderCalls : quote[c].known = "movie" =>
          orderState[c] = "pending" /\ asked[c].op = "create" /\ Quoted(c)

-----------------------------------------------------------------------------
(* The orders. *)

Makes(c) == orderState[c] = "done" /\ asked[c].op = "create"
Made == {c \in OrderCalls : Makes(c) /\ answer[c].status = OK}
LeftOpen == {c \in OrderCalls : Makes(c) /\ answer[c].status = ServerError}
Rows == {i \in OrderIds : orders[i] # NoOrder}

(* Each order is of the user for whom one was asked. *)
Owned ==
    \A i \in OrderIds : orders[i] # NoOrder =>
        \E c \in OrderCalls :
            /\ orderState[c] # "idle"
            /\ asked[c].op = "create"
            /\ asked[c].userId = orders[i].userId

Counted ==
    /\ Rows \subseteq spentOrders
    /\ Cardinality(Made) <= Cardinality(Rows)
    /\ Cardinality(Rows) <= Cardinality(Made) + Cardinality(LeftOpen)

GInv ==
    /\ ClientTypes /\ MovieTypes /\ OrderTypes
    /\ Accounts!Inv
    /\ Requested
    /\ Owned /\ Counted

-----------------------------------------------------------------------------
(* The accounts are those of Auth.  Both instances of it have the same     *)
(* definitions, which the next lemmas only have to lay side by side.       *)

(* Constants and rows. *)
LEMMA SameAccounts ==
    /\ AuthService!User = Accounts!User
    /\ AuthService!Requests = Accounts!Requests
  BY DEF AuthService!User, Accounts!User, AuthService!Requests, Accounts!Requests,
         AuthService!CanonicalEmails, Accounts!CanonicalEmails,
         AuthService!Roles, Accounts!Roles

(* The start of the process. *)
LEMMA SameBoot == AuthService!Boot => Accounts!Boot
<1>1. AuthService!Start => Accounts!Start
  BY DEF AuthService!Start, Accounts!Start, AuthService!tableVars, Accounts!tableVars,
         AuthService!callVars, Accounts!callVars
<1>2. AuthService!AdminCheck => Accounts!AdminCheck
  BY DEF AuthService!AdminCheck, Accounts!AdminCheck, AuthService!ExistsBy,
         Accounts!ExistsBy, AuthService!UserIds, Accounts!UserIds,
         AuthService!tableVars, Accounts!tableVars,
         AuthService!callVars, Accounts!callVars
<1>3. AuthService!Inserted(AuthService!Admin) => Accounts!Inserted(Accounts!Admin)
  BY DEF AuthService!Inserted, Accounts!Inserted, AuthService!Admin, Accounts!Admin,
         AuthService!Taken, Accounts!Taken, AuthService!UserIds, Accounts!UserIds
<1>4. ASSUME NEW e
      PROVE  AuthService!Rejected(AuthService!Admin, e) =>
                 Accounts!Rejected(Accounts!Admin, e)
  BY DEF AuthService!Rejected, Accounts!Rejected, AuthService!Admin, Accounts!Admin,
         AuthService!Taken, Accounts!Taken, AuthService!UserIds, Accounts!UserIds,
         AuthService!tableVars, Accounts!tableVars
<1>5. AuthService!AdminCreate => Accounts!AdminCreate
  BY <1>3, <1>4 DEF AuthService!AdminCreate, Accounts!AdminCreate,
         AuthService!QueryFailures, Accounts!QueryFailures,
         AuthService!callVars, Accounts!callVars
<1> QED
  BY <1>1, <1>2, <1>5 DEF AuthService!Boot, Accounts!Boot

(* Its end. *)
LEMMA SameCrash == AuthService!Crash => Accounts!Crash
<1>1. AuthService!Inserted(AuthService!Admin) => Accounts!Inserted(Accounts!Admin)
  BY DEF AuthService!Inserted, Accounts!Inserted, AuthService!Admin, Accounts!Admin,
         AuthService!Taken, Accounts!Taken, AuthService!UserIds, Accounts!UserIds
<1> QED
  BY <1>1 DEF AuthService!Crash, Accounts!Crash, AuthService!tableVars,
              Accounts!tableVars

(* How calls end. *)
LEMMA SameEnds ==
    ASSUME NEW c \in AuthCalls
    PROVE  /\ \A e : AuthService!Throw(c, e) => Accounts!Throw(c, e)
           /\ \A s, who : AuthService!Finish(c, s, who) => Accounts!Finish(c, s, who)
<1>1. \A e : AuthService!StatusOf(e) = Accounts!StatusOf(e)
  BY DEF AuthService!StatusOf, Accounts!StatusOf, AuthService!HttpStatus,
         Accounts!HttpStatus, AuthService!BadRequest, Accounts!BadRequest,
         AuthService!Unauthorized, Accounts!Unauthorized, AuthService!NotFound,
         Accounts!NotFound, AuthService!Conflict, Accounts!Conflict,
         AuthService!ServerError, Accounts!ServerError
<1>2. \A s, who : AuthService!Finish(c, s, who) => Accounts!Finish(c, s, who)
  BY DEF AuthService!Finish, Accounts!Finish, AuthService!processVars,
         Accounts!processVars
<1>3. AuthService!Nobody = Accounts!Nobody
  BY DEF AuthService!Nobody, Accounts!Nobody
<1> QED
  BY <1>1, <1>2, <1>3 DEF AuthService!Throw, Accounts!Throw

(* The handlers. *)
LEMMA SameStep ==
    ASSUME NEW c \in AuthCalls
    PROVE  AuthService!Step(c) => Accounts!Step(c)
<1>1. AuthService!Receive(c) => Accounts!Receive(c)
  <2>1. AuthService!StatusOf("BadRequestException") = 400
    BY DEF AuthService!StatusOf, AuthService!HttpStatus, AuthService!BadRequest
  <2>2. Accounts!StatusOf("BadRequestException") = 400
    BY DEF Accounts!StatusOf, Accounts!HttpStatus, Accounts!BadRequest
  <2>3. \A req : AuthService!Normalized(req) = Accounts!Normalized(req)
    BY DEF AuthService!Normalized, Accounts!Normalized
  <2>4. AuthService!Nobody = Accounts!Nobody
    BY DEF AuthService!Nobody, Accounts!Nobody
  <2> SUFFICES ASSUME AuthService!Receive(c) PROVE Accounts!Receive(c)
    OBVIOUS
  <2>5. PICK req \in AuthMenu[c] :
            /\ request' = [request EXCEPT ![c] = AuthService!Normalized(req)]
            /\ IF \/ req.op = "profile" /\ req.userId < 1
                  \/ req.op = "register" /\ req.password # req.confirm
               THEN /\ pc' = [pc EXCEPT ![c] = "done"]
                    /\ reply' = [reply EXCEPT ![c] =
                          [status |-> AuthService!StatusOf("BadRequestException"),
                           who |-> AuthService!Nobody]]
               ELSE pc' = [pc EXCEPT ![c] = "received"] /\ UNCHANGED reply
    BY Zenon DEF AuthService!Receive
  <2>6. /\ process = "listening"
        /\ pc[c] = "idle"
        /\ UNCHANGED <<Accounts!tableVars, Accounts!processVars>>
    BY DEF AuthService!Receive, AuthService!tableVars, Accounts!tableVars,
           AuthService!processVars, Accounts!processVars
  <2>7. request' = [request EXCEPT ![c] = Accounts!Normalized(req)]
    BY <2>3, <2>5
  <2>8. [status |-> AuthService!StatusOf("BadRequestException"),
         who |-> AuthService!Nobody] =
        [status |-> Accounts!StatusOf("BadRequestException"),
         who |-> Accounts!Nobody]
    BY <2>1, <2>2, <2>4
  <2>9. IF \/ req.op = "profile" /\ req.userId < 1
           \/ req.op = "register" /\ req.password # req.confirm
        THEN /\ pc' = [pc EXCEPT ![c] = "done"]
             /\ reply' = [reply EXCEPT ![c] =
                   [status |-> Accounts!StatusOf("BadRequestException"),
                    who |-> Accounts!Nobody]]
        ELSE pc' = [pc EXCEPT ![c] = "received"] /\ UNCHANGED reply
    BY <2>5, <2>8
  <2> QED
    BY <2>6, <2>7, <2>9, Zenon DEF Accounts!Receive
<1>2. AuthService!RegisterCheck(c) => Accounts!RegisterCheck(c)
  BY SameEnds
  DEF AuthService!RegisterCheck, Accounts!RegisterCheck, AuthService!At, Accounts!At,
      AuthService!ExistsBy, Accounts!ExistsBy, AuthService!UserIds, Accounts!UserIds,
      AuthService!tableVars, Accounts!tableVars, AuthService!processVars,
      Accounts!processVars
<1>3. AuthService!RegisterInsert(c) => Accounts!RegisterInsert(c)
  <2>1. AuthService!NewUser(c) = Accounts!NewUser(c)
    BY DEF AuthService!NewUser, Accounts!NewUser, AuthService!RegisteredRole,
           Accounts!RegisteredRole
  <2>2. ASSUME NEW user
        PROVE  /\ AuthService!Inserted(user) => Accounts!Inserted(user)
               /\ \A e : AuthService!Rejected(user, e) => Accounts!Rejected(user, e)
    BY DEF AuthService!Inserted, Accounts!Inserted, AuthService!Rejected,
           Accounts!Rejected, AuthService!Taken, Accounts!Taken, AuthService!UserIds,
           Accounts!UserIds, AuthService!tableVars, Accounts!tableVars
  <2> QED
    BY <2>1, <2>2, SameEnds
    DEF AuthService!RegisterInsert, Accounts!RegisterInsert,
        AuthService!RegisteredRole, Accounts!RegisteredRole, AuthService!OK,
        Accounts!OK, AuthService!QueryFailures, Accounts!QueryFailures
<1>4. AuthService!Login(c) => Accounts!Login(c)
  BY SameEnds
  DEF AuthService!Login, Accounts!Login, AuthService!At, Accounts!At,
      AuthService!Accepts, Accounts!Accepts, AuthService!IdentityOf,
      Accounts!IdentityOf, AuthService!UserIds, Accounts!UserIds, AuthService!OK,
      Accounts!OK, AuthService!tableVars, Accounts!tableVars
<1>5. AuthService!GetProfile(c) => Accounts!GetProfile(c)
  BY SameEnds
  DEF AuthService!GetProfile, Accounts!GetProfile, AuthService!At, Accounts!At,
      AuthService!IdentityOf, Accounts!IdentityOf, AuthService!UserIds,
      Accounts!UserIds, AuthService!OK, Accounts!OK, AuthService!tableVars,
      Accounts!tableVars
<1>6. AuthService!QueryFails(c) => Accounts!QueryFails(c)
  BY SameEnds
  DEF AuthService!QueryFails, Accounts!QueryFails, AuthService!tableVars,
      Accounts!tableVars
<1> QED
  BY <1>1, <1>2, <1>3, <1>4, <1>5, <1>6 DEF AuthService!Step, Accounts!Step

(* What the gateway's step does to the accounts: nothing, or a step of the *)
(* auth service.                                                           *)
LEMMA AccountStep ==
    ASSUME [Next]_vars
    PROVE  \/ UNCHANGED authVars
           \/ Accounts!Boot
           \/ Accounts!Crash
           \/ \E c \in AuthCalls : Accounts!Step(c)
<1>1. \A c \in AuthCalls : AuthService!Receive(c) => AuthService!Step(c)
  BY DEF AuthService!Step
<1>2. CASE UNCHANGED vars
  BY <1>2 DEF vars
<1>3. ASSUME NEW r \in RpcCalls, Deliver(r)
      PROVE  UNCHANGED authVars \/ \E c \in AuthCalls : Accounts!Step(c)
  BY <1>1, <1>3, SameStep DEF Deliver
<1>4. ASSUME NEW r \in RpcCalls, Arrive(r) \/ Respond(r) \/ GiveUp(r)
      PROVE  UNCHANGED authVars
  BY <1>4 DEF Arrive, Respond, GiveUp
<1>5. ASSUME NEW s \in Services, Open(s) \/ CannotOpen(s) \/ Break(s)
      PROVE  UNCHANGED authVars
  BY <1>5 DEF Open, CannotOpen, Break
<1>6. ASSUME NEW s \in Services, ServiceDies(s)
      PROVE  UNCHANGED authVars \/ Accounts!Crash
  BY <1>6, SameCrash DEF ServiceDies
<1>7. ASSUME NEW l \in AuthCalls, Expire(l)
      PROVE  UNCHANGED authVars
  BY <1>7 DEF Expire
<1>8. ASSUME AuthRuns
      PROVE  Accounts!Boot \/ \E c \in AuthCalls : Accounts!Step(c)
  BY <1>8, SameBoot, SameStep DEF AuthRuns
<1>9. CASE CatalogRuns \/ OrdersRun \/ Crash \/ Quiescent
  BY <1>9 DEF CatalogRuns, OrdersRun, Crash, Quiescent, vars
<1> QED
  BY <1>2, <1>3, <1>4, <1>5, <1>6, <1>7, <1>8, <1>9 DEF Next

(* So its invariant is one of the gateway's. *)
LEMMA AccountsInv ==
    ASSUME Accounts!Inv, [Next]_vars
    PROVE  Accounts!Inv'
<1>1. [Accounts!Next]_(Accounts!vars)
  <2>1. UNCHANGED authVars => UNCHANGED Accounts!vars
    BY DEF authVars, Accounts!vars, Accounts!tableVars, Accounts!processVars,
           Accounts!callVars
  <2> QED
    BY <2>1, AccountStep DEF Accounts!Next
<1> QED
  BY <1>1, Accounts!NextInv, SameAccounts, AccountsAssumption, CallsAssumption

(* What a call has been asked and told stays, and so do the accounts. *)
AccountsStay ==
    /\ \A i \in Accounts!UserIds : users[i] # NoUser => users'[i] = users[i]
    /\ \A c \in AuthCalls :
          /\ pc[c] # "idle" => pc'[c] # "idle" /\ request'[c] = request[c]
          /\ pc[c] = "done" => pc'[c] = "done" /\ reply'[c] = reply[c]

(* An INSERT touches no row there is. *)
LEMMA InsertedGrows ==
    ASSUME Accounts!TableTypes, Accounts!TableInv, NEW user, Accounts!Inserted(user)
    PROVE  \A i \in Accounts!UserIds : users[i] # NoUser => users'[i] = users[i]
<1>1. nextUserId \in Accounts!UserIds /\ users[nextUserId] = NoUser
  BY AccountsAssumption DEF Accounts!TableTypes, Accounts!TableInv, Accounts!Fresh,
     Accounts!Inserted, Accounts!UserIds
<1> QED
  BY <1>1 DEF Accounts!Inserted, Accounts!TableTypes

(* Of every step. *)
LEMMA AccountsKept ==
    ASSUME Accounts!Inv, [Next]_vars
    PROVE  AccountsStay
<1>1. CASE UNCHANGED authVars
  BY <1>1 DEF authVars, AccountsStay
<1>2. /\ Accounts!CallTypes /\ Accounts!TableTypes /\ Accounts!TableInv
      /\ Accounts!ProcessTypes
  BY DEF Accounts!Inv
<1>3. CASE Accounts!Boot
  <2>1. UNCHANGED Accounts!callVars
    BY <1>3 DEF Accounts!Boot, Accounts!Start, Accounts!AdminCheck,
                Accounts!AdminCreate
  <2>2. \A i \in Accounts!UserIds : users[i] # NoUser => users'[i] = users[i]
    <3>1. UNCHANGED Accounts!tableVars => users' = users
      BY DEF Accounts!tableVars
    <3>2. ASSUME NEW e, Accounts!Rejected(Accounts!Admin, e) PROVE users' = users
      BY <3>1, <3>2 DEF Accounts!Rejected
    <3>3. CASE Accounts!Inserted(Accounts!Admin)
      BY <1>2, <3>3, InsertedGrows
    <3> QED
      BY <1>3, <3>1, <3>2, <3>3 DEF Accounts!Boot, Accounts!Start,
         Accounts!AdminCheck, Accounts!AdminCreate
  <2> QED
    BY <2>1, <2>2 DEF Accounts!callVars, AccountsStay
<1>4. CASE Accounts!Crash
  <2>1. \A i \in Accounts!UserIds : users[i] # NoUser => users'[i] = users[i]
    BY <1>2, <1>4, InsertedGrows DEF Accounts!Crash, Accounts!tableVars
  <2> QED
    BY <1>4, <2>1 DEF Accounts!Crash, AccountsStay
<1>5. ASSUME NEW c \in AuthCalls, Accounts!Step(c)
      PROVE  AccountsStay
  <2>1. \A i \in Accounts!UserIds : users[i] # NoUser => users'[i] = users[i]
    <3>1. Accounts!Grows
      BY <1>5, Accounts!StepTable, SameAccounts, AccountsAssumption, CallsAssumption
    <3> QED
      BY <3>1 DEF Accounts!Grows
  <2>2. \A d \in AuthCalls \ {c} :
            pc'[d] = pc[d] /\ request'[d] = request[d] /\ reply'[d] = reply[d]
    BY <1>2, <1>5, Accounts!OthersKeep, SameAccounts, AccountsAssumption, CallsAssumption
  <2>3. /\ pc[c] # "done"
        /\ pc[c] # "idle" => pc'[c] # "idle" /\ request'[c] = request[c]
    BY <1>2, <1>5 DEF Accounts!CallTypes, Accounts!Step, Accounts!Receive,
       Accounts!RegisterCheck, Accounts!RegisterInsert, Accounts!Login,
       Accounts!GetProfile, Accounts!QueryFails, Accounts!Finish, Accounts!Throw,
       Accounts!At
  <2> QED
    BY <2>1, <2>2, <2>3 DEF AccountsStay
<1> QED
  BY <1>1, <1>3, <1>4, <1>5, AccountStep

-----------------------------------------------------------------------------
(* Messages. *)

(* A message has the pattern of its route and names the user of its token. *)
LEMMA PayloadFields ==
    ASSUME NEW req, NEW user
    PROVE  /\ "op" \in DOMAIN Payload(req, user)
           /\ Payload(req, user).op = Pattern[req.route]
           /\ req.route \in OfUser => Payload(req, user).userId = user.sub
<1>1. "op" # "userId"
  OBVIOUS
<1> QED
  BY <1>1 DEF Payload

(* Requests of one kind are for one service, by their patterns. *)
LEMMA RoutesApart ==
    /\ \A r \in OrderCalls : \A req \in HttpMenu[r] :
          /\ req.route \in OwnOrders
          /\ Pattern[req.route] = "create" => req.route = "createOrder"
    /\ \A r \in MovieCalls : \A req \in HttpMenu[r] :
          Pattern[req.route] \in {"create", "update", "remove"} => req.route \in AdminOnly
    /\ \A r \in AuthCalls : \A req \in HttpMenu[r] :
          /\ req.route \in AccountRoutes
          /\ Pattern[req.route] = "login" <=> req.route = "login"
<1>1. \A r \in OrderCalls : \A req \in HttpMenu[r] : req.route \in OwnOrders
  BY CallsAssumption
<1>2. \A r \in MovieCalls : \A req \in HttpMenu[r] : req.route \in MovieRoutes
  BY CallsAssumption
<1>3. \A r \in AuthCalls : \A req \in HttpMenu[r] : req.route \in AccountRoutes
  BY CallsAssumption
<1>4. \A route \in OwnOrders : Pattern[route] = "create" => route = "createOrder"
  BY DEF OwnOrders, Pattern
<1>5. \A route \in MovieRoutes :
          Pattern[route] \in {"create", "update", "remove"} => route \in AdminOnly
  BY DEF MovieRoutes, AdminOnly, Pattern
<1>6. \A route \in AccountRoutes : Pattern[route] = "login" <=> route = "login"
  BY DEF AccountRoutes, Pattern
<1> QED
  BY <1>1, <1>2, <1>3, <1>4, <1>5, <1>6

-----------------------------------------------------------------------------
(* What stays as it is. *)

(* The request of r, and its outcome once there is one. *)
Settled(r) ==
    /\ stage[r] # "idle" => stage'[r] # "idle" /\ asks'[r] = asks[r]
    /\ stage[r] = "answered" => stage'[r] = "answered" /\ outcome'[r] = outcome[r]

(* What the service of r has received, and answered. *)
ServiceKeeps(r) ==
    /\ r \in AuthCalls =>
          /\ pc[r] # "idle" => pc'[r] # "idle" /\ request'[r] = request[r]
          /\ pc[r] = "done" => pc'[r] = "done" /\ reply'[r] = reply[r]
    /\ r \in MovieCalls =>
          /\ movieState[r] # "idle" =>
                movieState'[r] # "idle" /\ movieRequest'[r] = movieRequest[r]
          /\ movieState[r] = "done" =>
                movieState'[r] = "done" /\ movieReply'[r] = movieReply[r]
    /\ r \in OrderCalls =>
          /\ orderState[r] # "idle" => orderState'[r] # "idle" /\ asked'[r] = asked[r]
          /\ orderState[r] = "done" => orderState'[r] = "done" /\ answer'[r] = answer[r]

(* Requests are settled by their first outcome, whichever step it is. *)
LEMMA AlwaysSettled ==
    ASSUME ClientTypes, [Next]_vars, NEW d \in RpcCalls
    PROVE  Settled(d)
<1>1. CASE UNCHANGED <<rpcVars, asks>>
  BY <1>1 DEF rpcVars, Settled
<1>2. ASSUME NEW r \in RpcCalls, Arrive(r) PROVE Settled(d)
  BY <1>2 DEF Arrive, Refuse, Send, End, ClientTypes, Settled
<1>3. ASSUME NEW r \in RpcCalls, Respond(r) PROVE Settled(d)
  BY <1>3 DEF Respond, Settle, End, Settled
<1>4. ASSUME NEW r \in RpcCalls, GiveUp(r) PROVE Settled(d)
  BY <1>4 DEF GiveUp, TimeOut, End, InFlight, Settled
<1>5. ASSUME NEW r \in RpcCalls, Deliver(r) PROVE Settled(d)
  BY <1>5 DEF Deliver, Received, Settled
<1>6. ASSUME NEW s \in Services, Open(s) PROVE Settled(d)
  BY <1>6 DEF Open, Connect, CallsAt, Settled
<1>7. ASSUME NEW s \in Services, CannotOpen(s) PROVE Settled(d)
  BY <1>7 DEF CannotOpen, ConnectFails, End, CallsAt, Settled
<1>8. ASSUME NEW s \in Services, Break(s) \/ ServiceDies(s) PROVE Settled(d)
  <2>1. asks' = asks /\ (Close(s) \/ UNCHANGED rpcVars)
    BY <1>8 DEF Break, ServiceDies, Fault
  <2> QED
    BY <2>1, <1>1 DEF Close, End, CallsAt, Settled
<1>9. CASE Crash
  BY <1>9 DEF Crash, Fault, ClientDies, InFlight, Settled
<1>10. ASSUME NEW l \in AuthCalls, Expire(l) PROVE UNCHANGED <<rpcVars, asks>>
  BY <1>10 DEF Expire, Fault
<1>11. CASE AuthRuns \/ CatalogRuns \/ OrdersRun \/ Quiescent \/ UNCHANGED vars
  BY <1>1, <1>11 DEF AuthRuns, CatalogRuns, OrdersRun, Quiescent, vars, gatewayVars
<1> QED
  BY <1>1, <1>2, <1>3, <1>4, <1>5, <1>6, <1>7, <1>8, <1>9, <1>10, <1>11 DEF Next

(* A step of a call of the catalog. *)
LEMMA MovieCall ==
    ASSUME MovieTypes, NEW c \in MovieCalls, Cat!Step(c)
    PROVE  /\ movieState[c] \in {"idle", "pending"}
           /\ movieState'[c] \in {"pending", "done"}
           /\ movieState[c] = "pending" =>
                 movieState'[c] = "done" /\ movieRequest'[c] = movieRequest[c]
           /\ \A d \in MovieCalls \ {c} :
                 /\ movieState'[d] = movieState[d]
                 /\ movieRequest'[d] = movieRequest[d]
                 /\ movieReply'[d] = movieReply[d]
<1>1. CASE Cat!Ask(c)
  BY <1>1 DEF Cat!Ask, MovieTypes
<1>2. CASE Cat!Refuse(c)
  BY <1>2 DEF Cat!Refuse, MovieTypes
<1>3. ASSUME NEW status, NEW body, Cat!Answer(c, status, body)
      PROVE  /\ movieState[c] = "pending" /\ movieState'[c] = "done"
             /\ movieRequest'[c] = movieRequest[c]
             /\ \A d \in MovieCalls \ {c} :
                   /\ movieState'[d] = movieState[d]
                   /\ movieRequest'[d] = movieRequest[d]
                   /\ movieReply'[d] = movieReply[d]
  BY <1>3 DEF Cat!Answer, MovieTypes
<1>4. CASE \E status, body : Cat!Answer(c, status, body)
  BY <1>3, <1>4
<1> QED
  BY <1>1, <1>2, <1>4 DEF Cat!Step, Cat!Missing, Cat!Find, Cat!List, Cat!Remove,
     Cat!Create, Cat!Duplicate, Cat!Update, Cat!Rename, Cat!Fail, Cat!Confirm

(* And one of the order service; looking the movie up is not its last.     *)
LEMMA OrderCall ==
    ASSUME OrderTypes, NEW c \in OrderCalls, Book!Step(c)
    PROVE  /\ movies' = movies
           /\ orderState[c] # "done"
           /\ orderState'[c] # "idle"
           /\ orderState[c] # "idle" => asked'[c] = asked[c]
           /\ \A d \in OrderCalls \ {c} :
                 /\ orderState'[d] = orderState[d]
                 /\ asked'[d] = asked[d]
                 /\ answer'[d] = answer[d]
                 /\ quote'[d] = quote[d]
<1>1. CASE Book!Ask(c)
  BY <1>1 DEF Book!Ask, OrderTypes
<1>2. CASE Book!Refuse(c)
  BY <1>2 DEF Book!Refuse, OrderTypes
<1>3. CASE Book!LookUp(c)
  BY <1>3 DEF Book!LookUp, OrderTypes
<1>4. ASSUME NEW status, NEW body, Book!Answer(c, status, body)
      PROVE  /\ movies' = movies
             /\ orderState[c] = "pending" /\ orderState'[c] = "done"
             /\ asked'[c] = asked[c]
             /\ \A d \in OrderCalls \ {c} :
                   /\ orderState'[d] = orderState[d]
                   /\ asked'[d] = asked[d]
                   /\ answer'[d] = answer[d]
                   /\ quote'[d] = quote[d]
  BY <1>4 DEF Book!Answer, OrderTypes
<1>5. CASE \E status, body : Book!Answer(c, status, body)
  BY <1>4, <1>5
<1> QED
  BY <1>1, <1>2, <1>3, <1>5 DEF Book!Step, Book!Place, Book!Decline, Book!List,
     Book!Missing, Book!Find, Book!Cancel, Book!Repeated, Book!Fail

(* The services forget nothing they have answered, and receive what is     *)
(* delivered.                                                              *)
LEMMA ServicesKeep ==
    ASSUME Accounts!Inv, MovieTypes, OrderTypes, [Next]_vars, NEW d \in RpcCalls
    PROVE  ServiceKeeps(d) /\ (Served(d)' => Served(d) \/ Deliver(d))
<1>1. AccountsStay
  BY AccountsKept
<1>2. CASE UNCHANGED <<authVars, catalogVars, orderVars>>
  BY <1>2 DEF authVars, catalogVars, orderVars, ServiceKeeps, Served
<1>3. ASSUME NEW r \in RpcCalls, Deliver(r)
      PROVE  ServiceKeeps(d) /\ (Served(d)' => Served(d) \/ d = r)
  <2>1. CASE r \in AuthCalls /\ AuthService!Receive(r) /\ UNCHANGED <<catalogVars, orderVars>>
    <3>1. \A c \in AuthCalls \ {r} : pc'[c] = pc[c]
      <4>1. Accounts!CallTypes
        BY DEF Accounts!Inv
      <4> QED
        BY <2>1, <4>1 DEF AuthService!Receive, Accounts!CallTypes
    <3> QED
      BY <1>1, <2>1, <3>1 DEF AccountsStay, catalogVars, orderVars, ServiceKeeps, Served
  <2>2. CASE /\ r \in MovieCalls /\ Cat!Step(r)
             /\ UNCHANGED <<authVars, orderVars>>
    BY <2>2, MovieCall DEF authVars, orderVars, ServiceKeeps, Served
  <2>3. CASE /\ r \in OrderCalls /\ Book!Step(r)
             /\ UNCHANGED <<authVars, spentMovies, movieState, movieRequest, movieReply>>
    BY <2>3, OrderCall DEF authVars, ServiceKeeps, Served
  <2> QED
    BY <1>3, <2>1, <2>2, <2>3 DEF Deliver, Cat!Step, Book!Step
<1>4. ASSUME NEW r \in RpcCalls, Arrive(r) \/ Respond(r) \/ GiveUp(r)
      PROVE  UNCHANGED <<authVars, catalogVars, orderVars>>
  BY <1>4 DEF Arrive, Respond, GiveUp
<1>5. ASSUME NEW s \in Services, Open(s) \/ CannotOpen(s) \/ Break(s)
      PROVE  UNCHANGED <<authVars, catalogVars, orderVars>>
  BY <1>5 DEF Open, CannotOpen, Break
<1>6. ASSUME NEW s \in Services, ServiceDies(s)
      PROVE  ServiceKeeps(d) /\ (Served(d)' => Served(d))
  <2>1. CASE AuthService!Crash /\ UNCHANGED <<catalogVars, orderVars>>
    BY <1>1, <2>1 DEF AuthService!Crash, AccountsStay, catalogVars, orderVars,
                      ServiceKeeps, Served
  <2>2. CASE Cat!Lose /\ UNCHANGED <<authVars, orderVars>>
    BY <2>2 DEF Cat!Lose, authVars, orderVars, MovieTypes, ServiceKeeps, Served
  <2>3. CASE Book!Lose /\ UNCHANGED <<authVars, catalogVars>>
    BY <2>3 DEF Book!Lose, authVars, catalogVars, OrderTypes, ServiceKeeps, Served
  <2> QED
    BY <1>6, <2>1, <2>2, <2>3 DEF ServiceDies
<1>7. ASSUME NEW l \in AuthCalls, Expire(l)
      PROVE  UNCHANGED <<authVars, catalogVars, orderVars>>
  BY <1>7 DEF Expire
<1>8. CASE AuthRuns
  <2>1. \A c \in AuthCalls : pc[c] = "idle" => pc'[c] = "idle"
    <3>1. CASE AuthService!Boot
      BY <3>1 DEF AuthService!Boot, AuthService!Start, AuthService!AdminCheck,
                  AuthService!AdminCreate, AuthService!callVars
    <3>2. ASSUME NEW c \in AuthCalls, pc[c] # "idle", AuthService!Step(c)
          PROVE  \A a \in AuthCalls : pc[a] = "idle" => pc'[a] = "idle"
      <4>1. Accounts!CallTypes
        BY DEF Accounts!Inv
      <4>2. \A a \in AuthCalls \ {c} : pc'[a] = pc[a]
        BY <3>2, <4>1, SameStep, Accounts!OthersKeep, SameAccounts,
           AccountsAssumption, CallsAssumption
      <4> QED
        BY <3>2, <4>2
    <3> QED
      BY <1>8, <3>1, <3>2 DEF AuthRuns
  <2> QED
    BY <1>1, <1>8, <2>1 DEF AuthRuns, AccountsStay, catalogVars, orderVars,
                            ServiceKeeps, Served
<1>9. CASE CatalogRuns
  <2>1. PICK c \in MovieCalls : movieState[c] # "idle" /\ Cat!Step(c)
    BY <1>9 DEF CatalogRuns
  <2> QED
    BY <1>9, <2>1, MovieCall DEF CatalogRuns, authVars, orderVars, ServiceKeeps, Served
<1>10. CASE OrdersRun
  <2>1. PICK c \in OrderCalls : orderState[c] # "idle" /\ Book!Step(c)
    BY <1>10 DEF OrdersRun
  <2> QED
    BY <1>10, <2>1, OrderCall DEF OrdersRun, authVars, ServiceKeeps, Served
<1>11. CASE Crash \/ Quiescent \/ UNCHANGED vars
  BY <1>2, <1>11 DEF Crash, Quiescent, vars
<1> QED
  BY <1>2, <1>3, <1>4, <1>5, <1>6, <1>7, <1>8, <1>9, <1>10, <1>11 DEF Next

-----------------------------------------------------------------------------
(* Requests. *)

(* The services have no request in common. *)
LEMMA OneService ==
    ASSUME NEW r \in RpcCalls, NEW status
    PROVE  /\ r \in AuthCalls =>
                 /\ r \notin MovieCalls /\ r \notin OrderCalls
                 /\ HasAnswered(r, status) => pc[r] = "done" /\ reply[r].status = status
           /\ r \in MovieCalls =>
                 /\ r \notin AuthCalls /\ r \notin OrderCalls
                 /\ HasAnswered(r, status) =>
                       movieState[r] = "done" /\ movieReply[r].status = status
           /\ r \in OrderCalls =>
                 /\ r \notin AuthCalls /\ r \notin MovieCalls
                 /\ HasAnswered(r, status) =>
                       orderState[r] = "done" /\ answer[r].status = status
           /\ HasAnswered(r, status) => Served(r)
  BY CallsAssumption DEF HasAnswered, Served

(* An answer of a service stays its answer. *)
LEMMA AnswerStays ==
    ASSUME NEW r \in RpcCalls, NEW status, ServiceKeeps(r), HasAnswered(r, status)
    PROVE  HasAnswered(r, status)'
  BY DEF ServiceKeeps, HasAnswered

(* Who has logged in has been answered by the auth service. *)
LEMMA LoginAnswered ==
    ASSUME NEW l \in AuthCalls, Known(l), LoggedIn(l)
    PROVE  /\ pc[l] = "done" /\ reply[l].status = OK
           /\ Faithful(l) /\ asks[l].route = "login"
<1>1. l \in RpcCalls
  BY CallsAssumption
<1>2. HasAnswered(l, OK)
  BY DEF LoggedIn, Known, Truthful
<1>3. pc[l] = "done" /\ reply[l].status = OK /\ Served(l)
  BY <1>1, <1>2, OneService
<1> QED
  BY <1>3 DEF LoggedIn, Known

(* And stays logged in as whom it said. *)
LEMMA LoginStays ==
    ASSUME NEW l \in AuthCalls, Known(l), Settled(l), ServiceKeeps(l), LoggedIn(l)
    PROVE  LoggedIn(l)' /\ reply'[l] = reply[l]
  BY LoginAnswered DEF LoggedIn, Settled, ServiceKeeps

AllSettled == \A d \in RpcCalls : Settled(d) /\ ServiceKeeps(d)

(* What the guards found of a request goes on being so, and so does the    *)
(* message that is made of it.                                             *)
LEMMA AdmittedStays ==
    ASSUME Requested, AllSettled, NEW r \in RpcCalls, stage[r] # "idle", Admitted(r)
    PROVE  /\ asks'[r] = asks[r]
           /\ Admitted(r)'
           /\ MessageOf(r)' = MessageOf(r)
<1>1. asks'[r] = asks[r]
  BY DEF AllSettled, Settled
<1>2. ASSUME NEW by \in AuthCalls, by = asks[r].by
      PROVE  LoggedIn(by)' /\ reply'[by] = reply[by]
  <2>1. by \in RpcCalls
    BY CallsAssumption
  <2>2. LoggedIn(by) /\ Known(by) /\ Settled(by) /\ ServiceKeeps(by)
    BY <1>2, <2>1 DEF Admitted, Requested, AllSettled
  <2> QED
    BY <2>2, LoginStays
<1>3. (Claims(asks[r].by))' = Claims(asks[r].by)
  BY <1>1, <1>2 DEF Claims
<1>4. Admitted(r)'
  BY <1>1, <1>2, <1>3 DEF Admitted, HasRole, LoggedIn
<1>5. MessageOf(r)' = MessageOf(r)
  BY <1>1, <1>3 DEF MessageOf
<1> QED
  BY <1>1, <1>4, <1>5

(* How a request that has been made may go on, seen from the client: as it *)
(* was, out over a new connection, to an answer, or lost.                  *)
Stays(d) ==
    stage'[d] = stage[d] /\ outcome'[d] = outcome[d] /\ (d \in sent' <=> d \in sent)
GoesOut(d) ==
    stage[d] = "connecting" /\ stage'[d] = "waiting" /\ outcome'[d] = outcome[d]
Ends(d) ==
    /\ stage[d] \in InFlight /\ stage'[d] = "answered"
    /\ d \in sent' <=> d \in sent
    /\ \/ outcome'[d] \in {BadGateway, Unavailable, GatewayTimeout}
       \/ HasAnswered(d, OK) /\ outcome'[d] = Success(asks[d].route)
       \/ outcome'[d] \in Statuses \ {OK} /\ HasAnswered(d, outcome'[d])
IsLost(d) ==
    /\ stage[d] \in InFlight /\ stage'[d] = "lost" /\ outcome'[d] = outcome[d]
    /\ d \in sent' <=> d \in sent
Goes(d) == asks'[d] = asks[d] /\ (Stays(d) \/ GoesOut(d) \/ Ends(d) \/ IsLost(d))

(* The status of a success is one. *)
LEMMA SuccessIs ==
    ASSUME NEW route
    PROVE  Success(route) \in {OK, 201, 204}
  BY DEF Success

(* What is known of a request stays known as it goes on. *)
LEMMA KnownGoes ==
    ASSUME Requested, AllSettled, NEW d \in RpcCalls, Goes(d), Served(d)' => Served(d)
    PROVE  Known(d)'
<1>1. Known(d) /\ Settled(d) /\ ServiceKeeps(d) /\ asks'[d] = asks[d]
  BY DEF Requested, AllSettled, Goes
<1>2. ASSUME NEW status, HasAnswered(d, status)
      PROVE  HasAnswered(d, status)' /\ Served(d) /\ d \notin sent
  BY <1>1, <1>2, AnswerStays, OneService DEF Known
<1>3. Truthful(d)'
  <2>1. Truthful(d)
    BY <1>1 DEF Known
  <2>2. ASSUME NEW o, o = outcome'[d]
        PROVE  /\ o # 0 => stage'[d] = "answered"
               /\ o \in {OK, 201, 204} =>
                     HasAnswered(d, OK)' /\ o = Success(asks'[d].route)
               /\ o \in 400..499 =>
                     d \notin sent' /\ (Served(d)' => HasAnswered(d, o)')
    <3>1. CASE outcome'[d] = outcome[d]
      <4>1. d \in sent' /\ d \notin sent => outcome[d] = 0
        BY <2>1, <3>1 DEF Goes, Stays, GoesOut, Ends, IsLost, Truthful, InFlight
      <4>2. o # 0 => stage'[d] = "answered"
        BY <2>1, <2>2, <3>1, <1>1 DEF Truthful, Settled
      <4>3. o \in {OK, 201, 204} => HasAnswered(d, OK)' /\ o = Success(asks'[d].route)
        BY <1>1, <1>2, <2>1, <2>2, <3>1 DEF Truthful
      <4>4. o \in 400..499 => d \notin sent' /\ (Served(d)' => HasAnswered(d, o)')
        <5>1. o \in 400..499 => o # 0
          OBVIOUS
        <5> QED
          BY <1>2, <2>1, <2>2, <3>1, <4>1, <5>1 DEF Truthful
      <4> QED
        BY <4>2, <4>3, <4>4
    <3>2. CASE Ends(d)
      <4>1. CASE o \in {BadGateway, Unavailable, GatewayTimeout}
        BY <2>2, <3>2, <4>1 DEF Ends, BadGateway, Unavailable, GatewayTimeout, OK
      <4>2. CASE HasAnswered(d, OK) /\ o = Success(asks[d].route)
        BY <1>1, <1>2, <2>2, <3>2, <4>2, SuccessIs DEF Ends, OK
      <4>3. CASE o \in Statuses \ {OK} /\ HasAnswered(d, o)
        <5>1. o \notin {OK, 201, 204}
          BY <4>3 DEF Statuses, OK, BadRequest, Unauthorized, Forbidden, NotFound,
                      Conflict, ServerError, BadGateway, Unavailable, GatewayTimeout
        <5> QED
          BY <1>2, <2>2, <3>2, <4>3, <5>1 DEF Ends
      <4> QED
        BY <2>2, <3>2, <4>1, <4>2, <4>3 DEF Ends
    <3> QED
      BY <3>1, <3>2 DEF Goes, Stays, GoesOut, IsLost
  <2> QED
    BY <2>2 DEF Truthful, HasAnswered
<1>4. CASE stage[d] = "idle"
  <2>1. Stays(d)
    BY <1>4 DEF Goes, GoesOut, Ends, IsLost, InFlight
  <2> QED
    BY <1>1, <1>3, <1>4, <2>1 DEF Known, Stays, InFlight, NoAsk
<1>5. CASE stage[d] # "idle"
  <2>1. stage'[d] # "idle"
    BY <1>1, <1>5 DEF Settled
  <2>2. Admitted(d) => Admitted(d)' /\ MessageOf(d)' = MessageOf(d)
    BY <1>5, AdmittedStays
  <2>3. Served(d)' => Admitted(d)' /\ Faithful(d)'
    <3> SUFFICES ASSUME Served(d)' PROVE Admitted(d)' /\ Faithful(d)'
      OBVIOUS
    <3>1. Served(d) /\ Admitted(d) /\ Faithful(d)
      BY <1>1 DEF Known
    <3> QED
      BY <1>1, <2>2, <3>1, OneService DEF Served, Faithful, ServiceKeeps
  <2>4. stage'[d] \in InFlight => Admitted(d)'
    BY <1>1, <2>2 DEF Known, Goes, Stays, GoesOut, Ends, IsLost, InFlight
  <2>5. stage'[d] = "connecting" => d \notin sent' /\ ~Served(d)'
    BY <1>1 DEF Known, Goes, Stays, GoesOut, Ends, IsLost
  <2>6. d \in sent' => ~Served(d)' /\ Admitted(d)'
    BY <1>1, <2>2 DEF Known, Goes, Stays, GoesOut, Ends, IsLost, InFlight
  <2> QED
    BY <1>1, <1>3, <1>5, <2>1, <2>3, <2>4, <2>5, <2>6 DEF Known
<1> QED
  BY <1>4, <1>5

(* A request that is made: the guards have admitted it, or it is answered. *)
LEMMA KnownArrives ==
    ASSUME ClientTypes, Requested, NEW r \in RpcCalls, Arrive(r)
    PROVE  Known(r)'
<1>1. PICK req \in HttpMenu[r] :
          /\ CanSend(req.by)
          /\ asks' = [asks EXCEPT ![r] = req]
          /\ LET authenticated == req.route \in Public \/ Verifies(req.by)
                 admitted == authenticated /\ HasRole(req)
             IN  \/ ~authenticated /\ Refuse(r, Unauthorized)
                 \/ authenticated /\ ~admitted /\ Refuse(r, Forbidden)
                 \/ admitted /\ ~req.valid /\ Refuse(r, BadRequest)
                 \/ admitted /\ req.valid /\ Send(r)
  BY DEF Arrive
<1>2. stage[r] = "idle" /\ r \notin sent /\ ~Served(r) /\ outcome[r] = 0
  <2>1. Known(r)
    BY DEF Requested
  <2> QED
    BY <2>1 DEF Arrive, Known, Truthful
<1>3. /\ asks'[r] = req
      /\ \A l \in AuthCalls \ {r} : asks'[l] = asks[l]
  BY <1>1, CallsAssumption DEF ClientTypes
<1>4. Served(r)' = Served(r) /\ reply' = reply
  BY DEF Arrive, authVars, catalogVars, orderVars, Served
<1>5. ASSUME NEW status \in {Unauthorized, Forbidden, BadRequest}, Refuse(r, status)
      PROVE  Known(r)'
  <2>1. stage'[r] = "answered" /\ outcome'[r] = status /\ r \notin sent'
    BY <1>2, <1>5 DEF Refuse, End
  <2>2. status \notin {OK, 201, 204}
    BY DEF Unauthorized, Forbidden, BadRequest, OK
  <2>3. Truthful(r)'
    BY <1>2, <1>4, <2>1, <2>2 DEF Truthful
  <2> QED
    BY <1>2, <1>3, <1>4, <2>1, <2>3 DEF Known, InFlight
<1>6. ASSUME req.route \in Public \/ Verifies(req.by), HasRole(req), Send(r)
      PROVE  Known(r)'
  <2>1. /\ outcome' = outcome
        /\ \/ stage'[r] = "waiting"
           \/ stage'[r] = "connecting" /\ r \notin sent'
        /\ \A l \in AuthCalls \ {r} : stage'[l] = stage[l]
    BY <1>2, <1>6, CallsAssumption DEF Send, ClientTypes
  <2>2. ASSUME NEW by \in AuthCalls, by = req.by
        PROVE  LoggedIn(by)'
    <3>1. LoggedIn(by) /\ by # r
      BY <1>1, <1>2, <2>2 DEF CanSend
    <3> QED
      BY <1>3, <2>1, <3>1 DEF LoggedIn
  <2>3. (Claims(asks[r].by))' = Claims(req.by)
    BY <1>3, <1>4 DEF Claims
  <2>4. Admitted(r)'
    BY <1>3, <1>6, <2>2, <2>3 DEF Admitted, HasRole, Verifies, LoggedIn
  <2>5. Truthful(r)'
    BY <1>2, <2>1 DEF Truthful, OK
  <2> QED
    BY <1>2, <1>3, <1>4, <2>1, <2>4, <2>5 DEF Known, InFlight
<1> QED
  BY <1>1, <1>5, <1>6

(* A message that is received: its service works on it from then on.       *)
LEMMA KnownReceived ==
    ASSUME Requested, AllSettled, Accounts!Inv, MovieTypes, OrderTypes,
           NEW r \in RpcCalls, Deliver(r)
    PROVE  Known(r)'
<1>1. r \in sent /\ r \notin sent' /\ stage' = stage /\ outcome' = outcome /\ asks' = asks
  BY DEF Deliver, Received
<1>2. Known(r) /\ ~Served(r) /\ Admitted(r) /\ stage[r] # "idle" /\ stage[r] # "connecting"
  BY <1>1 DEF Requested, Known
<1>3. Admitted(r)' /\ MessageOf(r)' = MessageOf(r)
  BY <1>2, AdmittedStays
<1>4. Faithful(r)'
  <2>1. /\ r \in AuthCalls => request'[r] = AuthService!Normalized(MessageOf(r))
        /\ r \in MovieCalls => movieRequest'[r] = MessageOf(r)
        /\ r \in OrderCalls => asked'[r] = MessageOf(r)
    BY CallsAssumption DEF Deliver
  <2>2. AuthService!Normalized(MessageOf(r))' = AuthService!Normalized(MessageOf(r))
    BY <1>3
  <2> QED
    BY <1>3, <2>1, <2>2 DEF Faithful
<1>5. Truthful(r)'
  <2>1. outcome[r] \notin {OK, 201, 204} /\ outcome[r] \notin 400..499
    BY <1>1, <1>2, OneService DEF Known, Truthful
  <2> QED
    BY <1>1, <1>2, <2>1 DEF Known, Truthful
<1> QED
  BY <1>1, <1>2, <1>3, <1>4, <1>5 DEF Known

(* Every other step lets every request go on as described. *)
LEMMA OthersGo ==
    ASSUME ClientTypes, [Next]_vars, NEW d \in RpcCalls, ~Arrive(d), ~Deliver(d)
    PROVE  Goes(d)
<1>1. CASE UNCHANGED <<rpcVars, asks>>
  BY <1>1 DEF rpcVars, Goes, Stays
<1>2. ASSUME NEW r \in RpcCalls, Arrive(r) PROVE Goes(d)
  <2>1. d # r
    BY <1>2
  <2> QED
    BY <1>2, <2>1 DEF Arrive, Refuse, Send, End, ClientTypes, Goes, Stays
<1>3. ASSUME NEW r \in RpcCalls, Respond(r) PROVE Goes(d)
  <2>1. CASE d # r
    BY <1>3, <2>1 DEF Respond, Settle, End, Goes, Stays
  <2>2. CASE d = r
    BY <1>3, <2>2 DEF Respond, Settle, End, Goes, Ends, InFlight
  <2> QED
    BY <2>1, <2>2
<1>4. ASSUME NEW r \in RpcCalls, GiveUp(r) PROVE Goes(d)
  BY <1>4 DEF GiveUp, TimeOut, End, Goes, Stays, Ends
<1>5. ASSUME NEW r \in RpcCalls, Deliver(r) PROVE Goes(d)
  BY <1>5 DEF Deliver, Received, Goes, Stays
<1>6. ASSUME NEW s \in Services, Open(s) PROVE Goes(d)
  BY <1>6 DEF Open, Connect, CallsAt, Goes, Stays, GoesOut
<1>7. ASSUME NEW s \in Services, CannotOpen(s) PROVE Goes(d)
  BY <1>7 DEF CannotOpen, ConnectFails, End, CallsAt, InFlight, Goes, Stays, Ends
<1>8. ASSUME NEW s \in Services, Break(s) \/ ServiceDies(s) PROVE Goes(d)
  <2>1. asks' = asks /\ (Close(s) \/ UNCHANGED rpcVars)
    BY <1>8 DEF Break, ServiceDies, Fault
  <2> QED
    BY <2>1, <1>1 DEF Close, End, CallsAt, InFlight, Goes, Stays, Ends
<1>9. CASE Crash
  BY <1>9 DEF Crash, Fault, ClientDies, Goes, Stays, IsLost
<1>10. ASSUME NEW l \in AuthCalls, Expire(l) PROVE UNCHANGED <<rpcVars, asks>>
  BY <1>10 DEF Expire, Fault
<1>11. CASE AuthRuns \/ CatalogRuns \/ OrdersRun \/ Quiescent \/ UNCHANGED vars
  BY <1>1, <1>11 DEF AuthRuns, CatalogRuns, OrdersRun, Quiescent, vars, gatewayVars
<1> QED
  BY <1>1, <1>2, <1>3, <1>4, <1>5, <1>6, <1>7, <1>8, <1>9, <1>10, <1>11 DEF Next

(* So what is known of the requests is known in every state.               *)
LEMMA RequestedKept ==
    ASSUME ClientTypes, MovieTypes, OrderTypes, Accounts!Inv, Requested, [Next]_vars
    PROVE  Requested'
<1>1. AllSettled
  BY AlwaysSettled, ServicesKeep DEF AllSettled
<1> SUFFICES ASSUME NEW d \in RpcCalls PROVE Known(d)'
  BY DEF Requested
<1>2. CASE Arrive(d)
  BY <1>2, KnownArrives
<1>3. CASE Deliver(d)
  BY <1>1, <1>3, KnownReceived
<1>4. CASE ~Arrive(d) /\ ~Deliver(d)
  <2>1. Goes(d)
    BY <1>4, OthersGo
  <2>2. Served(d)' => Served(d)
    BY <1>4, ServicesKeep
  <2> QED
    BY <1>1, <2>1, <2>2, KnownGoes
<1> QED
  BY <1>2, <1>3, <1>4

-----------------------------------------------------------------------------
(* Types. *)

(* The client's variables, and the requests. *)
LEMMA ClientTypesKept ==
    ASSUME ClientTypes, [Next]_vars
    PROVE  ClientTypes'
<1>1. CASE UNCHANGED gatewayVars
  BY <1>1 DEF gatewayVars, rpcVars, ClientTypes
<1>2. ASSUME NEW R, NEW status \in Statuses \union {201, 204}, End(R, status)
      PROVE  /\ stage' \in [RpcCalls -> Stages]
             /\ outcome' \in [RpcCalls -> Statuses \union {0, 201, 204}]
  BY <1>2 DEF End, ClientTypes, Stages
<1>3. /\ Unauthorized \in Statuses /\ Forbidden \in Statuses /\ BadRequest \in Statuses
      /\ BadGateway \in Statuses /\ Unavailable \in Statuses
      /\ GatewayTimeout \in Statuses /\ OK \in Statuses
  BY DEF Statuses
<1>4. ASSUME NEW r \in RpcCalls, Arrive(r) PROVE ClientTypes'
  <2>1. /\ UNCHANGED <<expired, faults>>
        /\ \E req : asks' = [asks EXCEPT ![r] = req]
        /\ \/ \E status \in Statuses : Refuse(r, status)
           \/ Send(r)
    BY <1>3, <1>4 DEF Arrive
  <2>2. CASE \E status \in Statuses : Refuse(r, status)
    BY <1>2, <2>1, <2>2 DEF Refuse, ClientTypes
  <2>3. CASE Send(r)
    BY <2>1, <2>3 DEF Send, ClientTypes, Stages, InFlight
  <2> QED
    BY <2>1, <2>2, <2>3
<1>5. ASSUME NEW r \in RpcCalls, Respond(r) PROVE ClientTypes'
  <2>1. \E status \in Statuses \union {201, 204} : Settle(r, status)
    BY <1>3, <1>5, SuccessIs DEF Respond
  <2> QED
    BY <1>2, <1>5, <2>1 DEF Respond, Settle, ClientTypes
<1>6. ASSUME NEW r \in RpcCalls, GiveUp(r) PROVE ClientTypes'
  BY <1>2, <1>3, <1>6 DEF GiveUp, TimeOut, ClientTypes
<1>7. ASSUME NEW r \in RpcCalls, Deliver(r) PROVE ClientTypes'
  BY <1>7 DEF Deliver, Received, ClientTypes
<1>8. ASSUME NEW s \in Services, Open(s) PROVE ClientTypes'
  BY <1>8 DEF Open, Connect, CallsAt, ClientTypes, Stages, InFlight
<1>9. ASSUME NEW s \in Services, CannotOpen(s) PROVE ClientTypes'
  BY <1>2, <1>3, <1>9 DEF CannotOpen, ConnectFails, ClientTypes
<1>10. ASSUME Fault PROVE faults' \in 0..MaxFaults /\ asks' = asks
  BY <1>10, CallsAssumption DEF Fault, ClientTypes
<1>11. ASSUME NEW s \in Services, Close(s), asks' = asks, faults' \in 0..MaxFaults,
              expired' = expired
       PROVE  ClientTypes'
  BY <1>2, <1>3, <1>11 DEF Close, ClientTypes
<1>12. ASSUME NEW s \in Services, Break(s) \/ ServiceDies(s) PROVE ClientTypes'
  <2>1. Fault /\ expired' = expired /\ (Close(s) \/ UNCHANGED rpcVars)
    BY <1>12 DEF Break, ServiceDies
  <2> QED
    BY <1>10, <1>11, <2>1 DEF rpcVars, ClientTypes
<1>13. CASE Crash
  BY <1>10, <1>13 DEF Crash, ClientDies, ClientTypes, Stages
<1>14. ASSUME NEW l \in AuthCalls, Expire(l) PROVE ClientTypes'
  BY <1>10, <1>14 DEF Expire, rpcVars, ClientTypes
<1>15. CASE AuthRuns \/ CatalogRuns \/ OrdersRun \/ Quiescent \/ UNCHANGED vars
  BY <1>1, <1>15 DEF AuthRuns, CatalogRuns, OrdersRun, Quiescent, vars
<1> QED
  BY <1>4, <1>5, <1>6, <1>7, <1>8, <1>9, <1>12, <1>13, <1>14, <1>15 DEF Next

(* The requests of the catalog, by their operations. *)
LEMMA MovieRequestFields ==
    ASSUME NEW req \in Cat!Requests
    PROVE  /\ req.op = "create" => req.movie \in Cat!Row
           /\ req.op = "update" => req.changes \in Cat!Changes
  BY DEF Cat!Requests, Cat!IdRequests, Cat!UpdateRequests, Cat!CreateRequests,
         Cat!FindAllRequests

(* A row that is merged with changes is a movie. *)
LEMMA MergeType ==
    ASSUME NEW movie \in Cat!Row, NEW changes \in Cat!Changes,
           Cat!HasNoNull(Cat!Merge(movie, changes))
    PROVE  Cat!Merge(movie, changes) \in Cat!Row
<1>1. PICK cols \in SUBSET Cat!Columns : changes \in [cols -> Values \union {Null}]
  BY DEF Cat!Changes
<1>2. movie \in [Cat!Columns -> Values \union {Null}]
  BY DEF Cat!Row, Cat!Movie
<1>3. Cat!Merge(movie, changes) \in Cat!Movie
  BY <1>1, <1>2 DEF Cat!Merge, Cat!Movie
<1> QED
  BY <1>3 DEF Cat!Row

(* A step of the catalog. *)
LEMMA MovieStepTypes ==
    ASSUME MovieTypes, NEW c \in MovieCalls, Cat!Step(c)
    PROVE  MovieTypes'
<1> DEFINE Calls ==
        /\ movieState' \in [MovieCalls -> CallStates]
        /\ movieRequest' \in [MovieCalls -> Cat!Requests \union {Cat!NoRequest}]
        /\ movieReply' = [d \in MovieCalls |-> movieReply'[d]]
        /\ \A d \in MovieCalls : movieState'[d] = "done" => movieReply'[d].status \in Statuses
<1>1. \A req \in MovieMenu[c] : req \in Cat!Requests
  BY MoviesAssumption
<1>2. Cat!OK \in Statuses /\ Cat!NotFound \in Statuses /\ Cat!Conflict \in Statuses
      /\ Cat!ServerError \in Statuses /\ Cat!BadRequest \in Statuses
  BY DEF Statuses, OK, BadRequest, NotFound, Conflict, ServerError, Cat!OK,
         Cat!NotFound, Cat!Conflict, Cat!ServerError, Cat!BadRequest
<1>3. CASE Cat!Ask(c)
  <2>1. Calls /\ movies' = movies
    BY <1>1, <1>3 DEF Cat!Ask, MovieTypes, CallStates
  <2> QED
    BY <2>1 DEF MovieTypes
<1>4. CASE Cat!Refuse(c)
  <2>1. Calls /\ movies' = movies
    BY <1>1, <1>2, <1>4 DEF Cat!Refuse, MovieTypes, CallStates
  <2> QED
    BY <2>1 DEF MovieTypes
<1>5. ASSUME NEW status \in Statuses, NEW body, Cat!Answer(c, status, body)
      PROVE  Calls
  BY <1>5 DEF Cat!Answer, MovieTypes, CallStates
<1> HIDE DEF Calls
<1>6. ASSUME NEW body, Cat!Confirm(c, body)
      PROVE  Calls
  BY <1>2, <1>5, <1>6 DEF Cat!Confirm
<1>7. CASE Cat!Missing(c) \/ Cat!Find(c) \/ Cat!List(c) \/ Cat!Duplicate(c) \/ Cat!Rename(c)
              \/ Cat!Fail(c)
  <2>1. Calls
    BY <1>2, <1>5, <1>7 DEF Cat!Missing, Cat!Find, Cat!List, Cat!Duplicate,
                            Cat!Rename, Cat!Fail
  <2>2. movies' = movies
    BY <1>7 DEF Cat!Missing, Cat!Find, Cat!List, Cat!Duplicate, Cat!Rename, Cat!Fail
  <2> QED
    BY <2>1, <2>2 DEF MovieTypes, Calls
<1>8. CASE Cat!Remove(c)
  <2>1. Calls
    BY <1>6, <1>8 DEF Cat!Remove
  <2>2. movies' \in [Cat!MovieIds -> Cat!Row \union {NoRow}]
    BY <1>8 DEF Cat!Remove, MovieTypes
  <2> QED
    BY <2>1, <2>2 DEF MovieTypes, Calls
<1>9. CASE Cat!Create(c)
  <2>1. Calls
    BY <1>6, <1>9 DEF Cat!Create
  <2>2. movieRequest[c].movie \in Cat!Row
    BY <1>9, MovieRequestFields DEF Cat!Create, MovieTypes, Cat!NoRequest
  <2>3. movies' \in [Cat!MovieIds -> Cat!Row \union {NoRow}]
    BY <1>9, <2>2 DEF Cat!Create, MovieTypes
  <2> QED
    BY <2>1, <2>3 DEF MovieTypes, Calls
<1>10. CASE Cat!Update(c)
  <2> DEFINE i == movieRequest[c].id
             new == Cat!Merge(movies[i], movieRequest[c].changes)
  <2>1. Calls
    BY <1>6, <1>10 DEF Cat!Update
  <2>2. movieRequest[c].changes \in Cat!Changes /\ movies[i] \in Cat!Row
    BY <1>10, MovieRequestFields DEF Cat!Update, Cat!Exists, MovieTypes, Cat!NoRequest
  <2>3. Cat!HasNoNull(new) /\ movies' = [movies EXCEPT ![i] = new]
    BY <1>10 DEF Cat!Update
  <2>4. new \in Cat!Row
    BY <2>2, <2>3, MergeType
  <2> HIDE DEF new
  <2>5. movies' \in [Cat!MovieIds -> Cat!Row \union {NoRow}]
    BY <2>3, <2>4 DEF MovieTypes
  <2> QED
    BY <2>1, <2>5 DEF MovieTypes, Calls
<1> QED
  BY <1>3, <1>4, <1>7, <1>8, <1>9, <1>10 DEF Cat!Step

(* The columns an order copies from a movie are filled. *)
LEMMA RowFields ==
    ASSUME NEW movie \in Cat!Row
    PROVE  movie.title \in Values /\ movie.releaseYear \in Values /\ movie.ticketPrice \in Values
  BY DEF Cat!Row, Cat!Movie, Cat!HasNoNull, Cat!Columns, Cat!Nullable

(* The requests of the order service, by their operations. *)
LEMMA OrderRequestFields ==
    ASSUME NEW req \in OrderRequests
    PROVE  /\ req.userId \in AuthService!UserIds
           /\ req.op = "create" => req.quantity \in 1..10
           /\ req.op \in {"create", "list", "find", "cancel"}
           /\ req # Book!NoRequest
  BY DEF OrderRequests, Book!NoRequest

(* An order made of a quote, and one that is cancelled, are orders.        *)
LEMMA PlacedType ==
    ASSUME NEW c \in OrderCalls, asked[c] \in OrderRequests, asked[c].op = "create", Quoted(c)
    PROVE  Book!OrderOf(c) \in Order /\ Book!OrderOf(c).userId = asked[c].userId
<1> DEFINE total == Cents[quote[c].ticketPrice] * asked[c].quantity
<1>1. asked[c].userId \in AuthService!UserIds /\ asked[c].quantity \in 1..10
  BY OrderRequestFields
<1>2. total \in Nat
  <2>1. Cents[quote[c].ticketPrice] \in Nat
    BY OrdersAssumption DEF Quoted
  <2> QED
    BY <1>1, <2>1
<1>3. Book!OrderOf(c) =
        [userId |-> asked[c].userId, movieId |-> quote[c].movieId,
         movieTitle |-> quote[c].movieTitle,
         movieReleaseYear |-> quote[c].movieReleaseYear,
         ticketPrice |-> quote[c].ticketPrice, quantity |-> asked[c].quantity,
         totalPrice |-> total, status |-> "CONFIRMED"]
  BY DEF Book!OrderOf
<1> HIDE DEF total
<1> QED
  BY <1>1, <1>2, <1>3 DEF Order, Quoted

(* The rest of the row stays. *)
LEMMA CancelledType ==
    ASSUME NEW o \in Order
    PROVE  /\ [o EXCEPT !.status = "CANCELLED"] \in Order
           /\ [o EXCEPT !.status = "CANCELLED"].userId = o.userId
           /\ o # NoOrder
  BY OrdersAssumption DEF Order

(* What a call that a step of the order service answers is left with.      *)
OrderCallTypes ==
    /\ orderState \in [OrderCalls -> CallStates]
    /\ asked \in [OrderCalls -> OrderRequests \union {Book!NoRequest}]
    /\ answer = [c \in OrderCalls |-> answer[c]]
    /\ quote = [c \in OrderCalls |-> quote[c]]
    /\ \A c \in OrderCalls :
          /\ orderState[c] = "done" => answer[c].status \in Statuses
          /\ orderState[c] # "idle" => asked[c] \in OrderRequests
          /\ quote[c].known = "movie" =>
                orderState[c] = "pending" /\ asked[c].op = "create" /\ Quoted(c)

(* OrderTypes is that, and the rows. *)
LEMMA OrderTypesParts ==
    OrderTypes <=> OrderCallTypes /\ orders \in [OrderIds -> Order \union {NoOrder}]
  BY DEF OrderTypes, OrderCallTypes

(* An answer of the order service. *)
LEMMA OrderAnswerTypes ==
    ASSUME OrderCallTypes, NEW c \in OrderCalls, NEW status \in Statuses, NEW body,
           Book!Answer(c, status, body)
    PROVE  OrderCallTypes'
<1>1. /\ orderState[c] = "pending"
      /\ orderState' = [orderState EXCEPT ![c] = "done"]
      /\ answer' = [answer EXCEPT ![c] = [status |-> status, body |-> body]]
      /\ quote' = [quote EXCEPT ![c] = Book!NoQuote]
      /\ asked' = asked
  BY DEF Book!Answer
<1>2. /\ orderState' \in [OrderCalls -> CallStates]
      /\ asked' \in [OrderCalls -> OrderRequests \union {Book!NoRequest}]
      /\ answer' = [d \in OrderCalls |-> answer'[d]]
      /\ quote' = [d \in OrderCalls |-> quote'[d]]
  BY <1>1 DEF OrderCallTypes, CallStates
<1>3. /\ orderState'[c] = "done" /\ answer'[c].status = status
      /\ asked[c] \in OrderRequests /\ quote'[c].known = "nothing"
  BY <1>1 DEF OrderCallTypes, Book!NoQuote
<1>4. \A d \in OrderCalls \ {c} :
          orderState'[d] = orderState[d] /\ answer'[d] = answer[d] /\ quote'[d] = quote[d]
  BY <1>1 DEF OrderCallTypes
<1> QED
  BY <1>1, <1>2, <1>3, <1>4 DEF OrderCallTypes, Quoted

(* A step of the order service. *)
LEMMA OrderStepTypes ==
    ASSUME MovieTypes, OrderTypes, NEW c \in OrderCalls, Book!Step(c)
    PROVE  OrderTypes'
<1>1. \A req \in OrderMenu[c] : req \in OrderRequests
  BY OrdersAssumption
<1>2. /\ Book!OK \in Statuses /\ Book!NotFound \in Statuses /\ Book!Conflict \in Statuses
      /\ Book!ServerError \in Statuses /\ Book!BadRequest \in Statuses
      /\ Book!BadGateway \in Statuses /\ Book!Unavailable \in Statuses
      /\ Book!GatewayTimeout \in Statuses
  BY DEF Statuses, OK, BadRequest, NotFound, Conflict, ServerError, BadGateway,
         Unavailable, GatewayTimeout, Book!OK, Book!NotFound, Book!Conflict,
         Book!ServerError, Book!BadRequest, Book!BadGateway, Book!Unavailable,
         Book!GatewayTimeout
<1>3. OrderCallTypes /\ orders \in [OrderIds -> Order \union {NoOrder}]
  BY OrderTypesParts
<1>4. CASE Book!Ask(c)
  <2>1. /\ orders' = orders /\ quote' = quote /\ answer' = answer
        /\ orderState' = [orderState EXCEPT ![c] = "pending"]
        /\ orderState[c] = "idle"
        /\ \E req \in OrderRequests : asked' = [asked EXCEPT ![c] = req]
    BY <1>1, <1>4 DEF Book!Ask
  <2>2. quote[c].known # "movie"
    BY <1>3, <2>1 DEF OrderCallTypes
  <2>3. OrderCallTypes'
    BY <1>3, <2>1, <2>2 DEF OrderCallTypes, CallStates, Quoted
  <2> QED
    BY <1>3, <2>1, <2>3, OrderTypesParts DEF OrderTypes, OrderCallTypes
<1>5. CASE Book!Refuse(c)
  <2>1. /\ orders' = orders /\ quote' = quote
        /\ answer' = [answer EXCEPT ![c] = [status |-> Book!BadRequest, body |-> {}]]
        /\ orderState' = [orderState EXCEPT ![c] = "done"]
        /\ orderState[c] = "idle"
        /\ \E req \in OrderRequests : asked' = [asked EXCEPT ![c] = req]
    BY <1>1, <1>5 DEF Book!Refuse
  <2>2. quote[c].known # "movie"
    BY <1>3, <2>1 DEF OrderCallTypes
  <2>3. OrderCallTypes'
    BY <1>2, <1>3, <2>1, <2>2 DEF OrderCallTypes, CallStates, Quoted
  <2> QED
    BY <1>3, <2>1, <2>3 DEF OrderTypes, OrderCallTypes
<1>6. CASE Book!LookUp(c)
  <2> DEFINE i == asked[c].movieId
  <2>1. /\ orders' = orders /\ orderState' = orderState /\ asked' = asked
        /\ answer' = answer /\ orderState[c] = "pending" /\ asked[c].op = "create"
        /\ quote' = [quote EXCEPT ![c] =
              IF i \in Book!MovieIds /\ movies[i] # NoRow
              THEN Book!Quote(i, movies[i]) ELSE Book!NoSuchMovie]
    BY <1>6 DEF Book!LookUp
  <2>2. Book!MovieIds = Cat!MovieIds
    BY DEF Book!MovieIds, Cat!MovieIds
  <2>3. quote'[c].known = "movie" => Quoted(c)'
    <3>1. CASE i \in Book!MovieIds /\ movies[i] # NoRow
      <4>1. movies[i] \in Cat!Row
        BY <2>2, <3>1 DEF MovieTypes
      <4>2. quote'[c] = Book!Quote(i, movies[i])
        BY <1>3, <2>1, <3>1 DEF OrderCallTypes
      <4> QED
        BY <2>2, <3>1, <4>1, <4>2, RowFields DEF Book!Quote, Quoted
    <3>2. CASE ~(i \in Book!MovieIds /\ movies[i] # NoRow)
      BY <1>3, <2>1, <3>2 DEF OrderCallTypes, Book!NoSuchMovie
    <3> QED
      BY <3>1, <3>2
  <2>4. \A d \in OrderCalls \ {c} : quote'[d] = quote[d]
    BY <1>3, <2>1 DEF OrderCallTypes
  <2>5. quote' = [d \in OrderCalls |-> quote'[d]]
    BY <1>3, <2>1 DEF OrderCallTypes
  <2>6. OrderCallTypes'
    BY <1>3, <2>1, <2>3, <2>4, <2>5 DEF OrderCallTypes, Quoted
  <2> QED
    BY <1>3, <2>1, <2>6 DEF OrderTypes, OrderCallTypes
<1>7. ASSUME NEW body,
             \/ \E status \in Statuses : Book!Answer(c, status, body)
             \/ Book!Answer(c, Book!OK, body) \/ Book!Answer(c, Book!ServerError, {})
      PROVE  OrderCallTypes'
  BY <1>2, <1>3, <1>7, OrderAnswerTypes
<1>8. ASSUME OrderCallTypes', orders' \in [OrderIds -> Order \union {NoOrder}]
      PROVE  OrderTypes'
  BY <1>8 DEF OrderTypes, OrderCallTypes
<1>9. CASE Book!Place(c)
  <2>1. OrderCallTypes'
    BY <1>7, <1>9 DEF Book!Place
  <2>2. quote[c].known = "movie" /\ \E i \in OrderIds : orders' = [orders EXCEPT ![i] = Book!OrderOf(c)]
    BY <1>9 DEF Book!Place
  <2>3. Book!OrderOf(c) \in Order
    BY <1>3, <2>2, PlacedType DEF OrderCallTypes
  <2> QED
    BY <1>3, <1>8, <2>1, <2>2, <2>3
<1>10. CASE Book!Cancel(c)
  <2> DEFINE i == asked[c].orderId
             cancelled == [orders[i] EXCEPT !.status = "CANCELLED"]
  <2>1. OrderCallTypes'
    BY <1>7, <1>10 DEF Book!Cancel
  <2>2. i \in OrderIds /\ orders[i] # NoOrder /\ orders' = [orders EXCEPT ![i] = cancelled]
    BY <1>10 DEF Book!Cancel, Book!Owns
  <2>3. cancelled \in Order
    BY <1>3, <2>2, CancelledType
  <2> HIDE DEF cancelled
  <2>4. orders' \in [OrderIds -> Order \union {NoOrder}]
    BY <1>3, <2>2, <2>3
  <2> QED
    BY <1>8, <2>1, <2>4
<1>11. CASE Book!Decline(c) \/ Book!List(c) \/ Book!Missing(c) \/ Book!Find(c)
               \/ Book!Repeated(c) \/ Book!Fail(c)
  <2>1. \E status \in Statuses : \E body : Book!Answer(c, status, body)
    BY <1>2, <1>11 DEF Book!Decline, Book!List, Book!Missing, Book!Find,
                       Book!Repeated, Book!Fail
  <2>2. orders' = orders
    BY <1>11 DEF Book!Decline, Book!List, Book!Missing, Book!Find, Book!Repeated,
                 Book!Fail
  <2> QED
    BY <1>3, <1>8, <1>7, <2>1, <2>2
<1> QED
  BY <1>4, <1>5, <1>6, <1>9, <1>10, <1>11 DEF Book!Step

(* What the gateway's step does to the movies: nothing, or a step of the   *)
(* catalog.                                                                *)
LEMMA MovieStep ==
    ASSUME OrderTypes, [Next]_vars
    PROVE  UNCHANGED catalogVars \/ Cat!Lose \/ \E c \in MovieCalls : Cat!Step(c)
<1>1. ASSUME NEW r \in RpcCalls, Deliver(r)
      PROVE  UNCHANGED catalogVars \/ \E c \in MovieCalls : Cat!Step(c)
  <2>1. CASE r \in OrderCalls /\ (Book!Ask(r) \/ Book!Refuse(r))
             /\ UNCHANGED <<spentMovies, movieState, movieRequest, movieReply>>
    BY <2>1 DEF Book!Ask, Book!Refuse, catalogVars
  <2> QED
    BY <1>1, <2>1 DEF Deliver, Cat!Step
<1>2. ASSUME NEW r \in RpcCalls, Arrive(r) \/ Respond(r) \/ GiveUp(r)
      PROVE  UNCHANGED catalogVars
  BY <1>2 DEF Arrive, Respond, GiveUp
<1>3. ASSUME NEW s \in Services, Open(s) \/ CannotOpen(s) \/ Break(s)
      PROVE  UNCHANGED catalogVars
  BY <1>3 DEF Open, CannotOpen, Break
<1>4. ASSUME NEW s \in Services, ServiceDies(s)
      PROVE  UNCHANGED catalogVars \/ Cat!Lose
  BY <1>4 DEF ServiceDies
<1>5. ASSUME NEW l \in AuthCalls, Expire(l)
      PROVE  UNCHANGED catalogVars
  BY <1>5 DEF Expire
<1>6. CASE OrdersRun
  <2>1. movies' = movies
    BY <1>6, OrderCall DEF OrdersRun
  <2> QED
    BY <1>6, <2>1 DEF OrdersRun, catalogVars
<1>7. CASE CatalogRuns
  BY <1>7 DEF CatalogRuns
<1>8. CASE AuthRuns \/ Crash \/ Quiescent \/ UNCHANGED vars
  BY <1>8 DEF AuthRuns, Crash, Quiescent, vars
<1> QED
  BY <1>1, <1>2, <1>3, <1>4, <1>5, <1>6, <1>7, <1>8 DEF Next

(* And to the orders. *)
LEMMA OrderStep ==
    ASSUME [Next]_vars
    PROVE  UNCHANGED orderVars \/ Book!Lose \/ \E c \in OrderCalls : Book!Step(c)
<1>1. ASSUME NEW r \in RpcCalls, Deliver(r)
      PROVE  UNCHANGED orderVars \/ \E c \in OrderCalls : Book!Step(c)
  BY <1>1 DEF Deliver, Book!Step
<1>2. ASSUME NEW r \in RpcCalls, Arrive(r) \/ Respond(r) \/ GiveUp(r)
      PROVE  UNCHANGED orderVars
  BY <1>2 DEF Arrive, Respond, GiveUp
<1>3. ASSUME NEW s \in Services, Open(s) \/ CannotOpen(s) \/ Break(s)
      PROVE  UNCHANGED orderVars
  BY <1>3 DEF Open, CannotOpen, Break
<1>4. ASSUME NEW s \in Services, ServiceDies(s)
      PROVE  UNCHANGED orderVars \/ Book!Lose
  BY <1>4 DEF ServiceDies
<1>5. ASSUME NEW l \in AuthCalls, Expire(l)
      PROVE  UNCHANGED orderVars
  BY <1>5 DEF Expire
<1>6. CASE OrdersRun
  BY <1>6 DEF OrdersRun
<1>7. CASE CatalogRuns \/ AuthRuns \/ Crash \/ Quiescent \/ UNCHANGED vars
  BY <1>7 DEF CatalogRuns, AuthRuns, Crash, Quiescent, vars
<1> QED
  BY <1>1, <1>2, <1>3, <1>4, <1>5, <1>6, <1>7 DEF Next

(* Movies and orders keep their types. *)
LEMMA ServiceTypesKept ==
    ASSUME MovieTypes, OrderTypes, [Next]_vars
    PROVE  MovieTypes' /\ OrderTypes'
<1>1. MovieTypes'
  <2>1. CASE UNCHANGED catalogVars
    BY <2>1 DEF catalogVars, MovieTypes
  <2>2. CASE Cat!Lose
    BY <2>2 DEF Cat!Lose, MovieTypes, CallStates
  <2> QED
    BY <2>1, <2>2, MovieStep, MovieStepTypes
<1>2. OrderTypes'
  <2>1. CASE UNCHANGED orderVars
    BY <2>1 DEF orderVars, OrderTypes, Quoted
  <2>2. CASE Book!Lose
    <3>1. /\ orderState' = [c \in OrderCalls |->
                IF orderState[c] = "pending" THEN "lost" ELSE orderState[c]]
          /\ quote' = [c \in OrderCalls |-> Book!NoQuote]
          /\ orders' = orders /\ asked' = asked /\ answer' = answer
      BY <2>2 DEF Book!Lose
    <3>2. orderState' \in [OrderCalls -> CallStates]
      BY <3>1 DEF OrderTypes, CallStates
    <3>3. \A c \in OrderCalls :
              /\ quote'[c].known # "movie"
              /\ orderState'[c] = "done" => orderState[c] = "done"
              /\ orderState'[c] # "idle" => orderState[c] # "idle"
      BY <3>1 DEF Book!NoQuote
    <3> QED
      BY <3>1, <3>2, <3>3 DEF OrderTypes
  <2> QED
    BY <2>1, <2>2, OrderStep, OrderStepTypes
<1> QED
  BY <1>1, <1>2

-----------------------------------------------------------------------------
(* The orders there are. *)

(* What a step of the order service does to the table: it places an order  *)
(* for a call that ends with it, or leaves every row with its owner.       *)
Places(c, i) ==
    /\ i \in OrderIds \ spentOrders
    /\ spentOrders' = spentOrders \union {i}
    /\ orders' = [orders EXCEPT ![i] = Book!OrderOf(c)]
    /\ Book!OrderOf(c) \in Order
    /\ asked[c].op = "create" /\ orderState[c] = "pending"
    /\ asked'[c] = asked[c] /\ orderState'[c] = "done"
    /\ answer'[c].status \in {OK, ServerError}

KeepsRows ==
    /\ spentOrders' = spentOrders
    /\ \A i \in OrderIds :
          /\ orders'[i] # NoOrder <=> orders[i] # NoOrder
          /\ orders[i] # NoOrder => orders'[i].userId = orders[i].userId

(* No call is answered with an order that the step has not placed. *)
NonePlaced ==
    \A d \in OrderCalls :
        orderState'[d] = "done" /\ orderState[d] # "done" /\ asked'[d].op = "create"
            => answer'[d].status # OK

(* One or the other. *)
LEMMA OrderEffect ==
    ASSUME OrderTypes, NEW c \in OrderCalls, Book!Step(c)
    PROVE  \/ \E i : Places(c, i)
           \/ KeepsRows /\ NonePlaced
<1>1. Book!OK = OK /\ Book!ServerError = ServerError /\ OK # ServerError
  BY DEF Book!OK, Book!ServerError, OK, ServerError
<1>2. \A d \in OrderCalls \ {c} : orderState'[d] = orderState[d]
  BY OrderCall
<1>3. ASSUME NEW status, NEW body, Book!Answer(c, status, body)
      PROVE  /\ orderState[c] = "pending" /\ orderState'[c] = "done" /\ asked'[c] = asked[c]
             /\ answer'[c].status = status
  BY <1>3 DEF Book!Answer, OrderTypes
<1>4. CASE Book!Place(c)
  <2>1. PICK i \in OrderIds \ spentOrders :
            /\ spentOrders' = spentOrders \union {i}
            /\ orders' = [orders EXCEPT ![i] = Book!OrderOf(c)]
            /\ \/ Book!Answer(c, Book!OK, {<<i, Book!OrderOf(c)>>})
               \/ Book!Answer(c, Book!ServerError, {})
    BY <1>4 DEF Book!Place
  <2>2. asked[c] \in OrderRequests /\ asked[c].op = "create" /\ Quoted(c)
    BY <1>4 DEF Book!Place, OrderTypes
  <2>3. Book!OrderOf(c) \in Order
    BY <2>2, PlacedType
  <2> QED
    BY <1>1, <1>3, <2>1, <2>2, <2>3 DEF Places
<1>5. CASE Book!Cancel(c)
  <2> DEFINE i == asked[c].orderId
             cancelled == [orders[i] EXCEPT !.status = "CANCELLED"]
  <2>1. /\ i \in OrderIds /\ orders[i] # NoOrder
        /\ orders' = [orders EXCEPT ![i] = cancelled]
        /\ spentOrders' = spentOrders /\ asked[c].op = "cancel" /\ asked' = asked
    BY <1>5 DEF Book!Cancel, Book!Owns, Book!Answer
  <2>2. orders[i] \in Order
    BY <2>1 DEF OrderTypes
  <2>3. cancelled # NoOrder /\ cancelled.userId = orders[i].userId
    BY <2>2, CancelledType
  <2> HIDE DEF cancelled
  <2>4. KeepsRows
    BY <2>1, <2>3 DEF KeepsRows, OrderTypes
  <2>5. NonePlaced
    BY <1>2, <2>1 DEF NonePlaced
  <2> QED
    BY <2>4, <2>5
<1>6. CASE Book!Ask(c) \/ Book!LookUp(c)
  <2>1. orders' = orders /\ spentOrders' = spentOrders
    BY <1>6 DEF Book!Ask, Book!LookUp
  <2>2. orderState'[c] # "done"
    BY <1>6 DEF Book!Ask, Book!LookUp, OrderTypes
  <2> QED
    BY <1>2, <2>1, <2>2 DEF KeepsRows, NonePlaced
<1>7. CASE Book!Refuse(c)
  <2>1. orders' = orders /\ spentOrders' = spentOrders /\ answer'[c].status # OK
    BY <1>7 DEF Book!Refuse, OrderTypes, Book!BadRequest, OK
  <2> QED
    BY <1>2, <2>1 DEF KeepsRows, NonePlaced
<1>8. CASE Book!List(c) \/ Book!Missing(c) \/ Book!Find(c) \/ Book!Repeated(c)
  <2>1. /\ orders' = orders /\ spentOrders' = spentOrders
        /\ asked' = asked /\ asked[c].op # "create"
    BY <1>8 DEF Book!List, Book!Missing, Book!Find, Book!Repeated, Book!Answer
  <2> QED
    BY <1>2, <2>1 DEF KeepsRows, NonePlaced
<1>9. CASE Book!Decline(c) \/ Book!Fail(c)
  <2>1. /\ orders' = orders /\ spentOrders' = spentOrders
        /\ \E status \in {404, 500, 502, 503, 504} : \E body : Book!Answer(c, status, body)
    BY <1>9 DEF Book!Decline, Book!Fail, Book!NotFound, Book!BadGateway,
       Book!Unavailable, Book!GatewayTimeout, Book!ServerError
  <2>2. answer'[c].status # OK
    BY <1>3, <2>1 DEF OK
  <2> QED
    BY <1>2, <2>1, <2>2 DEF KeepsRows, NonePlaced
<1> QED
  BY <1>4, <1>5, <1>6, <1>7, <1>8, <1>9 DEF Book!Step

AllKeep == \A d \in RpcCalls : ServiceKeeps(d)

(* What a call has asked stays, and what it was answered.                  *)
LEMMA OrderCallsStay ==
    ASSUME AllKeep, NEW d \in OrderCalls
    PROVE  /\ orderState[d] # "idle" => orderState'[d] # "idle" /\ asked'[d] = asked[d]
           /\ orderState[d] = "done" =>
                 /\ orderState'[d] = "done" /\ asked'[d] = asked[d]
                 /\ answer'[d] = answer[d]
<1>1. ServiceKeeps(d)
  BY CallsAssumption DEF AllKeep
<1> QED
  BY <1>1 DEF ServiceKeeps

(* The rows keep their owners, and a new one has the owner who asked.      *)
LEMMA OwnedKept ==
    ASSUME OrderTypes, AllKeep, Owned, KeepsRows \/ \E c \in OrderCalls, i \in OrderIds : Places(c, i)
    PROVE  Owned'
<1> SUFFICES ASSUME NEW i \in OrderIds, orders'[i] # NoOrder
             PROVE  \E d \in OrderCalls :
                        /\ orderState'[d] # "idle"
                        /\ asked'[d].op = "create"
                        /\ asked'[d].userId = orders'[i].userId
  BY DEF Owned
<1>1. CASE orders[i] # NoOrder /\ orders'[i].userId = orders[i].userId
  BY <1>1, OrderCallsStay DEF Owned
<1>2. CASE KeepsRows
  BY <1>1, <1>2 DEF KeepsRows
<1>3. ASSUME NEW c \in OrderCalls, NEW j \in OrderIds, Places(c, j)
      PROVE  \E d \in OrderCalls :
                 /\ orderState'[d] # "idle"
                 /\ asked'[d].op = "create"
                 /\ asked'[d].userId = orders'[i].userId
  <2>1. CASE i = j
    <3>1. orders'[i] = Book!OrderOf(c) /\ Book!OrderOf(c).userId = asked[c].userId
      BY <1>3, <2>1 DEF Places, OrderTypes, Book!OrderOf
    <3>2. orderState'[c] = "done" /\ asked'[c] = asked[c] /\ asked[c].op = "create"
      BY <1>3 DEF Places
    <3> QED
      BY <3>1, <3>2
  <2>2. CASE i # j
    <3>1. orders'[i] = orders[i]
      BY <1>3, <2>2 DEF Places, OrderTypes
    <3> QED
      BY <1>1, <3>1
  <2> QED
    BY <2>1, <2>2
<1> QED
  BY <1>2, <1>3

(* What is counted is finite. *)
LEMMA CountedFinite ==
    /\ IsFiniteSet(Made) /\ IsFiniteSet(LeftOpen) /\ IsFiniteSet(Rows)
    /\ Cardinality(Made) \in Nat /\ Cardinality(LeftOpen) \in Nat
    /\ Cardinality(Rows) \in Nat
<1>1. Made \subseteq OrderCalls /\ LeftOpen \subseteq OrderCalls /\ IsFiniteSet(OrderCalls)
  BY CallsAssumption DEF Made, LeftOpen
<1>2. Rows \subseteq OrderIds /\ IsFiniteSet(OrderIds)
  BY OrdersAssumption, FS_Interval DEF Rows, OrderIds
<1> QED
  BY <1>1, <1>2, FS_Subset, FS_CardinalityType

(* The count stands when no order is placed. *)
LEMMA CountStands ==
    ASSUME AllKeep, Counted, KeepsRows, NonePlaced
    PROVE  Counted'
<1>1. Made' = Made
  BY OrderCallsStay DEF Made, Makes, NonePlaced
<1>2. LeftOpen \subseteq LeftOpen'
  BY OrderCallsStay DEF LeftOpen, Makes
<1>3. Rows' = Rows
  BY DEF Rows, KeepsRows
<1>4. IsFiniteSet(LeftOpen')
  <2>1. LeftOpen' \subseteq OrderCalls
    BY DEF LeftOpen
  <2> QED
    BY <2>1, CallsAssumption, FS_Subset
<1>5. Cardinality(LeftOpen) <= Cardinality(LeftOpen') /\ Cardinality(LeftOpen') \in Nat
  BY <1>2, <1>4, FS_Subset, FS_CardinalityType
<1> QED
  BY <1>1, <1>3, <1>5, CountedFinite DEF Counted, KeepsRows

(* And one more order is one more call that is answered with it, or left   *)
(* open.                                                                   *)
LEMMA CountMoves ==
    ASSUME OrderTypes, AllKeep, Counted, NEW c \in OrderCalls, Book!Step(c),
           NEW i, Places(c, i)
    PROVE  Counted'
<1>1. /\ i \in OrderIds /\ i \notin Rows
      /\ spentOrders' = spentOrders \union {i}
      /\ orderState[c] # "done"
  BY DEF Places, Counted
<1>2. \A d \in OrderCalls \ {c} :
          orderState'[d] = orderState[d] /\ asked'[d] = asked[d] /\ answer'[d] = answer[d]
  BY OrderCall
<1>3. Rows' = Rows \union {i}
  <2>1. orders'[i] # NoOrder /\ \A j \in OrderIds \ {i} : orders'[j] = orders[j]
    BY OrdersAssumption DEF Places, OrderTypes
  <2> QED
    BY <1>1, <2>1 DEF Rows
<1>4. Rows' \subseteq spentOrders'
  BY <1>1, <1>3 DEF Counted
<1>5. Cardinality(Rows') = Cardinality(Rows) + 1
  BY <1>1, <1>3, CountedFinite, FS_AddElement
<1>6. c \notin Made /\ c \notin LeftOpen /\ OK # ServerError
  BY <1>1 DEF Made, LeftOpen, Makes, OK, ServerError
<1>7. orderState'[c] = "done" /\ asked'[c].op = "create" /\ answer'[c].status \in {OK, ServerError}
  BY DEF Places
<1>8. CASE answer'[c].status = OK
  <2>1. Made' = Made \union {c} /\ LeftOpen' = LeftOpen
    BY <1>2, <1>6, <1>7, <1>8 DEF Made, LeftOpen, Makes
  <2>2. Cardinality(Made') = Cardinality(Made) + 1
    BY <1>6, <2>1, CountedFinite, FS_AddElement
  <2> QED
    BY <1>4, <1>5, <2>1, <2>2, CountedFinite DEF Counted
<1>9. CASE answer'[c].status = ServerError
  <2>1. Made' = Made /\ LeftOpen' = LeftOpen \union {c}
    BY <1>2, <1>6, <1>7, <1>9 DEF Made, LeftOpen, Makes
  <2>2. Cardinality(LeftOpen') = Cardinality(LeftOpen) + 1
    BY <1>6, <2>1, CountedFinite, FS_AddElement
  <2> QED
    BY <1>4, <1>5, <2>1, <2>2, CountedFinite DEF Counted
<1> QED
  BY <1>7, <1>8, <1>9

(* The orders are owned and counted in every state. *)
LEMMA OrdersKept ==
    ASSUME OrderTypes, AllKeep, Owned, Counted, [Next]_vars
    PROVE  Owned' /\ Counted'
<1>1. CASE UNCHANGED orderVars
  <2>1. KeepsRows /\ NonePlaced
    BY <1>1 DEF orderVars, KeepsRows, NonePlaced
  <2> QED
    BY <2>1, OwnedKept, CountStands
<1>2. CASE Book!Lose
  <2>1. KeepsRows /\ NonePlaced
    BY <1>2 DEF Book!Lose, KeepsRows, NonePlaced, OrderTypes
  <2> QED
    BY <2>1, OwnedKept, CountStands
<1>3. ASSUME NEW c \in OrderCalls, Book!Step(c)
      PROVE  Owned' /\ Counted'
  <2>1. ASSUME NEW i, Places(c, i)
        PROVE  Owned' /\ Counted'
    <3>1. i \in OrderIds
      BY <2>1 DEF Places
    <3> QED
      BY <1>3, <2>1, <3>1, OwnedKept, CountMoves
  <2>2. CASE KeepsRows /\ NonePlaced
    BY <2>2, OwnedKept, CountStands
  <2> QED
    BY <1>3, <2>1, <2>2, OrderEffect
<1> QED
  BY <1>1, <1>2, <1>3, OrderStep

-----------------------------------------------------------------------------
(* The invariant. *)

(* At the start nothing has been asked, and there is no order. *)
LEMMA GatewayInit == Init => GInv
<1> SUFFICES ASSUME Init PROVE GInv
  OBVIOUS
<1>1. Accounts!Inv
  <2>1. Accounts!Init
    BY DEF Init, AuthService!Init, Accounts!Init, AuthService!UserIds, Accounts!UserIds,
           AuthService!NoRequest, Accounts!NoRequest, AuthService!NoReply,
           Accounts!NoReply, AuthService!Nobody, Accounts!Nobody
  <2> QED
    BY <2>1, Accounts!InitInv, SameAccounts, AccountsAssumption, CallsAssumption
<1>2. ClientTypes
  BY CallsAssumption DEF Init, RpcInit, ClientTypes, Stages, InFlight
<1>3. MovieTypes
  BY MoviesAssumption DEF Init, Cat!Init, MovieTypes, CallStates
<1>4. OrderTypes
  BY DEF Init, Book!Init, Book!NoQuote, OrderTypes, CallStates
<1>5. Requested
  BY DEF Init, RpcInit, AuthService!Init, Cat!Init, Book!Init, Requested, Known,
         Truthful, Served, InFlight, OK
<1>6. \A i \in OrderIds : orders[i] = NoOrder
  BY DEF Init, Book!Init
<1>7. Owned /\ Rows = {}
  BY <1>6 DEF Owned, Rows
<1>8. Made = {} /\ LeftOpen = {}
  BY DEF Init, Book!Init, Made, LeftOpen, Makes
<1>9. Counted
  BY <1>7, <1>8, FS_EmptySet DEF Counted
<1> QED
  BY <1>1, <1>2, <1>3, <1>4, <1>5, <1>7, <1>9 DEF GInv

(* And every step, of whoever it is, keeps all of it.                      *)
LEMMA GatewayStep == GInv /\ [Next]_vars => GInv'
<1> SUFFICES ASSUME GInv, [Next]_vars PROVE GInv'
  OBVIOUS
<1>1. AllKeep
  BY ServicesKeep DEF GInv, AllKeep
<1> QED
  BY <1>1, AccountsInv, ClientTypesKept, ServiceTypesKept, RequestedKept, OrdersKept
  DEF GInv

(* GInv holds in every reachable state. *)
THEOREM GatewayInvariance == Spec => []GInv
  BY GatewayInit, GatewayStep, PTL DEF Spec

(* Everything the gateway and its connections hold keeps to its type, and  *)
(* so do the accounts, whatever becomes of processes and connections.      *)
THEOREM GatewayTypes == Spec => []TypeOK
<1>1. GInv => AuthService!TypeOK
  <2>1. Accounts!Inv =>
            Accounts!TableTypes /\ Accounts!ProcessTypes /\ Accounts!CallTypes
    BY DEF Accounts!Inv
  <2>2. Accounts!Replies = AuthService!Replies /\ Accounts!NoReply = AuthService!NoReply
    BY DEF Accounts!Replies, AuthService!Replies, Accounts!NoReply, AuthService!NoReply,
           Accounts!Nobody, AuthService!Nobody, Accounts!Identity, AuthService!Identity,
           Accounts!UserIds, AuthService!UserIds, Accounts!CanonicalEmails,
           AuthService!CanonicalEmails, Accounts!Roles, AuthService!Roles,
           Accounts!Statuses, AuthService!Statuses, Accounts!OK, AuthService!OK,
           Accounts!BadRequest, AuthService!BadRequest, Accounts!Unauthorized,
           AuthService!Unauthorized, Accounts!Forbidden, AuthService!Forbidden,
           Accounts!NotFound, AuthService!NotFound, Accounts!Conflict,
           AuthService!Conflict, Accounts!ServerError, AuthService!ServerError,
           Accounts!BadGateway, AuthService!BadGateway, Accounts!Unavailable,
           AuthService!Unavailable, Accounts!GatewayTimeout, AuthService!GatewayTimeout
  <2>3. /\ Accounts!UserIds = AuthService!UserIds
        /\ Accounts!NoRequest = AuthService!NoRequest
    BY DEF Accounts!UserIds, AuthService!UserIds, Accounts!NoRequest,
           AuthService!NoRequest
  <2> QED
    BY <2>1, <2>2, <2>3, SameAccounts
    DEF GInv, AuthService!TypeOK, Accounts!TableTypes, Accounts!ProcessTypes,
        Accounts!CallTypes
<1>2. GInv => TypeOK
  BY <1>1 DEF GInv, ClientTypes, TypeOK
<1> QED
  BY <1>2, GatewayInvariance, PTL

-----------------------------------------------------------------------------
(* What requests can do. *)

(* A token speaks of the account whose password was given for it. *)
LEMMA TokenOf ==
    ASSUME GInv, NEW l \in AuthCalls, LoggedIn(l)
    PROVE  /\ reply[l].who.sub \in Accounts!UserIds
           /\ users[reply[l].who.sub] # NoUser
           /\ users[reply[l].who.sub].role = reply[l].who.role
           /\ users[reply[l].who.sub].password = request[l].password
<1>1. l \in RpcCalls /\ Known(l)
  BY CallsAssumption DEF GInv, Requested
<1>2. pc[l] = "done" /\ reply[l].status = OK /\ Faithful(l) /\ asks[l].route = "login"
  BY <1>1, LoginAnswered
<1>3. MessageOf(l).op = "login" /\ "op" \in DOMAIN MessageOf(l)
  BY <1>2, PayloadFields DEF MessageOf, Pattern
<1>4. request[l].op = "login"
  BY <1>2, <1>3 DEF Faithful, AuthService!Normalized
<1>5. Accounts!Answered(l, "login", Accounts!OK)
  BY <1>2, <1>4 DEF Accounts!Answered, OK, Accounts!OK
<1>6. Accounts!Names(l)
  BY <1>5 DEF GInv, Accounts!Inv, Accounts!Identified
<1> QED
  BY <1>6 DEF Accounts!Names, Accounts!IdentityOf

(* Every order is of an account, of which someone with its password has    *)
(* asked for the order: no other token passes the guards, and the user id  *)
(* on the order is the token's.                                            *)
THEOREM OrdersHaveAccounts == Spec => []OrdersBelongToAccounts
<1>1. GInv => OrdersBelongToAccounts
  <2> SUFFICES ASSUME GInv, NEW i \in OrderIds, orders[i] # NoOrder
               PROVE  \E r \in OrderCalls :
                          /\ asks[r].route = "createOrder"
                          /\ asks[r].by \in AuthCalls
                          /\ Claims(asks[r].by).sub = orders[i].userId
                          /\ AccountOf(r) # NoUser
                          /\ AccountOf(r).password = request[asks[r].by].password
    BY DEF OrdersBelongToAccounts
  <2>1. PICK r \in OrderCalls :
            orderState[r] # "idle" /\ asked[r].op = "create"
            /\ asked[r].userId = orders[i].userId
    BY DEF GInv, Owned
  <2>2. Admitted(r) /\ asked[r] = MessageOf(r)
    BY <2>1, CallsAssumption DEF GInv, Requested, Known, Served, Faithful
  <2>3. asks[r].route = "createOrder"
    BY <2>1, <2>2, PayloadFields, RoutesApart DEF Admitted, MessageOf
  <2>4. asks[r].by \in AuthCalls /\ LoggedIn(asks[r].by)
    BY <2>2, <2>3 DEF Admitted, Public
  <2>5. Claims(asks[r].by).sub = orders[i].userId
    BY <2>1, <2>2, <2>3, PayloadFields DEF MessageOf, OfUser, OwnOrders
  <2>6. Claims(asks[r].by) = reply[asks[r].by].who
    BY <2>4 DEF Claims
  <2> QED
    BY <2>1, <2>3, <2>4, <2>5, <2>6, TokenOf DEF AccountOf
<1> QED
  BY <1>1, GatewayInvariance, PTL

(* What a client may conclude from the outcomes of its orders, however     *)
(* connections break, processes die, and answers come late: a 201 is one   *)
(* order, a 4xx is none.                                                   *)
THEOREM ResponsesCount == Spec => []OrdersMatchResponses
<1>1. GInv => OrdersMatchResponses
  <2> SUFFICES ASSUME GInv PROVE OrdersMatchResponses
    OBVIOUS
  <2> DEFINE buys == {r \in OrderCalls : stage[r] # "idle" /\ asks[r].route = "createOrder"}
             made == {r \in buys : outcome[r] = 201}
             refused == {r \in buys : outcome[r] \in 400..499}
  <2>1. \A r \in OrderCalls : r \in RpcCalls /\ Known(r)
    BY CallsAssumption DEF GInv, Requested
  <2>2. made \subseteq Made
    <3> SUFFICES ASSUME NEW r \in made PROVE r \in Made
      OBVIOUS
    <3>1. r \in OrderCalls /\ r \in RpcCalls /\ Known(r) /\ outcome[r] = 201
          /\ asks[r].route = "createOrder"
      BY <2>1
    <3>2. HasAnswered(r, OK)
      BY <3>1 DEF Known, Truthful
    <3>3. orderState[r] = "done" /\ answer[r].status = OK /\ Served(r)
      BY <3>1, <3>2, OneService
    <3>4. asked[r] = MessageOf(r)
      BY <3>1, <3>3 DEF Known, Faithful
    <3>5. asked[r].op = "create"
      BY <3>1, <3>4, PayloadFields DEF MessageOf, Pattern
    <3> QED
      BY <3>1, <3>3, <3>5 DEF Made, Makes
  <2>3. Made \union LeftOpen \subseteq buys \ refused
    <3> SUFFICES ASSUME NEW r \in OrderCalls, Makes(r), answer[r].status \in {OK, ServerError}
                 PROVE  r \in buys \ refused
      BY DEF Made, LeftOpen
    <3>1. Known(r) /\ r \in RpcCalls /\ Served(r) /\ orderState[r] = "done"
          /\ asked[r].op = "create"
      BY <2>1 DEF Makes, Served
    <3>2. Admitted(r) /\ asked[r] = MessageOf(r) /\ stage[r] # "idle"
      BY <3>1 DEF Known, Faithful
    <3>3. asks[r].route = "createOrder"
      BY <3>1, <3>2, PayloadFields, RoutesApart DEF Admitted, MessageOf
    <3>4. outcome[r] \notin 400..499
      <4> SUFFICES ASSUME outcome[r] \in 400..499 PROVE FALSE
        OBVIOUS
      <4>1. HasAnswered(r, outcome[r])
        BY <3>1 DEF Known, Truthful
      <4>2. answer[r].status = outcome[r]
        BY <3>1, <4>1, OneService
      <4> QED
        BY <4>2 DEF OK, ServerError
    <3> QED
      BY <3>2, <3>3, <3>4
  <2>4. Made \intersect LeftOpen = {}
    BY DEF Made, LeftOpen, OK, ServerError
  <2>5. Cardinality(Made \union LeftOpen) = Cardinality(Made) + Cardinality(LeftOpen)
    <3>1. IsFiniteSet(Made) /\ IsFiniteSet(LeftOpen)
      BY CountedFinite
    <3>2. Cardinality(Made \union LeftOpen) =
              Cardinality(Made) + Cardinality(LeftOpen) - Cardinality(Made \cap LeftOpen)
      BY <3>1, FS_Union
    <3>3. Cardinality(Made \cap LeftOpen) = 0
      BY <2>4, FS_EmptySet
    <3> QED
      BY <3>2, <3>3, CountedFinite
  <2>6. IsFiniteSet(buys \ refused)
    <3>1. buys \ refused \subseteq OrderCalls
      OBVIOUS
    <3> QED
      BY <3>1, CallsAssumption, FS_Subset
  <2> HIDE DEF buys, made, refused
  <2>7. Cardinality(made) <= Cardinality(Made)
    BY <2>2, CountedFinite, FS_Subset
  <2>8. Cardinality(Made \union LeftOpen) <= Cardinality(buys \ refused)
    BY <2>3, <2>6, FS_Subset
  <2>9. Cardinality(made) \in Nat /\ Cardinality(buys \ refused) \in Nat
    BY <2>2, <2>6, CountedFinite, FS_Subset, FS_CardinalityType
  <2>10. Cardinality(made) <= Cardinality(Rows)
         /\ Cardinality(Rows) <= Cardinality(buys \ refused)
    BY <2>5, <2>7, <2>8, <2>9, CountedFinite DEF GInv, Counted
  <2> QED
    BY <2>10 DEF OrdersMatchResponses, Rows, buys, made, refused
<1> QED
  BY <1>1, GatewayInvariance, PTL

(* A step that changes the movies is the catalog's, serving a request of   *)
(* somebody whose token is an admin's.                                     *)
LEMMA MoviesChange ==
    ASSUME GInv, [Next]_vars, movies' # movies
    PROVE  \E r \in MovieCalls :
               /\ movieState[r] = "pending" /\ movieState'[r] = "done"
               /\ asks[r].by \in AuthCalls
               /\ AccountOf(r) # NoUser /\ AccountOf(r).role = "ADMIN"
               /\ \E e \in Environments \ {NoAdmin} : AccountOf(r).email = Canon[e.email]
               /\ outcome[r] \notin 400..499
<1>1. PICK r \in MovieCalls : Cat!Step(r)
  <2>1. ~UNCHANGED catalogVars
    BY DEF catalogVars
  <2>2. ~Cat!Lose
    BY DEF Cat!Lose
  <2> QED
    BY <2>1, <2>2, MovieStep DEF GInv
<1>2. /\ movieState[r] # "idle"
      /\ movieRequest[r].op \in {"create", "update", "remove"}
  BY <1>1 DEF Cat!Step, Cat!Ask, Cat!Refuse, Cat!Missing, Cat!Find, Cat!List,
     Cat!Remove, Cat!Create, Cat!Duplicate, Cat!Update, Cat!Rename, Cat!Fail,
     Cat!Confirm, Cat!Answer
<1>3. movieState[r] = "pending" /\ movieState'[r] = "done"
  BY <1>1, <1>2, MovieCall DEF GInv
<1>4. r \in RpcCalls /\ Known(r) /\ Served(r)
  BY <1>2, CallsAssumption DEF GInv, Requested, Served
<1>5. Admitted(r) /\ movieRequest[r] = MessageOf(r)
  BY <1>4 DEF Known, Faithful
<1>6. asks[r].route \in AdminOnly
  BY <1>2, <1>5, PayloadFields, RoutesApart DEF Admitted, MessageOf
<1>7. /\ asks[r].by \in AuthCalls /\ LoggedIn(asks[r].by)
      /\ Claims(asks[r].by).role = "ADMIN"
  BY <1>5, <1>6 DEF Admitted, HasRole, Public, AdminOnly
<1>8. Claims(asks[r].by) = reply[asks[r].by].who
  BY <1>7 DEF Claims
<1>9. /\ reply[asks[r].by].who.sub \in Accounts!UserIds
      /\ AccountOf(r) # NoUser /\ AccountOf(r).role = "ADMIN"
  BY <1>7, <1>8, TokenOf DEF AccountOf
<1>10. \E e \in Environments \ {NoAdmin} : AccountOf(r).email = Canon[e.email]
  BY <1>8, <1>9 DEF GInv, Accounts!Inv, Accounts!TableInv, Accounts!AdminsAreConfigured,
     AccountOf
<1>11. outcome[r] \notin 400..499
  <2> SUFFICES ASSUME outcome[r] \in 400..499 PROVE FALSE
    OBVIOUS
  <2>1. HasAnswered(r, outcome[r])
    BY <1>4 DEF Known, Truthful
  <2> QED
    BY <1>3, <1>4, <2>1, OneService
<1> QED
  BY <1>3, <1>7, <1>9, <1>10, <1>11

(* No one but an admin by the environment changes the movies, the whole    *)
(* way from .env to the table, and no change comes of a request that was   *)
(* refused.                                                                *)
THEOREM OnlyAdmins == Spec => OnlyAdminsChangeMovies
<1>1. GInv /\ [Next]_vars =>
        [movies' # movies =>
            \E r \in MovieCalls :
                /\ movieState[r] = "pending" /\ movieState'[r] = "done"
                /\ asks[r].by \in AuthCalls
                /\ AccountOf(r) # NoUser /\ AccountOf(r).role = "ADMIN"
                /\ \E e \in Environments \ {NoAdmin} : AccountOf(r).email = Canon[e.email]
                /\ outcome[r] \notin 400..499]_vars
  BY MoviesChange
<1> QED
  BY <1>1, GatewayInvariance, PTL DEF OnlyAdminsChangeMovies, Spec
=============================================================================
