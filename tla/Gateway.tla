------------------------------- MODULE Gateway -------------------------------
(***************************************************************************)
(* The API gateway, composed with the three services: the auth service of  *)
(* Auth, and the catalog and the order service as AtomicCatalog and        *)
(* OrderBook promise them.  A request is HTTP on one side and one RPC on   *)
(* the other.  The gateway keeps nothing: a token alone says who calls.    *)
(***************************************************************************)
EXTENDS RpcClient, FiniteSets

CONSTANTS
    AuthCalls, MovieCalls, OrderCalls,   \* the requests, by service
    HttpMenu,       \* HttpMenu[r]: what request r may be
    NoToken,        \* credentials that are no bearer token
    MaxFaults,      \* bound: connections, processes and tokens that die
    Emails, Canon, Passwords, Environments, NoAdmin, NoUser, UserIdMax,  \* of Auth
    Values, Null, NoRow, IntMax, InitialMovies, FirstFreeId,    \* of AtomicCatalog
    OrderIdMax, NoOrder, Cents                                  \* of OrderBook

VARIABLES
    asks,           \* the HTTP request of each r
    expired,        \* the logins whose token has expired
    faults,
    users, nextUserId, process, env, crashes, pc, request, reply,    \* of Auth
    movies, spentMovies, movieState, movieRequest, movieReply,  \* of AtomicCatalog
    orders, spentOrders, orderState, asked, answer, quote       \* of OrderBook

authVars == <<users, nextUserId, process, env, crashes, pc, request, reply>>
catalogVars == <<movies, spentMovies, movieState, movieRequest, movieReply>>
orderVars == <<orders, spentOrders, orderState, asked, answer, quote>>
gatewayVars == <<rpcVars, asks, expired, faults>>
vars == <<gatewayVars, authVars, catalogVars, orderVars>>

-----------------------------------------------------------------------------
(* The routes. *)

Public == {"register", "login", "listMovies", "getMovie"}
AdminOnly == {"createMovie", "updateMovie", "deleteMovie"}
OwnOrders == {"createOrder", "listOrders", "getOrder", "cancelOrder"}

(* The controllers, each with the client of one service. *)
AccountRoutes == {"register", "login", "me"}
MovieRoutes == {"listMovies", "getMovie"} \union AdminOnly

(* The status of a success, as Nest and the decorators have it. *)
Success(route) ==
    CASE route \in {"register", "createMovie", "createOrder"} -> 201
      [] route = "deleteMovie" -> 204
      [] OTHER -> OK

OfUser == OwnOrders \union {"me"}

(* The pattern of the message a route becomes. *)
Pattern ==
    [register |-> "register", login |-> "login", me |-> "profile",
     listMovies |-> "findAll", getMovie |-> "findOne", createMovie |-> "create",
     updateMovie |-> "update", deleteMovie |-> "remove",
     createOrder |-> "create", listOrders |-> "list", getOrder |-> "find",
     cancelOrder |-> "cancel"]

(* The message of a request: its parameters and body, and on the routes of *)
(* one's own the id of the user its token names.                           *)
Payload(req, user) ==
    [f \in {"op"} \union DOMAIN req.body
             \union (IF req.route \in OfUser THEN {"userId"} ELSE {}) |->
        CASE f = "op"     -> Pattern[req.route]
          [] f = "userId" -> user.sub
          [] OTHER        -> req.body[f]]

(* Every message a request of r could become. *)
Messages(r) ==
    {Payload(req, [sub |-> i]) : req \in {q \in HttpMenu[r] : q.valid}, i \in 1..UserIdMax}

AuthMenu == [r \in AuthCalls |-> Messages(r)]
MovieMenu == [r \in MovieCalls |-> Messages(r)]
OrderMenu == [r \in OrderCalls |-> Messages(r)]
OrderIds == 1..OrderIdMax

AuthService == INSTANCE Auth WITH Calls <- AuthCalls, Menu <- AuthMenu, MaxCrashes <- MaxFaults
Cat == INSTANCE AtomicCatalog WITH
    Calls <- MovieCalls, Menu <- MovieMenu, spent <- spentMovies, state <- movieState,
    request <- movieRequest, reply <- movieReply
Book == INSTANCE OrderBook WITH
    Calls <- MovieCalls, Menu <- MovieMenu, spent <- spentOrders, state <- orderState

(* The columns of an order; the user and the movie are rows elsewhere. *)
Order ==
    [userId : AuthService!UserIds, movieId : Cat!MovieIds, movieTitle : Values,
     movieReleaseYear : Values, ticketPrice : Values, quantity : 1..10,
     totalPrice : Nat, status : {"CONFIRMED", "CANCELLED"}]

OrderRequests ==
    [op : {"create"}, userId : AuthService!UserIds, movieId : Nat \ {0}, quantity : 1..10]
        \union [op : {"list"}, userId : AuthService!UserIds]
        \union [op : {"find", "cancel"}, userId : AuthService!UserIds, orderId : Int]

(* Every request is for one service, and its routes are that service's.    *)
ASSUME CallsAssumption ==
    /\ RpcCalls = AuthCalls \union MovieCalls \union OrderCalls
    /\ AuthCalls \intersect MovieCalls = {}
    /\ OrderCalls \intersect (AuthCalls \union MovieCalls) = {}
    /\ IsFiniteSet(OrderCalls)
    /\ MaxFaults \in Nat
    /\ \A r \in RpcCalls : \A req \in HttpMenu[r] :
          req.route \in IF r \in OrderCalls THEN OwnOrders
                        ELSE IF r \in MovieCalls THEN MovieRoutes ELSE AccountRoutes

(* What the services' own modules assume of their constants. *)
ASSUME AccountsAssumption ==
    /\ Canon \in [Emails -> Emails]
    /\ \A e \in Emails : Canon[Canon[e]] = Canon[e]
    /\ Environments \subseteq [email : Emails, password : Passwords] \union {NoAdmin}
    /\ Environments # {}
    /\ NoAdmin \notin [email : Emails, password : Passwords]
    /\ NoUser \notin AuthService!User
    /\ UserIdMax \in Nat \ {0}
    /\ \A c \in AuthCalls : AuthMenu[c] \subseteq AuthService!Requests

ASSUME MoviesAssumption ==
    /\ IntMax \in Nat \ {0}
    /\ Null \notin Values
    /\ NoRow \notin Cat!Movie
    /\ InitialMovies \in [Cat!MovieIds -> Cat!Row \union {NoRow}]
    /\ \A c \in MovieCalls : MovieMenu[c] \subseteq Cat!Requests

ASSUME OrdersAssumption ==
    /\ OrderIdMax \in Nat \ {0}
    /\ Cents \in [Values -> Nat]
    /\ NoOrder \notin Order
    /\ \A c \in OrderCalls : OrderMenu[c] \subseteq OrderRequests

NoAsk == [route |-> "none", by |-> NoToken, valid |-> FALSE, body |-> <<>>]

Init ==
    /\ RpcInit
    /\ AuthService!Init /\ Cat!Init /\ Book!Init
    /\ asks = [r \in RpcCalls |-> NoAsk]
    /\ expired = {}
    /\ faults = 0

-----------------------------------------------------------------------------
(* The guards. *)

LoggedIn(l) ==
    asks[l].route = "login" /\ stage[l] = "answered" /\ outcome[l] = OK

(* A client can send what it was given at a login, and what it made up.    *)
CanSend(by) == by \in AuthCalls => stage[by] # "idle" /\ LoggedIn(by)

(* The claims of a token; jwt.sign put in what the login had found. *)
Claims(by) == IF by \in AuthCalls THEN reply[by].who ELSE by

(* Mutant: decode() where verify() should be. *)
Decodes(by) == by # NoToken

(* JwtAuthGuard: signed with the secret, not expired, and with the claims  *)
(* of a user in it.                                                        *)
Verifies(by) ==
    /\ by \in AuthCalls /\ by \notin expired
    /\ Claims(by).sub \in Int /\ Claims(by).role \in AuthService!Roles

(* Mutant: a RolesGuard that finds no metadata lets everyone through. *)
HasAnyRole(req) == TRUE

HasRole(req) == req.route \in AdminOnly => Claims(req.by).role = "ADMIN"

Refuse(r, status) == End({r}, status) /\ UNCHANGED <<link, sent>>

(* A request to any controller: on each of the routes above the guards     *)
(* come before the pipes, and those before the handler, which sends.       *)
Arrive(r) ==
    /\ stage[r] = "idle"
    /\ \E req \in HttpMenu[r] :
          /\ CanSend(req.by)
          /\ asks' = [asks EXCEPT ![r] = req]
          /\ LET authenticated == req.route \in Public \/ Verifies(req.by)
                 admitted == authenticated /\ HasRole(req)
             IN  \/ ~authenticated /\ Refuse(r, Unauthorized)
                 \/ authenticated /\ ~admitted /\ Refuse(r, Forbidden)
                 \/ admitted /\ ~req.valid /\ Refuse(r, BadRequest)
                 \/ admitted /\ req.valid /\ Send(r)
    /\ UNCHANGED <<expired, faults, authVars, catalogVars, orderVars>>

-----------------------------------------------------------------------------
(* Messages reach their handlers, and the handlers run. *)

MessageOf(r) == Payload(asks[r], Claims(asks[r].by))

Deliver(r) ==
    /\ Received(r)
    /\ \/ /\ r \in AuthCalls
          /\ AuthService!Receive(r)
          /\ request'[r] = AuthService!Normalized(MessageOf(r))
          /\ UNCHANGED <<catalogVars, orderVars>>
       \/ /\ r \in MovieCalls
          /\ Cat!Ask(r) \/ Cat!Refuse(r)
          /\ movieRequest'[r] = MessageOf(r)
          /\ UNCHANGED <<authVars, orderVars>>
       \/ /\ r \in OrderCalls
          /\ Book!Ask(r) \/ Book!Refuse(r)
          /\ asked'[r] = MessageOf(r)
          /\ UNCHANGED <<authVars, spentMovies, movieState, movieRequest, movieReply>>
    /\ UNCHANGED <<asks, expired, faults>>

AuthRuns ==
    /\ \/ AuthService!Boot
       \/ \E c \in AuthCalls : pc[c] # "idle" /\ AuthService!Step(c)
    /\ UNCHANGED <<gatewayVars, catalogVars, orderVars>>

CatalogRuns ==
    /\ \E c \in MovieCalls : movieState[c] # "idle" /\ Cat!Step(c)
    /\ UNCHANGED <<gatewayVars, authVars, orderVars>>

OrdersRun ==
    /\ \E c \in OrderCalls : orderState[c] # "idle" /\ Book!Step(c)
    /\ UNCHANGED <<gatewayVars, authVars, spentMovies, movieState, movieRequest, movieReply>>

(* The service of r has answered with this status. *)
HasAnswered(r, status) ==
    \/ r \in AuthCalls /\ pc[r] = "done" /\ reply[r].status = status
    \/ r \in MovieCalls /\ movieState[r] = "done" /\ movieReply[r].status = status
    \/ r \in OrderCalls /\ orderState[r] = "done" /\ answer[r].status = status

(* A result is sent on with the status of its route, an exception with its *)
(* own.                                                                    *)
Respond(r) ==
    /\ \/ HasAnswered(r, OK) /\ Settle(r, Success(asks[r].route))
       \/ \E status \in Statuses \ {OK} : HasAnswered(r, status) /\ Settle(r, status)
    /\ UNCHANGED <<asks, expired, faults, authVars, catalogVars, orderVars>>

GiveUp(r) ==
    /\ TimeOut(r)
    /\ UNCHANGED <<asks, expired, faults, authVars, catalogVars, orderVars>>

Open(s) ==
    /\ s = "auth" => process = "listening"
    /\ Connect(s)
    /\ UNCHANGED <<asks, expired, faults, authVars, catalogVars, orderVars>>

CannotOpen(s) ==
    /\ ConnectFails(s)
    /\ UNCHANGED <<asks, expired, faults, authVars, catalogVars, orderVars>>

-----------------------------------------------------------------------------
(* Faults. *)

Fault == faults < MaxFaults /\ faults' = faults + 1 /\ UNCHANGED asks

(* The time of a token is up. *)
Expire(l) ==
    /\ Fault
    /\ stage[l] = "answered" /\ LoggedIn(l)
    /\ l \notin expired
    /\ expired' = expired \union {l}
    /\ UNCHANGED <<rpcVars, authVars, catalogVars, orderVars>>

(* The network closes a connection; the service goes on. *)
Break(s) ==
    /\ Fault
    /\ Close(s)
    /\ UNCHANGED <<expired, authVars, catalogVars, orderVars>>

(* The process of a service dies: the calls it had received are lost, and  *)
(* the connection with it.                                                 *)
ServiceDies(s) ==
    /\ Fault
    /\ IF s \in link THEN Close(s) ELSE UNCHANGED rpcVars
    /\ UNCHANGED expired
    /\ \/ /\ s = "auth" /\ AuthService!Crash
          /\ UNCHANGED <<catalogVars, orderVars>>
       \/ /\ s = "catalog" /\ Cat!Lose
          /\ UNCHANGED <<authVars, orderVars>>
       \/ /\ s = "order" /\ Book!Lose
          /\ UNCHANGED <<authVars, catalogVars>>

(* The gateway dies and is started again; tokens stay good. *)
Crash ==
    /\ Fault
    /\ ClientDies
    /\ UNCHANGED <<expired, authVars, catalogVars, orderVars>>

(* Every request has been made and answered, and no message is left. *)
Quiescent ==
    /\ \A r \in RpcCalls : stage[r] \in {"idle", "answered", "lost"}
    /\ UNCHANGED vars

Next ==
    \/ \E r \in RpcCalls : Arrive(r) \/ Deliver(r) \/ Respond(r) \/ GiveUp(r)
    \/ \E s \in Services : Open(s) \/ CannotOpen(s) \/ Break(s) \/ ServiceDies(s)
    \/ \E l \in AuthCalls : Expire(l)
    \/ AuthRuns \/ CatalogRuns \/ OrdersRun
    \/ Crash
    \/ Quiescent

Spec == Init /\ [][Next]_vars

(* The timers of the gateway fire, each for the call it is set for; that   *)
(* is all.  Nothing obliges a service to answer, or a connection to be     *)
(* made.                                                                   *)
FairSpec == Spec /\ WF_vars(\E r \in RpcCalls : GiveUp(r))

-----------------------------------------------------------------------------
TypeOK ==
    /\ link \subseteq Services
    /\ stage \in [RpcCalls -> Stages]
    /\ outcome \in [RpcCalls -> Statuses \union {0, 201, 204}]
    /\ sent \subseteq RpcCalls
    /\ expired \subseteq AuthCalls
    /\ faults \in 0..MaxFaults
    /\ AuthService!TypeOK

(* The row of the user that request r was made for. *)
AccountOf(r) == users[Claims(asks[r].by).sub]

(* The movies change only while the catalog serves a request with a token  *)
(* of an account that is an admin's by the environment: the whole way from *)
(* .env over bootstrap, login, token and guards to the table.  And never   *)
(* for a request that was refused, though it may have been given up (504). *)
OnlyAdminsChangeMovies ==
    [][movies' # movies =>
        \E r \in MovieCalls :
            /\ movieState[r] = "pending" /\ movieState'[r] = "done"
            /\ asks[r].by \in AuthCalls
            /\ AccountOf(r) # NoUser /\ AccountOf(r).role = "ADMIN"
            /\ \E e \in Environments \ {NoAdmin} : AccountOf(r).email = Canon[e.email]
            /\ outcome[r] \notin 400..499]_vars

(* Every order belongs to an account, of which someone with its password   *)
(* has asked for the order.                                                *)
OrdersBelongToAccounts ==
    \A i \in OrderIds : orders[i] # NoOrder =>
        \E r \in OrderCalls :
            /\ asks[r].route = "createOrder"
            /\ asks[r].by \in AuthCalls
            /\ Claims(asks[r].by).sub = orders[i].userId
            /\ AccountOf(r) # NoUser
            /\ AccountOf(r).password = request[asks[r].by].password

(* What the client may conclude of its order: 201 is one order, a refusal  *)
(* (4xx) is none, also in the future; only a 5xx, or no response at all,   *)
(* leaves it open.                                                         *)
OrdersMatchResponses ==
    LET buys == {r \in OrderCalls : stage[r] # "idle" /\ asks[r].route = "createOrder"}
        made == {r \in buys : outcome[r] = 201}
        refused == {r \in buys : outcome[r] \in 400..499}
        count == Cardinality({i \in OrderIds : orders[i] # NoOrder})
    IN  Cardinality(made) <= count /\ count <= Cardinality(buys \ refused)

(* Requests in flight do not stay so, whatever becomes of the services:    *)
(* there comes a time when each has been answered (or lost with the        *)
(* gateway).                                                               *)
EveryRequestAnswered ==
    (\E r \in RpcCalls : stage[r] \in InFlight)
        ~> (\A r \in RpcCalls : stage[r] \notin InFlight)
=============================================================================
