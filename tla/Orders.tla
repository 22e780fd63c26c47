------------------------------- MODULE Orders --------------------------------
(***************************************************************************)
(* The order service: OrdersService over the orders table, composed with   *)
(* the catalog service it asks for a movie before it creates an order.     *)
(*                                                                         *)
(* A call of OrderCalls is one RPC to the order service.  The lookup it    *)
(* makes is the catalog's call of the same name; the catalog's other calls *)
(* are the gateway's own.  The two services have a database each and share *)
(* no state but the message and its answer.                                *)
(***************************************************************************)
EXTENDS Movies

CONSTANTS
    InitialMovies, FirstFreeId, DatabaseCanFail,    \* of Catalog
    OrderCalls,    \* the RPC calls the order service receives
    OrderMenu,     \* OrderMenu[c]: the requests call c may carry
    Users,         \* user ids: from a verified token, so always valid
    NoOrder,       \* there is no order with this id
    OrderIdMax,    \* IntMax of the orders table, scaled down on its own
    Cents          \* Cents[p]: toCents of the ticket price p

VARIABLES
    movies, nextId, pc, request, entity, diff, reply,    \* of Catalog
    orders,         \* the orders table: the order of each id, or NoOrder
    nextOrderId,    \* the sequence behind orders.id
    clock,          \* the database's time, now()
    stage,          \* what each call's handler is about to do
    asked,          \* what each call asked
    order,          \* the Order each handler holds in memory
    answer          \* the answer of each call

Cat == INSTANCE Catalog

catalogVars == <<movies, nextId, pc, request, entity, diff, reply>>
orderVars == <<orders, nextOrderId, clock, stage, asked, order, answer>>
vars == <<catalogVars, orderVars>>

OrderIds == 1..OrderIdMax
Quantities == 1..10

(* The snapshot columns, the status, and the time of creation. *)
Order ==
    [userId : Users, movieId : MovieIds, movieTitle : Values,
     movieReleaseYear : Values, ticketPrice : Values, quantity : Quantities,
     totalPrice : Nat, status : {"CONFIRMED", "CANCELLED"}, createdAt : Nat]

OrderRequests ==
    [op : {"create"}, userId : Users, movieId : Nat \ {0}, quantity : Quantities]
        \union [op : {"list"}, userId : Users]
        \union [op : {"find", "cancel"}, userId : Users, orderId : Int]

(* body: the orders of an answer, each with its id. *)
Answers == [status : Statuses, body : SUBSET (OrderIds \X Order)]
NoAnswer == [status |-> 0, body |-> {}]

InProgress == {"received", "lookup", "begin", "insert", "load", "write"}
Ended == {"done", "lost"}
Stages == {"idle"} \union InProgress \union Ended

ASSUME OrderAssumption ==
    /\ OrderCalls \subseteq Calls /\ IsFiniteSet(OrderCalls)
    /\ InitialMovies \in [MovieIds -> Row \union {NoRow}]
    /\ OrderIdMax \in Nat \ {0}
    /\ Cents \in [Values -> Nat]
    /\ NoOrder \notin Order
    /\ \A c \in OrderCalls :
          /\ OrderMenu[c] \subseteq OrderRequests
          /\ Menu[c] = {[op |-> "findOne", id |-> req.movieId] :
                            req \in {r \in OrderMenu[c] : r.op = "create"}}

Init ==
    /\ Cat!Init
    /\ orders = [i \in OrderIds |-> NoOrder]
    /\ nextOrderId = 1
    /\ clock = 0
    /\ stage = [c \in OrderCalls |-> "idle"]
    /\ asked = [c \in OrderCalls |-> NoRequest]
    /\ order = [c \in OrderCalls |-> NoOrder]
    /\ answer = [c \in OrderCalls |-> NoAnswer]

-----------------------------------------------------------------------------
Finish(c, status, body) ==
    /\ stage' = [stage EXCEPT ![c] = "done"]
    /\ answer' = [answer EXCEPT ![c] = [status |-> status, body |-> body]]
    /\ order' = [order EXCEPT ![c] = NoOrder]
    /\ UNCHANGED asked

Throw(c, exception) == Finish(c, StatusOf(exception), {})

(* Mutant: a statement that takes too long is given up as a timeout. *)
ConfirmOrTimeOut(c, body) == Finish(c, OK, body) \/ Finish(c, GatewayTimeout, {})

(* The confirmation of a committed statement may be lost. *)
Confirm(c, body) ==
    \/ Finish(c, OK, body)
    \/ DatabaseCanFail /\ Throw(c, "OtherQueryFailure")

Proceed(c, next) ==
    stage' = [stage EXCEPT ![c] = next] /\ UNCHANGED <<asked, answer>>

SameTable == UNCHANGED <<orders, nextOrderId, clock>>

(* Only the id of an order can be invalid here: the user's comes from the  *)
(* token, and the gateway has validated the body of a create.              *)
Receive(c) ==
    /\ stage[c] = "idle"
    /\ \E req \in OrderMenu[c] :
          /\ asked' = [asked EXCEPT ![c] = req]
          /\ IF req.op \in {"find", "cancel"} /\ req.orderId < 1
             THEN /\ stage' = [stage EXCEPT ![c] = "done"]
                  /\ answer' = [answer EXCEPT ![c] =
                        [status |-> StatusOf("BadRequestException"), body |-> {}]]
             ELSE stage' = [stage EXCEPT ![c] = "received"] /\ UNCHANGED answer
    /\ UNCHANGED <<catalogVars, order>>
    /\ SameTable

-----------------------------------------------------------------------------
(* create: the lookup.  RpcClient.send gives up after RPC_TIMEOUT_MS, and  *)
(* whatever comes back later is dropped.                                   *)

Lookup(c) ==
    /\ stage[c] = "received" /\ asked[c].op = "create"
    /\ Proceed(c, "lookup")
    /\ UNCHANGED <<catalogVars, order>>
    /\ SameTable

(* Mutant: the catalog is asked for some other movie. *)
CatalogReceivesAny(c) ==
    stage[c] = "lookup" /\ Cat!Receive(c) /\ UNCHANGED orderVars

CatalogReceives(c) ==
    /\ stage[c] = "lookup"
    /\ Cat!Receive(c)
    /\ request'[c].id = asked[c].movieId
    /\ UNCHANGED orderVars

(* Mutant: a status the column's enum does not have. *)
PendingStatus == "PENDING"

InitialStatus == "CONFIRMED"

(* The order as it is built from the catalog's answer; its id, and the     *)
(* time of its creation, are the database's to give.                       *)
NewOrder(c, id, movie) ==
    [userId |-> asked[c].userId, movieId |-> id, movieTitle |-> movie.title,
     movieReleaseYear |-> movie.releaseYear, ticketPrice |-> movie.ticketPrice,
     quantity |-> asked[c].quantity,
     totalPrice |-> Cents[movie.ticketPrice] * asked[c].quantity,
     status |-> InitialStatus, createdAt |-> 0]

LookupReply(c) ==
    /\ stage[c] = "lookup"
    /\ pc[c] = "done"
    /\ \/ /\ reply[c].status = OK
          /\ \E pair \in reply[c].body :
                order' = [order EXCEPT ![c] = NewOrder(c, pair[1], pair[2])]
          /\ Proceed(c, "begin")
       \/ /\ reply[c].status # OK
          /\ Finish(c, reply[c].status, {})
    /\ UNCHANGED catalogVars
    /\ SameTable

(* Mutant: the pipe without timeout(). *)
NoTimeout(c) == FALSE

LookupTimeout(c) ==
    /\ stage[c] = "lookup"
    /\ Finish(c, GatewayTimeout, {})
    /\ UNCHANGED catalogVars
    /\ SameTable

(* No connection (503), or one that breaks under the call (503 or 502).    *)
LookupFails(c) ==
    /\ stage[c] = "lookup"
    /\ \E status \in {Unavailable, BadGateway} : Finish(c, status, {})
    /\ UNCHANGED catalogVars
    /\ SameTable

-----------------------------------------------------------------------------
(* create: save() of the new order.  created_at is now(), the time its     *)
(* transaction began, and the id is drawn by the INSERT after that.        *)

StartTransaction(c) ==
    /\ stage[c] = "begin"
    /\ \E tick \in {0, 1} :
          /\ clock' = clock + tick
          /\ order' = [order EXCEPT ![c].createdAt = clock + tick]
    /\ Proceed(c, "insert")
    /\ UNCHANGED <<catalogVars, orders, nextOrderId>>

(* Mutant: the INSERT is tried again when its confirmation is lost. *)
InsertRetried(c) ==
    /\ stage[c] = "insert" /\ nextOrderId <= OrderIdMax
    /\ nextOrderId' = nextOrderId + 1
    /\ orders' = [orders EXCEPT ![nextOrderId] = order[c]]
    /\ Finish(c, OK, {<<nextOrderId, order[c]>>}) \/ UNCHANGED <<stage, asked, order, answer>>
    /\ UNCHANGED <<catalogVars, clock>>

InsertOrder(c) ==
    /\ stage[c] = "insert"
    /\ \/ /\ nextOrderId > OrderIdMax
          /\ Throw(c, "OtherQueryFailure")
          /\ UNCHANGED <<orders, nextOrderId>>
       \/ /\ nextOrderId <= OrderIdMax
          /\ nextOrderId' = nextOrderId + 1
          /\ orders' = [orders EXCEPT ![nextOrderId] = order[c]]
          /\ Confirm(c, {<<nextOrderId, order[c]>>})
    /\ UNCHANGED <<catalogVars, clock>>

-----------------------------------------------------------------------------
(* The owner is part of every WHERE clause. *)

(* Mutant: the order is looked up by its id alone. *)
AnyOrder(user, i) == i \in OrderIds /\ orders[i] # NoOrder

OwnedBy(user, i) == i \in OrderIds /\ orders[i] # NoOrder /\ orders[i].userId = user

FindAllForUser(c) ==
    /\ stage[c] = "received" /\ asked[c].op = "list"
    /\ Finish(c, OK, {<<i, orders[i]>> :
                         i \in {j \in OrderIds : OwnedBy(asked[c].userId, j)}})
    /\ UNCHANGED catalogVars
    /\ SameTable

(* Mutant: ORDER BY created_at DESC alone. *)
ListedByTime(p, q) == p[2].createdAt > q[2].createdAt

(* ORDER BY created_at DESC, id DESC: p stands before q in the list. *)
ListedBefore(p, q) ==
    \/ p[2].createdAt > q[2].createdAt
    \/ p[2].createdAt = q[2].createdAt /\ p[1] > q[1]

(* findOneForUser, on its own or inside cancel, that finds nothing. *)
MissingOrder(c) ==
    /\ stage[c] = "received"
    /\ asked[c].op \in {"find", "cancel"}
    /\ \/ asked[c].orderId \notin OrderIds /\ Throw(c, "OtherQueryFailure")
       \/ /\ asked[c].orderId \in OrderIds
          /\ ~OwnedBy(asked[c].userId, asked[c].orderId)
          /\ Throw(c, "NotFoundException")
    /\ UNCHANGED catalogVars
    /\ SameTable

FindOneForUser(c) ==
    /\ stage[c] = "received" /\ asked[c].op = "find"
    /\ OwnedBy(asked[c].userId, asked[c].orderId)
    /\ Finish(c, OK, {<<asked[c].orderId, orders[asked[c].orderId]>>})
    /\ UNCHANGED catalogVars
    /\ SameTable

(* Mutant: the status is written at once, with the test, and save() left   *)
(* to find nothing to do.                                                  *)
CancelReadWrites(c) ==
    /\ stage[c] = "received" /\ asked[c].op = "cancel"
    /\ OwnedBy(asked[c].userId, asked[c].orderId)
    /\ LET found == orders[asked[c].orderId]
           cancelled == [found EXCEPT !.status = "CANCELLED"]
       IN \/ found.status = "CANCELLED" /\ Throw(c, "ConflictException") /\ UNCHANGED orders
          \/ /\ found.status # "CANCELLED"
             /\ orders' = [orders EXCEPT ![asked[c].orderId] = cancelled]
             /\ order' = [order EXCEPT ![c] = cancelled]
             /\ Proceed(c, "load")
    /\ UNCHANGED <<catalogVars, nextOrderId, clock>>

(* cancel: findOneForUser, then save() of the order with its new status,   *)
(* which reads the row again and writes the status if that differs.        *)
CancelRead(c) ==
    /\ stage[c] = "received" /\ asked[c].op = "cancel"
    /\ OwnedBy(asked[c].userId, asked[c].orderId)
    /\ LET found == orders[asked[c].orderId] IN
          \/ /\ found.status = "CANCELLED"
             /\ Throw(c, "ConflictException")
          \/ /\ found.status # "CANCELLED"
             /\ order' = [order EXCEPT ![c] = [found EXCEPT !.status = "CANCELLED"]]
             /\ Proceed(c, "load")
    /\ UNCHANGED catalogVars
    /\ SameTable

CancelLoad(c) ==
    /\ stage[c] = "load"
    /\ \/ /\ orders[asked[c].orderId].status = order[c].status
          /\ Finish(c, OK, {<<asked[c].orderId, order[c]>>})
       \/ /\ orders[asked[c].orderId].status # order[c].status
          /\ Proceed(c, "write") /\ UNCHANGED order
    /\ UNCHANGED catalogVars
    /\ SameTable

(* Mutant: the status is flipped where it should be set. *)
CancelToggles(c) ==
    /\ stage[c] = "write"
    /\ orders' = [orders EXCEPT ![asked[c].orderId].status =
                      IF @ = "CANCELLED" THEN "CONFIRMED" ELSE "CANCELLED"]
    /\ Confirm(c, {<<asked[c].orderId, order[c]>>})
    /\ UNCHANGED <<catalogVars, nextOrderId, clock>>

CancelWrite(c) ==
    /\ stage[c] = "write"
    /\ orders' = [orders EXCEPT ![asked[c].orderId].status = order[c].status]
    /\ Confirm(c, {<<asked[c].orderId, order[c]>>})
    /\ UNCHANGED <<catalogVars, nextOrderId, clock>>

-----------------------------------------------------------------------------
QueryFails(c) ==
    /\ DatabaseCanFail
    /\ stage[c] \in InProgress \ {"lookup"}
    /\ stage[c] = "received" => asked[c].op # "create"
    /\ Throw(c, "OtherQueryFailure")
    /\ UNCHANGED catalogVars
    /\ SameTable

(* The order service dies and is restarted; the catalog need not notice.   *)
(* (As there, a call cut off after its commit is done, its answer lost.)   *)
Crash ==
    LET running == {c \in OrderCalls : stage[c] \in InProgress} IN
    /\ running # {}
    /\ stage' = [c \in OrderCalls |-> IF c \in running THEN "lost" ELSE stage[c]]
    /\ order' = [c \in OrderCalls |-> NoOrder]
    /\ UNCHANGED <<catalogVars, asked, answer>>
    /\ SameTable

(* What the order service and its timers do of themselves, given that the  *)
(* orders database answers; nothing here waits for the catalog.            *)
Advance(c) ==
    \/ Lookup(c)           \/ LookupReply(c)    \/ LookupTimeout(c)
    \/ StartTransaction(c) \/ InsertOrder(c)
    \/ FindAllForUser(c)   \/ MissingOrder(c)   \/ FindOneForUser(c)
    \/ CancelRead(c)       \/ CancelLoad(c)     \/ CancelWrite(c)

OrderStep(c) ==
    Receive(c) \/ Advance(c) \/ LookupFails(c) \/ QueryFails(c)

(* The catalog goes on by itself, also with a lookup nobody waits for. *)
CatalogStep ==
    /\ \/ \E c \in Calls : (pc[c] = "idle" => c \notin OrderCalls) /\ Cat!Step(c)
       \/ Cat!Crash
    /\ UNCHANGED orderVars

Quiescent ==
    /\ \A c \in OrderCalls : stage[c] \in Ended
    /\ \A c \in Calls : pc[c] \in Cat!Waiting \union {"idle"} => c \in OrderCalls /\ pc[c] = "idle"
    /\ UNCHANGED vars

Next ==
    \/ \E c \in OrderCalls : OrderStep(c) \/ CatalogReceives(c)
    \/ Crash
    \/ CatalogStep
    \/ Quiescent

Spec == Init /\ [][Next]_vars

(* The event loop runs what is ready and every RPC has its timer.  Nothing *)
(* obliges the catalog to answer, nor a client to call.                    *)
FairSpec == Spec /\ \A c \in OrderCalls : WF_vars(Advance(c))

-----------------------------------------------------------------------------
Answered(c, op, status) ==
    asked[c].op = op /\ stage[c] = "done" /\ answer[c].status = status

OrderIdsIn(c) == {pair[1] : pair \in answer[c].body}

(* The values of the order service's variables, the columns of Order with  *)
(* their bounds among them.                                                *)
TypeOK ==
    /\ orders \in [OrderIds -> Order \union {NoOrder}]
    /\ nextOrderId \in 1..(OrderIdMax + 1)
    /\ clock \in Nat
    /\ stage \in [OrderCalls -> Stages]
    /\ asked \in [OrderCalls -> OrderRequests \union {NoRequest}]
    /\ order \in [OrderCalls -> Order \union {NoOrder}]
    /\ answer \in [OrderCalls -> Answers \union {NoAnswer}]

(* No answer shows a user an order of another user, and no order is        *)
(* cancelled but on the word of its owner ("orders are always looked up    *)
(* together with their owner", orders.service.ts).                         *)
OnlyOwnerReachesOrder ==
    /\ \A c \in OrderCalls : \A pair \in answer[c].body :
          pair[2].userId = asked[c].userId
    /\ \A i \in OrderIds :
          (orders[i] # NoOrder /\ orders[i].status = "CANCELLED") =>
              \E c \in OrderCalls :
                  /\ asked[c].op = "cancel"
                  /\ asked[c].orderId = i
                  /\ asked[c].userId = orders[i].userId

(* What a client was told of its order holds ever after: the snapshot and  *)
(* the total of an acknowledged create, whatever becomes of the movie, and *)
(* the status of an acknowledged cancel.                                   *)
AcknowledgedOrderStays ==
    /\ \A c \in OrderCalls : Answered(c, "create", OK) =>
          \A pair \in answer[c].body :
              orders[pair[1]] \in {pair[2], [pair[2] EXCEPT !.status = "CANCELLED"]}
    /\ \A c \in OrderCalls : Answered(c, "cancel", OK) =>
          orders[asked[c].orderId].status = "CANCELLED"

(* A create that is answered OK has made one order, and one that is turned *)
(* away (by the catalog, a timeout, a lost connection) has made none; only *)
(* a 500 leaves it open.  So the orders can be counted by the answers.     *)
OrdersMatchAnswers ==
    LET made == {c \in OrderCalls : Answered(c, "create", OK)}
        open == {c \in OrderCalls : Answered(c, "create", ServerError)}
        count == Cardinality({i \in OrderIds : orders[i] # NoOrder})
    IN  /\ Cardinality(made) <= count
        /\ count <= Cardinality(made) + Cardinality(open)
        /\ Cardinality(UNION {OrderIdsIn(c) : c \in made}) = Cardinality(made)

(* A cancel is turned down as a repetition only if another cancel of that  *)
(* order went through, as far as its caller can know.                      *)
CancelConflictJustified ==
    \A c \in OrderCalls : Answered(c, "cancel", Conflict) =>
        \E d \in OrderCalls \ {c} :
            /\ asked[d].op = "cancel" /\ asked[d].orderId = asked[c].orderId
            /\ Answered(d, "cancel", OK) \/ Answered(d, "cancel", ServerError)

(* "Orders can be cancelled once" (README.md): one cancel of an order is   *)
(* answered OK, the others are told it is cancelled already.               *)
CancelledOnce ==
    \A c, d \in OrderCalls :
        /\ Answered(c, "cancel", OK)
        /\ Answered(d, "cancel", OK)
        /\ asked[c].orderId = asked[d].orderId
        => c = d

(* Every call that reaches the order service comes to an end, even when    *)
(* the catalog never answers the lookup.                                   *)
EveryCallEnds ==
    \A c \in OrderCalls : stage[c] = "received" ~> stage[c] \in Ended
=============================================================================
