------------------------------ MODULE OrderBook ------------------------------
(***************************************************************************)
(* What the order service promises its callers.  A create is two instants: *)
(* at one the movie is quoted as the catalog has it, at a later one the    *)
(* order is placed, from the quote, or not at all.  Every other call takes *)
(* effect at one instant.  Which movies there are is not this service's to *)
(* decide.  No queries, transactions, timers or sequences are visible.     *)
(***************************************************************************)
EXTENDS Movies

CONSTANTS OrderCalls, OrderMenu, OrderIds, NoOrder, Cents

VARIABLES
    movies,     \* the catalog's table
    orders,     \* the orders there are, by their ids
    spent,      \* the ids that have been given out
    state,      \* idle, pending, done or lost
    asked, answer,
    quote       \* what each create knows of its movie

bookVars == <<orders, spent, state, asked, answer, quote>>
vars == <<movies, bookVars>>

NoQuote == [known |-> "nothing"]
NoSuchMovie == [known |-> "missing"]

Quote(id, movie) ==
    [known |-> "movie", movieId |-> id, movieTitle |-> movie.title,
     movieReleaseYear |-> movie.releaseYear, ticketPrice |-> movie.ticketPrice]

(* The order a create makes of its quote. *)
OrderOf(c) ==
    [userId |-> asked[c].userId, movieId |-> quote[c].movieId,
     movieTitle |-> quote[c].movieTitle,
     movieReleaseYear |-> quote[c].movieReleaseYear,
     ticketPrice |-> quote[c].ticketPrice, quantity |-> asked[c].quantity,
     totalPrice |-> Cents[quote[c].ticketPrice] * asked[c].quantity,
     status |-> "CONFIRMED"]

Init ==
    /\ orders = [i \in OrderIds |-> NoOrder]
    /\ spent = {}
    /\ state = [c \in OrderCalls |-> "idle"]
    /\ asked = [c \in OrderCalls |-> NoRequest]
    /\ answer = [c \in OrderCalls |-> [status |-> 0, body |-> {}]]
    /\ quote = [c \in OrderCalls |-> NoQuote]

Owns(user, i) == i \in OrderIds /\ orders[i] # NoOrder /\ orders[i].userId = user

Answer(c, status, body) ==
    /\ state[c] = "pending"
    /\ state' = [state EXCEPT ![c] = "done"]
    /\ answer' = [answer EXCEPT ![c] = [status |-> status, body |-> body]]
    /\ quote' = [quote EXCEPT ![c] = NoQuote]
    /\ UNCHANGED <<movies, asked>>

Ask(c) ==
    /\ state[c] = "idle"
    /\ \E req \in OrderMenu[c] : asked' = [asked EXCEPT ![c] = req]
    /\ state' = [state EXCEPT ![c] = "pending"]
    /\ UNCHANGED <<movies, orders, spent, answer, quote>>

(* An order id that is not positive is refused on arrival. *)
Refuse(c) ==
    /\ state[c] = "idle"
    /\ \E req \in OrderMenu[c] :
          /\ req.op \in {"find", "cancel"} /\ req.orderId < 1
          /\ asked' = [asked EXCEPT ![c] = req]
    /\ state' = [state EXCEPT ![c] = "done"]
    /\ answer' = [answer EXCEPT ![c] = [status |-> BadRequest, body |-> {}]]
    /\ UNCHANGED <<movies, orders, spent, quote>>

(* The catalog is looked at once, and the create keeps to what it saw. *)
LookUp(c) ==
    /\ state[c] = "pending"
    /\ asked[c].op = "create"
    /\ quote[c] = NoQuote
    /\ LET i == asked[c].movieId IN
          quote' = [quote EXCEPT ![c] =
              IF i \in MovieIds /\ movies[i] # NoRow
              THEN Quote(i, movies[i]) ELSE NoSuchMovie]
    /\ UNCHANGED <<movies, orders, spent, state, asked, answer>>

(* One order, under an id nobody was given before. *)
Place(c) ==
    /\ quote[c].known = "movie"
    /\ \E i \in OrderIds \ spent :
          /\ spent' = spent \union {i}
          /\ orders' = [orders EXCEPT ![i] = OrderOf(c)]
          /\ Answer(c, OK, {<<i, OrderOf(c)>>}) \/ Answer(c, ServerError, {})

(* No order: there was no such movie, or the catalog did not say in time.  *)
Decline(c) ==
    /\ asked[c].op = "create"
    /\ \/ quote[c] = NoSuchMovie /\ Answer(c, NotFound, {})
       \/ Answer(c, BadGateway, {})
       \/ Answer(c, Unavailable, {})
       \/ Answer(c, GatewayTimeout, {})
    /\ UNCHANGED <<orders, spent>>

List(c) ==
    /\ asked[c].op = "list"
    /\ Answer(c, OK, {<<i, orders[i]>> : i \in {j \in OrderIds : Owns(asked[c].userId, j)}})
    /\ UNCHANGED <<orders, spent>>

Missing(c) ==
    /\ asked[c].op \in {"find", "cancel"}
    /\ ~Owns(asked[c].userId, asked[c].orderId)
    /\ Answer(c, NotFound, {})
    /\ UNCHANGED <<orders, spent>>

Find(c) ==
    /\ asked[c].op = "find"
    /\ Owns(asked[c].userId, asked[c].orderId)
    /\ Answer(c, OK, {<<asked[c].orderId, orders[asked[c].orderId]>>})
    /\ UNCHANGED <<orders, spent>>

(* Also an order that is cancelled already may be: see CancelledOnce. *)
Cancel(c) ==
    /\ asked[c].op = "cancel"
    /\ Owns(asked[c].userId, asked[c].orderId)
    /\ LET i == asked[c].orderId
           cancelled == [orders[i] EXCEPT !.status = "CANCELLED"]
       IN  /\ orders' = [orders EXCEPT ![i] = cancelled]
           /\ Answer(c, OK, {<<i, cancelled>>}) \/ Answer(c, ServerError, {})
    /\ UNCHANGED spent

(* The only reason to refuse a cancel to the owner. *)
Repeated(c) ==
    /\ asked[c].op = "cancel"
    /\ Owns(asked[c].userId, asked[c].orderId)
    /\ orders[asked[c].orderId].status = "CANCELLED"
    /\ Answer(c, Conflict, {})
    /\ UNCHANGED <<orders, spent>>

(* An internal error without effect. *)
Fail(c) == Answer(c, ServerError, {}) /\ UNCHANGED <<orders, spent>>

(* The service dies with the calls in progress. *)
Lose ==
    /\ state' = [c \in OrderCalls |-> IF state[c] = "pending" THEN "lost" ELSE state[c]]
    /\ quote' = [c \in OrderCalls |-> NoQuote]
    /\ UNCHANGED <<movies, orders, spent, asked, answer>>

Step(c) ==
    \/ Ask(c)   \/ Refuse(c)  \/ LookUp(c) \/ Place(c) \/ Decline(c)
    \/ List(c)  \/ Missing(c) \/ Find(c)   \/ Cancel(c)
    \/ Repeated(c) \/ Fail(c)

(* The catalog changes its movies as it likes. *)
CatalogChanges == UNCHANGED bookVars

Next == (\E c \in OrderCalls : Step(c)) \/ Lose \/ CatalogChanges

Spec == Init /\ [][Next]_vars
=============================================================================
