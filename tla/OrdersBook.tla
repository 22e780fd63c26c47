------------------------------ MODULE OrdersBook ------------------------------
(***************************************************************************)
(* Orders as an implementation of OrderBook.  The quote of a create is     *)
(* what the catalog answered, while that waits to be read, and afterwards  *)
(* the snapshot in the order being made; times of creation, timers and     *)
(* the stages of a handler are not promised.                               *)
(***************************************************************************)
EXTENDS Orders

Plain(o) ==
    IF o = NoOrder THEN NoOrder ELSE [f \in DOMAIN o \ {"createdAt"} |-> o[f]]

(* An order without its time of creation; none of them is a missing one.   *)
PlainOrders ==
    [userId : Users, movieId : MovieIds, movieTitle : Values, movieReleaseYear : Values,
     ticketPrice : Values, quantity : Quantities, totalPrice : Nat,
     status : {"CONFIRMED", "CANCELLED"}]

ASSUME PlainAssumption == NoOrder \notin PlainOrders

PlainBody(body) == {<<p[1], Plain(p[2])>> : p \in body}

QuotedMovie(c) ==
    LET pair == CHOOSE p \in reply[c].body : TRUE
    IN  [known |-> "movie", movieId |-> pair[1], movieTitle |-> pair[2].title,
         movieReleaseYear |-> pair[2].releaseYear, ticketPrice |-> pair[2].ticketPrice]

QuotedOrder(c) ==
    [known |-> "movie", movieId |-> order[c].movieId, movieTitle |-> order[c].movieTitle,
     movieReleaseYear |-> order[c].movieReleaseYear, ticketPrice |-> order[c].ticketPrice]

StateOf(c) == IF stage[c] \in InProgress THEN "pending" ELSE stage[c]

AnswerOf(c) == [status |-> answer[c].status, body |-> PlainBody(answer[c].body)]

QuoteOf(c) ==
    CASE stage[c] = "lookup" /\ reply[c].status = OK       -> QuotedMovie(c)
      [] stage[c] = "lookup" /\ reply[c].status = NotFound -> [known |-> "missing"]
      [] stage[c] \in {"begin", "insert"}                  -> QuotedOrder(c)
      [] OTHER                                             -> [known |-> "nothing"]

BookOrders == [i \in OrderIds |-> Plain(orders[i])]
BookState == [c \in OrderCalls |-> StateOf(c)]
BookAnswer == [c \in OrderCalls |-> AnswerOf(c)]
BookQuote == [c \in OrderCalls |-> QuoteOf(c)]

Book == INSTANCE OrderBook WITH
    orders <- BookOrders, spent <- 1..(nextOrderId - 1), state <- BookState,
    answer <- BookAnswer, quote <- BookQuote

(* Every call of the order service is answered as if it had taken effect   *)
(* at one instant, a create from one look at the catalog; its queries, its *)
(* timer and the catalog's own doings show in nothing else.                *)
ImplementsOrderBook == Book!Spec
=============================================================================
