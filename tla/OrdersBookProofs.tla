--------------------------- MODULE OrdersBookProofs ---------------------------
(***************************************************************************)
(* The theorem that Orders implements OrderBook, for any calls, menus,     *)
(* users and movies.                                                       *)
(*                                                                         *)
(* Each end of a handler maps to the step of OrderBook with that answer,   *)
(* the look of the catalog at its row to LookUp, and every other step to a *)
(* stutter or a change of the catalog's.  What it takes, beyond Inv, is    *)
(* that the order in a handler's memory is the one OrderBook would make:   *)
(* of the quote for a create, of the row as it now is for a cancel.        *)
(***************************************************************************)
EXTENDS OrdersBook, OrdersProofs

(* What the lookup of c has found: nothing before its end.                 *)
Found(c) ==
    /\ pc[c] # "done" => reply[c].status = 0
    /\ pc[c] = "done" => reply[c].status \in {OK, NotFound, ServerError}
    /\ reply[c].status = OK => \E pair \in MovieIds \X Row : reply[c].body = {pair}

(* The order in the memory of the handler of c.                            *)
Draft(c) ==
    /\ stage[c] \in {"begin", "insert"} =>
          /\ order[c].quantity = asked[c].quantity
          /\ order[c].totalPrice = Cents[order[c].ticketPrice] * asked[c].quantity
    /\ stage[c] \in {"load", "write"} =>
          order[c] = [orders[asked[c].orderId] EXCEPT !.status = "CANCELLED"]

BookInv == \A c \in OrderCalls : Asking(c) /\ Found(c) /\ Draft(c)

-----------------------------------------------------------------------------
(* What the handlers remember, is kept. *)

(* At the start nobody has asked or found anything.                        *)
LEMMA BookInvInit == ASSUME Init PROVE BookInv
<1>1. \A c \in OrderCalls : pc[c] = "idle" /\ reply[c].status = 0 /\ stage[c] = "idle"
  BY OrderAssumption DEF Init, Cat!Init, Cat!NoReply
<1>2. OK # 0
  BY DEF OK
<1> QED
  BY <1>1, <1>2 DEF BookInv, Asking, Found, Draft

(* A handler that waits to write a cancellation is not surprised by others.*)
LEMMA DraftStays ==
    ASSUME Inv, NEW d \in OrderCalls, Draft(d), Kept,
           stage'[d] = stage[d], asked'[d] = asked[d], order'[d] = order[d]
    PROVE  Draft(d)'
<1>1. CASE stage[d] \in {"load", "write"}
  <2> DEFINE i == asked[d].orderId
  <2>1. i \in OrderIds /\ orders[i] # NoOrder
    BY <1>1 DEF Inv, Calling, Knows, OwnedBy
  <2>2. orders[i] \in Order
    BY <2>1 DEF Inv, TypeOK
  <2>3. orders'[i] \in {orders[i], [orders[i] EXCEPT !.status = "CANCELLED"]}
    BY <2>1 DEF Kept
  <2>4. \A o \in Order :
            [[o EXCEPT !.status = "CANCELLED"] EXCEPT !.status = "CANCELLED"]
            = [o EXCEPT !.status = "CANCELLED"]
    BY DEF Order
  <2>5. order[d] = [orders[i] EXCEPT !.status = "CANCELLED"]
    BY <1>1 DEF Draft
  <2>6. order'[d] = [orders'[i] EXCEPT !.status = "CANCELLED"]
    BY <2>2, <2>3, <2>4, <2>5
  <2> QED
    BY <1>1, <2>6 DEF Draft
<1>2. CASE stage[d] \notin {"load", "write"}
  BY <1>2 DEF Draft
<1> QED
  BY <1>1, <1>2

(* A catalog that goes on, or dies, leaves the orders in memory alone.     *)
LEMMA CatalogStepRemembers ==
    ASSUME Inv, BookInv, UNCHANGED orderVars, NEW c \in OrderCalls,
           Asking(c)', Found(c)'
    PROVE  (Asking(c) /\ Found(c) /\ Draft(c))'
  BY DEF BookInv, Draft, orderVars

(* A handler asks the catalog once, and does not start again.              *)
LEMMA OrderStepAsks ==
    ASSUME Inv, NEW c \in OrderCalls, OrderStep(c), Asking(c)
    PROVE  Asking(c)'
<1>1. UNCHANGED catalogVars
  BY OrderStepAlone
<1>2. CASE Receive(c)
  BY <1>1, <1>2 DEF Receive, Asking, catalogVars
<1>3. CASE ~Receive(c)
  <2>1. stage'[c] \notin {"idle", "received"} /\ asked'[c] = asked[c]
    BY <1>3 DEF Inv, TypeOK, OrderStep, Advance, Lookup, LookupReply, LookupTimeout,
       LookupFails, StartTransaction, InsertOrder, FindAllForUser, MissingOrder,
       FindOneForUser, CancelRead, CancelLoad, CancelWrite, QueryFails,
       Throw, Confirm, Finish, Proceed
  <2> QED
    BY <1>1, <2>1 DEF Asking, catalogVars
<1> QED
  BY <1>2, <1>3

(* An order is made of what the catalog has answered, and cancelled from   *)
(* what was read of it.                                                    *)
LEMMA OrderStepDrafts ==
    ASSUME Inv, BookInv, NEW c \in OrderCalls, OrderStep(c)
    PROVE  Draft(c)'
<1>1. /\ stage \in [OrderCalls -> Stages]
      /\ order \in [OrderCalls -> Order \union {NoOrder}]
      /\ orders \in [OrderIds -> Order \union {NoOrder}]
      /\ Draft(c) /\ Found(c) /\ Knows(c)
  BY DEF Inv, TypeOK, Calling, BookInv
<1>2. CASE stage'[c] \notin {"begin", "insert", "load", "write"}
  BY <1>2 DEF Draft
<1>3. CASE LookupReply(c) /\ stage'[c] = "begin"
  <2>1. PICK pair \in reply[c].body :
            /\ reply[c].status = OK
            /\ order' = [order EXCEPT ![c] = NewOrder(c, pair[1], pair[2])]
            /\ asked' = asked
    BY <1>1, <1>3 DEF LookupReply, Proceed, Finish
  <2>2. order'[c] = NewOrder(c, pair[1], pair[2])
    BY <1>1, <2>1
  <2>3. order'[c].quantity = asked[c].quantity
        /\ order'[c].totalPrice = Cents[order'[c].ticketPrice] * asked[c].quantity
    BY <2>2 DEF NewOrder
  <2> QED
    BY <1>3, <2>1, <2>3 DEF Draft
<1>4. CASE StartTransaction(c)
  <2>1. PICK tick \in {0, 1} : order' = [order EXCEPT ![c].createdAt = clock + tick]
    BY <1>4 DEF StartTransaction
  <2>2. stage[c] = "begin" /\ stage'[c] = "insert" /\ asked' = asked
    BY <1>1, <1>4 DEF StartTransaction, Proceed
  <2>3. order[c] \in Order
    BY <1>1, <2>2 DEF Knows
  <2>4. /\ order'[c].quantity = order[c].quantity
        /\ order'[c].totalPrice = order[c].totalPrice
        /\ order'[c].ticketPrice = order[c].ticketPrice
    BY <1>1, <2>1, <2>3 DEF Order
  <2> QED
    BY <1>1, <2>2, <2>4 DEF Draft
<1>5. CASE CancelRead(c) /\ stage'[c] = "load"
  <2>1. /\ order' = [order EXCEPT ![c] =
                [orders[asked[c].orderId] EXCEPT !.status = "CANCELLED"]]
        /\ orders' = orders /\ asked' = asked
    BY <1>1, <1>5 DEF CancelRead, Throw, Finish, Proceed, SameTable
  <2> QED
    BY <1>1, <1>5, <2>1 DEF Draft
<1>6. CASE CancelLoad(c) /\ stage'[c] = "write"
  <2>1. stage[c] = "load" /\ orders' = orders /\ asked' = asked /\ order' = order
    BY <1>1, <1>6 DEF CancelLoad, Finish, Proceed, SameTable
  <2> QED
    BY <1>1, <1>6, <2>1 DEF Draft
<1>7. \/ stage'[c] \notin {"begin", "insert", "load", "write"}
      \/ LookupReply(c) /\ stage'[c] = "begin"
      \/ StartTransaction(c)
      \/ CancelRead(c) /\ stage'[c] = "load"
      \/ CancelLoad(c) /\ stage'[c] = "write"
  BY <1>1 DEF OrderStep, Advance, Receive, Lookup, LookupReply, LookupTimeout, LookupFails,
     InsertOrder, FindAllForUser, MissingOrder, FindOneForUser,
     CancelRead, CancelLoad, CancelWrite, QueryFails, Throw, Confirm, Finish, Proceed
<1> QED
  BY <1>2, <1>3, <1>4, <1>5, <1>6, <1>7

(* Every step of either service keeps it.                                  *)
LEMMA BookInvNext == ASSUME Inv, BookInv, [Next]_vars PROVE BookInv'
<1> SUFFICES ASSUME NEW d \in OrderCalls
             PROVE  (Asking(d) /\ Found(d) /\ Draft(d))'
  BY DEF BookInv
<1>0. Asking(d) /\ Found(d) /\ Draft(d) /\ d \in Calls /\ CatalogKnows
  BY OrderAssumption DEF BookInv, Inv
<1>1. ASSUME NEW c \in OrderCalls, OrderStep(c)
      PROVE  (Asking(d) /\ Found(d) /\ Draft(d))'
  <2>1. OnlyCall(c) /\ UNCHANGED catalogVars /\ Kept
    BY <1>1, OrderStepAlone, RowsKept
  <2>2. Found(d)'
    BY <1>0, <2>1 DEF Found, catalogVars
  <2>3. CASE d = c
    BY <1>0, <1>1, <2>2, <2>3, OrderStepAsks, OrderStepDrafts
  <2>4. CASE d # c
    <3>1. stage'[d] = stage[d] /\ asked'[d] = asked[d] /\ order'[d] = order[d]
      BY <2>1, <2>4 DEF OnlyCall
    <3>2. Draft(d)'
      BY <1>0, <2>1, <3>1, DraftStays
    <3> QED
      BY <1>0, <2>1, <2>2, <3>1, <3>2 DEF Asking, catalogVars
  <2> QED
    BY <2>3, <2>4
<1>2. ASSUME UNCHANGED orderVars,
             pc'[d] = pc[d], request'[d] = request[d], reply'[d] = reply[d]
      PROVE  (Asking(d) /\ Found(d) /\ Draft(d))'
  BY <1>0, <1>2 DEF Asking, Found, Draft, orderVars
<1>3. ASSUME UNCHANGED orderVars, Cat!Step(d), pc[d] # "idle"
      PROVE  (Asking(d) /\ Found(d) /\ Draft(d))'
  <2>1. /\ pc'[d] = "done" /\ request'[d] = request[d]
        /\ reply'[d].status \in {OK, NotFound, ServerError}
        /\ reply'[d].status = OK =>
              /\ request[d].id \in MovieIds /\ movies[request[d].id] # NoRow
              /\ reply'[d].body = {<<request[d].id, movies[request[d].id]>>}
    BY <1>0, <1>3, LookupServed
  <2>2. Asking(d)'
    BY <1>0, <1>3, <2>1 DEF Asking, orderVars
  <2>3. Found(d)'
    <3>1. reply'[d].status = OK => \E pair \in MovieIds \X Row : reply'[d].body = {pair}
      BY <1>0, <2>1 DEF CatalogKnows
    <3> QED
      BY <2>1, <3>1 DEF Found
  <2> QED
    BY <1>3, <2>2, <2>3, CatalogStepRemembers
<1>4. ASSUME NEW c \in OrderCalls, CatalogReceives(c)
      PROVE  (Asking(d) /\ Found(d) /\ Draft(d))'
  <2>1. /\ stage[c] = "lookup" /\ asked[c].op = "create"
        /\ pc[c] = "idle" /\ pc'[c] = "received" /\ reply'[c] = reply[c]
        /\ request'[c].id = asked[c].movieId
        /\ Cat!Step(c) /\ UNCHANGED orderVars /\ c \in Calls
    BY <1>4, LookupTaken
  <2>2. CASE d = c
    <3>1. Asking(d)'
      BY <2>1, <2>2 DEF Asking, orderVars
    <3>2. Found(d)'
      BY <1>0, <2>1, <2>2 DEF Found
    <3> QED
      BY <2>1, <3>1, <3>2, CatalogStepRemembers
  <2>3. CASE d # c
    BY <1>0, <1>2, <2>1, <2>3, CatalogOthers
  <2> QED
    BY <2>2, <2>3
<1>5. ASSUME NEW c \in Calls, pc[c] = "idle" => c \notin OrderCalls, Cat!Step(c),
             UNCHANGED orderVars
      PROVE  (Asking(d) /\ Found(d) /\ Draft(d))'
  <2>1. CASE d = c
    BY <1>3, <1>5, <2>1
  <2>2. CASE d # c
    BY <1>0, <1>2, <1>5, <2>2, CatalogOthers
  <2> QED
    BY <2>1, <2>2
<1>6. CASE Cat!Crash /\ UNCHANGED orderVars
  <2>1. /\ request'[d] = request[d] /\ reply'[d] = reply[d]
        /\ pc'[d] = pc[d] \/ (pc[d] \notin {"idle", "done"} /\ pc'[d] = "lost")
    BY <1>0, <1>6 DEF Cat!Crash, Cat!Waiting
  <2> QED
    BY <1>0, <1>6, <2>1 DEF Asking, Found, Draft, orderVars
<1>7. CASE Crash
  <2>1. /\ UNCHANGED catalogVars /\ asked' = asked
        /\ stage'[d] = IF stage[d] \in InProgress THEN "lost" ELSE stage[d]
    BY <1>7 DEF Crash
  <2> QED
    BY <1>0, <2>1 DEF Asking, Found, Draft, catalogVars, InProgress
<1>8. CASE UNCHANGED vars
  BY <1>2, <1>8 DEF vars, catalogVars
<1> QED
  BY <1>1, <1>4, <1>5, <1>6, <1>7, <1>8 DEF Next, CatalogStep, Quiescent

-----------------------------------------------------------------------------
(* The mapping. *)

(* OrderBook speaks of the same data.                                      *)
LEMMA SameBook ==
    /\ Book!OK = OK /\ Book!BadRequest = BadRequest /\ Book!NotFound = NotFound
    /\ Book!Conflict = Conflict /\ Book!ServerError = ServerError
    /\ Book!BadGateway = BadGateway /\ Book!Unavailable = Unavailable
    /\ Book!GatewayTimeout = GatewayTimeout
    /\ Book!MovieIds = MovieIds /\ Book!NoRequest = NoRequest
    /\ Book!NoQuote = [known |-> "nothing"] /\ Book!NoSuchMovie = [known |-> "missing"]
  BY DEF Book!OK, OK, Book!BadRequest, BadRequest, Book!NotFound, NotFound,
     Book!Conflict, Conflict, Book!ServerError, ServerError, Book!BadGateway, BadGateway,
     Book!Unavailable, Unavailable, Book!GatewayTimeout, GatewayTimeout,
     Book!MovieIds, MovieIds, Book!NoRequest, NoRequest, Book!NoQuote, Book!NoSuchMovie

(* An order keeps everything but its time of creation.                     *)
LEMMA PlainOrder ==
    ASSUME NEW o \in Order
    PROVE  /\ Plain(o) =
                [userId |-> o.userId, movieId |-> o.movieId, movieTitle |-> o.movieTitle,
                 movieReleaseYear |-> o.movieReleaseYear, ticketPrice |-> o.ticketPrice,
                 quantity |-> o.quantity, totalPrice |-> o.totalPrice, status |-> o.status]
           /\ Plain(o) \in PlainOrders
<1>1. o # NoOrder
  BY OrderAssumption
<1>2. DOMAIN o \ {"createdAt"} =
          {"userId", "movieId", "movieTitle", "movieReleaseYear", "ticketPrice",
           "quantity", "totalPrice", "status"}
  BY DEF Order
<1>3. Plain(o) = [f \in DOMAIN o \ {"createdAt"} |-> o[f]]
  BY <1>1 DEF Plain
<1>4. Plain(o) =
        [userId |-> o.userId, movieId |-> o.movieId, movieTitle |-> o.movieTitle,
         movieReleaseYear |-> o.movieReleaseYear, ticketPrice |-> o.ticketPrice,
         quantity |-> o.quantity, totalPrice |-> o.totalPrice, status |-> o.status]
  BY <1>2, <1>3
<1>5. /\ o.userId \in Users /\ o.movieId \in MovieIds /\ o.movieTitle \in Values
      /\ o.movieReleaseYear \in Values /\ o.ticketPrice \in Values
      /\ o.quantity \in Quantities /\ o.totalPrice \in Nat
      /\ o.status \in {"CONFIRMED", "CANCELLED"}
  BY DEF Order
<1> QED
  BY <1>4, <1>5 DEF PlainOrders

(* It shows its owner and status, and is cancelled as the order is.        *)
LEMMA PlainCancelled ==
    ASSUME NEW o \in Order
    PROVE  /\ Plain(o) # NoOrder
           /\ Plain(o).userId = o.userId /\ Plain(o).status = o.status
           /\ Plain([o EXCEPT !.status = "CANCELLED"]) =
                  [Plain(o) EXCEPT !.status = "CANCELLED"]
<1>1. Plain(o) # NoOrder
  BY PlainOrder, PlainAssumption
<1>2. Plain(o).userId = o.userId /\ Plain(o).status = o.status
  BY PlainOrder
<1>3. Plain([o EXCEPT !.status = "CANCELLED"]) = [Plain(o) EXCEPT !.status = "CANCELLED"]
  <2> DEFINE p == [o EXCEPT !.status = "CANCELLED"]
  <2>1. p \in Order
    BY OrderUpdates
  <2>2. /\ p.userId = o.userId /\ p.movieId = o.movieId /\ p.movieTitle = o.movieTitle
        /\ p.movieReleaseYear = o.movieReleaseYear /\ p.ticketPrice = o.ticketPrice
        /\ p.quantity = o.quantity /\ p.totalPrice = o.totalPrice /\ p.status = "CANCELLED"
    BY DEF Order
  <2> HIDE DEF p
  <2>3. Plain(p) =
          [userId |-> o.userId, movieId |-> o.movieId, movieTitle |-> o.movieTitle,
           movieReleaseYear |-> o.movieReleaseYear, ticketPrice |-> o.ticketPrice,
           quantity |-> o.quantity, totalPrice |-> o.totalPrice, status |-> "CANCELLED"]
    BY <2>1, <2>2, PlainOrder
  <2>4. [Plain(o) EXCEPT !.status = "CANCELLED"] =
          [userId |-> o.userId, movieId |-> o.movieId, movieTitle |-> o.movieTitle,
           movieReleaseYear |-> o.movieReleaseYear, ticketPrice |-> o.ticketPrice,
           quantity |-> o.quantity, totalPrice |-> o.totalPrice, status |-> "CANCELLED"]
    BY PlainOrder
  <2> QED
    BY <2>3, <2>4 DEF p
<1> QED
  BY <1>1, <1>2, <1>3

(* The rows of the table are the orders of OrderBook.                      *)
LEMMA BookRows ==
    ASSUME Inv, NEW i \in OrderIds
    PROVE  /\ BookOrders[i] = Plain(orders[i])
           /\ BookOrders[i] = NoOrder <=> orders[i] = NoOrder
           /\ orders[i] # NoOrder => orders[i] \in Order
           /\ \A user : Book!Owns(user, i) <=> OwnedBy(user, i)
<1>1. BookOrders[i] = Plain(orders[i])
  BY DEF BookOrders
<1>2. orders[i] # NoOrder => orders[i] \in Order
  BY DEF Inv, TypeOK
<1>3. BookOrders[i] = NoOrder <=> orders[i] = NoOrder
  BY <1>1, <1>2, PlainCancelled DEF Plain
<1>4. ASSUME NEW user
      PROVE  Book!Owns(user, i) <=> OwnedBy(user, i)
  BY <1>1, <1>2, <1>3, PlainCancelled DEF Book!Owns, OwnedBy
<1> QED
  BY <1>1, <1>2, <1>3, <1>4

(* A step of one call changes what OrderBook sees of that call only.       *)
LEMMA Mapped ==
    ASSUME NEW c \in OrderCalls,
           \A d \in OrderCalls \ {c} :
              stage'[d] = stage[d] /\ order'[d] = order[d]
              /\ answer'[d] = answer[d] /\ reply'[d] = reply[d]
    PROVE  /\ BookState' = [BookState EXCEPT ![c] = StateOf(c)']
           /\ BookAnswer' = [BookAnswer EXCEPT ![c] = AnswerOf(c)']
           /\ BookQuote' = [BookQuote EXCEPT ![c] = QuoteOf(c)']
<1>1. \A d \in OrderCalls \ {c} :
          StateOf(d)' = StateOf(d) /\ AnswerOf(d)' = AnswerOf(d)
  BY DEF StateOf, AnswerOf
<1>2. \A d \in OrderCalls \ {c} : QuoteOf(d)' = QuoteOf(d)
  BY DEF QuoteOf, QuotedMovie, QuotedOrder
<1>3. BookState' = [BookState EXCEPT ![c] = StateOf(c)']
  BY <1>1 DEF BookState
<1>4. BookAnswer' = [BookAnswer EXCEPT ![c] = AnswerOf(c)']
  BY <1>1 DEF BookAnswer
<1>5. BookQuote' = [BookQuote EXCEPT ![c] = QuoteOf(c)']
  BY <1>2 DEF BookQuote
<1> QED
  BY <1>3, <1>4, <1>5

(* A step that touches no row touches no order of OrderBook.               *)
LEMMA SameBookRows ==
    ASSUME SameRows
    PROVE  BookOrders' = BookOrders /\ (1..(nextOrderId - 1))' = 1..(nextOrderId - 1)
  BY DEF SameRows, BookOrders

(* A handler that ends gives OrderBook's answer.                           *)
LEMMA FinishMaps ==
    ASSUME Inv, NEW c \in OrderCalls, stage[c] \in InProgress, NEW status, NEW body,
           Finish(c, status, body), UNCHANGED catalogVars
    PROVE  Book!Answer(c, status, PlainBody(body))
<1>1. /\ stage \in [OrderCalls -> Stages]
      /\ answer \in [OrderCalls -> Answers \union {NoAnswer}]
      /\ order \in [OrderCalls -> Order \union {NoOrder}]
  BY DEF Inv, TypeOK
<1>2. /\ stage'[c] = "done"
      /\ answer'[c].status = status /\ answer'[c].body = body
      /\ asked' = asked /\ movies' = movies /\ reply' = reply
  BY <1>1 DEF Finish, catalogVars
<1>3. \A d \in OrderCalls \ {c} :
          stage'[d] = stage[d] /\ order'[d] = order[d]
          /\ answer'[d] = answer[d] /\ reply'[d] = reply[d]
  BY <1>1, <1>2 DEF Finish
<1>4. StateOf(c)' = "done" /\ BookState[c] = "pending"
  BY <1>2 DEF StateOf, BookState, InProgress
<1>5. AnswerOf(c)' = [status |-> status, body |-> PlainBody(body)]
  BY <1>2 DEF AnswerOf
<1>6. QuoteOf(c)' = Book!NoQuote
  BY <1>2, SameBook DEF QuoteOf
<1>7. /\ BookState' = [BookState EXCEPT ![c] = StateOf(c)']
      /\ BookAnswer' = [BookAnswer EXCEPT ![c] = AnswerOf(c)']
      /\ BookQuote' = [BookQuote EXCEPT ![c] = QuoteOf(c)']
  BY <1>3, Mapped
<1> QED
  BY <1>2, <1>4, <1>5, <1>6, <1>7 DEF Book!Answer

(* A handler that goes on, with the same quote, shows nothing.             *)
LEMMA StutterMaps ==
    ASSUME Inv, NEW c \in OrderCalls, OnlyCall(c), UNCHANGED catalogVars, SameRows,
           asked' = asked, answer' = answer, stage[c] \in InProgress,
           stage'[c] \in InProgress, QuoteOf(c)' = QuoteOf(c)
    PROVE  UNCHANGED Book!vars
<1>1. /\ BookState' = [BookState EXCEPT ![c] = StateOf(c)']
      /\ BookAnswer' = [BookAnswer EXCEPT ![c] = AnswerOf(c)']
      /\ BookQuote' = [BookQuote EXCEPT ![c] = QuoteOf(c)']
  BY Mapped DEF OnlyCall, catalogVars
<1>2. /\ StateOf(c)' = BookState[c] /\ AnswerOf(c)' = BookAnswer[c]
      /\ QuoteOf(c)' = BookQuote[c]
  BY DEF StateOf, BookState, AnswerOf, BookAnswer, BookQuote
<1>3. BookState' = BookState /\ BookAnswer' = BookAnswer /\ BookQuote' = BookQuote
  BY <1>1, <1>2 DEF BookState, BookAnswer, BookQuote
<1>4. BookOrders' = BookOrders /\ (1..(nextOrderId - 1))' = 1..(nextOrderId - 1)
  BY SameBookRows
<1> QED
  BY <1>3, <1>4 DEF Book!vars, Book!bookVars, catalogVars

(* An exception other than those of the contract is an internal error.     *)
LEMMA ThrowMaps ==
    ASSUME Inv, NEW c \in OrderCalls, stage[c] \in InProgress, SameRows,
           UNCHANGED catalogVars, Throw(c, "OtherQueryFailure")
    PROVE  Book!Fail(c)
<1>1. Finish(c, ServerError, {})
  BY StatusValues DEF Throw
<1>2. Book!Answer(c, ServerError, PlainBody({}))
  BY <1>1, FinishMaps
<1>3. PlainBody({}) = {}
  BY DEF PlainBody
<1> QED
  BY <1>2, <1>3, SameBook, SameBookRows DEF Book!Fail

-----------------------------------------------------------------------------
(* The steps of a create. *)

(* A call that arrives is asked, or refused.                               *)
LEMMA ReceiveMaps ==
    ASSUME Inv, NEW c \in OrderCalls, Receive(c)
    PROVE  Book!Ask(c) \/ Book!Refuse(c)
<1>1. PICK req \in OrderMenu[c] :
          /\ asked' = [asked EXCEPT ![c] = req]
          /\ IF req.op \in {"find", "cancel"} /\ req.orderId < 1
             THEN /\ stage' = [stage EXCEPT ![c] = "done"]
                  /\ answer' = [answer EXCEPT ![c] =
                        [status |-> StatusOf("BadRequestException"), body |-> {}]]
             ELSE stage' = [stage EXCEPT ![c] = "received"] /\ UNCHANGED answer
  BY DEF Receive
<1>2. /\ stage[c] = "idle" /\ UNCHANGED <<catalogVars, order>> /\ SameRows
      /\ stage \in [OrderCalls -> Stages]
      /\ answer \in [OrderCalls -> Answers \union {NoAnswer}]
  BY DEF Receive, SameTable, SameRows, Inv, TypeOK
<1>3. \A d \in OrderCalls \ {c} :
          stage'[d] = stage[d] /\ order'[d] = order[d]
          /\ answer'[d] = answer[d] /\ reply'[d] = reply[d]
  BY <1>1, <1>2 DEF catalogVars
<1>4. /\ BookState' = [BookState EXCEPT ![c] = StateOf(c)']
      /\ BookAnswer' = [BookAnswer EXCEPT ![c] = AnswerOf(c)']
      /\ BookQuote' = [BookQuote EXCEPT ![c] = QuoteOf(c)']
  BY <1>3, Mapped
<1>5. BookState[c] = "idle" /\ BookQuote[c] = QuoteOf(c) /\ BookAnswer[c] = AnswerOf(c)
  BY <1>2 DEF BookState, StateOf, InProgress, BookQuote, BookAnswer
<1>6. QuoteOf(c)' = QuoteOf(c)
  BY <1>1, <1>2 DEF QuoteOf
<1>7. /\ BookQuote' = BookQuote /\ movies' = movies
      /\ BookOrders' = BookOrders /\ (1..(nextOrderId - 1))' = 1..(nextOrderId - 1)
  BY <1>2, <1>4, <1>5, <1>6, SameBookRows DEF BookQuote, catalogVars
<1>8. CASE req.op \in {"find", "cancel"} /\ req.orderId < 1
  <2>1. StateOf(c)' = "done"
    BY <1>1, <1>2, <1>8 DEF StateOf, InProgress
  <2>2. AnswerOf(c)' = [status |-> BadRequest, body |-> {}]
    <3>1. answer'[c].status = BadRequest /\ answer'[c].body = {}
      BY <1>1, <1>2, <1>8, StatusValues
    <3>2. PlainBody({}) = {}
      BY DEF PlainBody
    <3> QED
      BY <3>1, <3>2 DEF AnswerOf
  <2> QED
    BY <1>1, <1>4, <1>5, <1>7, <1>8, <2>1, <2>2, SameBook DEF Book!Refuse
<1>9. CASE ~(req.op \in {"find", "cancel"} /\ req.orderId < 1)
  <2>1. StateOf(c)' = "pending" /\ AnswerOf(c)' = AnswerOf(c)
    BY <1>1, <1>2, <1>9 DEF StateOf, InProgress, AnswerOf
  <2>2. BookAnswer' = BookAnswer
    BY <1>4, <1>5, <2>1 DEF BookAnswer
  <2> QED
    BY <1>1, <1>4, <1>5, <1>7, <2>1, <2>2 DEF Book!Ask
<1> QED
  BY <1>8, <1>9

(* What a create is built from is the movie that was quoted.               *)
LEMMA QuotesAgree ==
    ASSUME NEW c \in OrderCalls, NEW pair, reply[c].body = {pair}, reply[c].status = OK,
           stage[c] = "lookup", stage'[c] = "begin",
           order'[c] = NewOrder(c, pair[1], pair[2])
    PROVE  QuoteOf(c)' = QuoteOf(c)
<1> DEFINE chosen == CHOOSE p \in reply[c].body : TRUE
<1>1. chosen = pair
  OBVIOUS
<1> HIDE DEF chosen
<1>2. QuotedMovie(c) =
          [known |-> "movie", movieId |-> pair[1], movieTitle |-> pair[2].title,
           movieReleaseYear |-> pair[2].releaseYear, ticketPrice |-> pair[2].ticketPrice]
  BY <1>1 DEF QuotedMovie, chosen
<1>3. QuoteOf(c) = QuotedMovie(c)
  BY DEF QuoteOf, OK, NotFound
<1>4. QuoteOf(c)' =
          [known |-> "movie", movieId |-> order'[c].movieId,
           movieTitle |-> order'[c].movieTitle,
           movieReleaseYear |-> order'[c].movieReleaseYear,
           ticketPrice |-> order'[c].ticketPrice]
  BY DEF QuoteOf, QuotedOrder
<1> QED
  BY <1>2, <1>3, <1>4 DEF NewOrder

(* The end of a lookup declines the create, fails it, or does not show.    *)
LEMMA LookupReplyMaps ==
    ASSUME Inv, BookInv, NEW c \in OrderCalls, LookupReply(c)
    PROVE  Book!Decline(c) \/ Book!Fail(c) \/ UNCHANGED Book!vars
<1>1. /\ stage[c] = "lookup" /\ pc[c] = "done" /\ UNCHANGED catalogVars /\ SameRows
      /\ stage \in [OrderCalls -> Stages]
      /\ order \in [OrderCalls -> Order \union {NoOrder}]
      /\ asked[c].op = "create" /\ stage[c] \in InProgress
      /\ reply[c].status \in {OK, NotFound, ServerError}
      /\ reply[c].status = OK => \E pair \in MovieIds \X Row : reply[c].body = {pair}
  BY DEF LookupReply, SameTable, SameRows, Inv, TypeOK, Calling, Knows, InProgress,
     BookInv, Found
<1>2. CASE reply[c].status = OK
  <2>1. PICK pair \in MovieIds \X Row : reply[c].body = {pair}
    BY <1>1, <1>2
  <2>2. /\ order' = [order EXCEPT ![c] = NewOrder(c, pair[1], pair[2])]
        /\ Proceed(c, "begin")
    BY <1>2, <2>1 DEF LookupReply
  <2>3. /\ stage'[c] = "begin" /\ order'[c] = NewOrder(c, pair[1], pair[2])
        /\ asked' = asked /\ answer' = answer
    BY <1>1, <2>2 DEF Proceed
  <2>4. QuoteOf(c)' = QuoteOf(c)
    BY <1>1, <1>2, <2>1, <2>3, QuotesAgree
  <2>5. OnlyCall(c)
    BY OrderStepAlone DEF OrderStep, Advance
  <2>6. stage'[c] \in InProgress
    BY <2>3 DEF InProgress
  <2> QED
    BY <1>1, <2>3, <2>4, <2>5, <2>6, StutterMaps
<1>3. CASE reply[c].status # OK
  <2>1. Finish(c, reply[c].status, {})
    BY <1>3 DEF LookupReply
  <2>2. Book!Answer(c, reply[c].status, PlainBody({})) /\ PlainBody({}) = {}
    BY <1>1, <2>1, FinishMaps DEF PlainBody
  <2>3. CASE reply[c].status = ServerError
    BY <1>1, <2>2, <2>3, SameBook, SameBookRows DEF Book!Fail
  <2>4. CASE reply[c].status = NotFound
    <3>1. BookQuote[c] = [known |-> "missing"]
      BY <1>1, <2>4 DEF BookQuote, QuoteOf, OK, NotFound
    <3> QED
      BY <1>1, <2>2, <2>4, <3>1, SameBook, SameBookRows DEF Book!Decline
  <2> QED
    BY <1>1, <1>3, <2>3, <2>4
<1> QED
  BY <1>2, <1>3

(* A lookup that is given up, or breaks, declines it.                      *)
LEMMA LookupGivenUpMaps ==
    ASSUME Inv, NEW c \in OrderCalls, LookupTimeout(c) \/ LookupFails(c)
    PROVE  Book!Decline(c)
<1>1. /\ stage[c] = "lookup" /\ UNCHANGED catalogVars /\ SameRows
      /\ asked[c].op = "create" /\ stage[c] \in InProgress
  BY DEF LookupTimeout, LookupFails, SameTable, SameRows, Inv, Calling, Knows, InProgress
<1>2. PICK status \in {GatewayTimeout, Unavailable, BadGateway} : Finish(c, status, {})
  BY DEF LookupTimeout, LookupFails
<1>3. Book!Answer(c, status, PlainBody({})) /\ PlainBody({}) = {}
  BY <1>1, <1>2, FinishMaps DEF PlainBody
<1> QED
  BY <1>1, <1>3, SameBook, SameBookRows DEF Book!Decline

(* The start of the transaction does not show.                             *)
LEMMA StartTransactionMaps ==
    ASSUME Inv, NEW c \in OrderCalls, StartTransaction(c)
    PROVE  UNCHANGED Book!vars
<1>1. /\ stage[c] = "begin" /\ stage'[c] = "insert" /\ asked' = asked /\ answer' = answer
      /\ UNCHANGED catalogVars /\ SameRows
      /\ order \in [OrderCalls -> Order \union {NoOrder}] /\ order[c] \in Order
  BY DEF StartTransaction, Proceed, SameRows, Inv, TypeOK, Calling, Knows
<1>2. PICK tick \in {0, 1} : order' = [order EXCEPT ![c].createdAt = clock + tick]
  BY DEF StartTransaction
<1>3. /\ order'[c].movieId = order[c].movieId
      /\ order'[c].movieTitle = order[c].movieTitle
      /\ order'[c].movieReleaseYear = order[c].movieReleaseYear
      /\ order'[c].ticketPrice = order[c].ticketPrice
  BY <1>1, <1>2 DEF Order
<1>4. QuoteOf(c)' = QuoteOf(c)
  BY <1>1, <1>3 DEF QuoteOf, QuotedOrder
<1>5. OnlyCall(c) /\ stage[c] \in InProgress /\ stage'[c] \in InProgress
  BY <1>1, OrderStepAlone DEF OrderStep, Advance, InProgress
<1> QED
  BY <1>1, <1>4, <1>5, StutterMaps

(* The INSERT places the order that OrderBook makes of the quote.          *)
LEMMA InsertOrderMaps ==
    ASSUME Inv, BookInv, NEW c \in OrderCalls, InsertOrder(c)
    PROVE  Book!Place(c) \/ Book!Fail(c)
<1>1. /\ stage[c] = "insert" /\ UNCHANGED catalogVars /\ stage[c] \in InProgress
      /\ order[c] \in Order /\ order[c].userId = asked[c].userId
      /\ order[c].status = "CONFIRMED" /\ order[c].quantity = asked[c].quantity
      /\ order[c].totalPrice = Cents[order[c].ticketPrice] * asked[c].quantity
      /\ nextOrderId \in Int /\ 1 <= nextOrderId
      /\ orders \in [OrderIds -> Order \union {NoOrder}]
  BY DEF InsertOrder, InProgress, Inv, Calling, Knows, BookInv, Draft, TypeOK
<1>2. CASE Throw(c, "OtherQueryFailure") /\ SameRows
  BY <1>1, <1>2, ThrowMaps
<1>3. CASE /\ nextOrderId <= OrderIdMax
           /\ nextOrderId' = nextOrderId + 1
           /\ orders' = [orders EXCEPT ![nextOrderId] = order[c]]
           /\ Confirm(c, {<<nextOrderId, order[c]>>})
  <2> DEFINE i == nextOrderId
             made == Plain(order[c])
  <2>1. i \in OrderIds /\ i \notin 1..(nextOrderId - 1)
    BY <1>1, <1>3, OrderAssumption DEF OrderIds
  <2>2. (1..(nextOrderId - 1))' = 1..(nextOrderId - 1) \union {i}
    BY <1>1, <1>3
  <2>3. BookQuote[c] = QuotedOrder(c)
    BY <1>1 DEF BookQuote, QuoteOf
  <2>4. Book!OrderOf(c) = made
    BY <1>1, <2>3, PlainOrder DEF Book!OrderOf, QuotedOrder
  <2>5. BookOrders' = [BookOrders EXCEPT ![i] = made]
    BY <1>1, <1>3, <2>1 DEF BookOrders
  <2>6. BookQuote[c].known = "movie"
    BY <2>3 DEF QuotedOrder
  <2>7. PlainBody({<<i, order[c]>>}) = {<<i, made>>} /\ PlainBody({}) = {}
    BY DEF PlainBody
  <2> HIDE DEF i, made
  <2>8. CASE Finish(c, OK, {<<i, order[c]>>})
    <3>1. Book!Answer(c, OK, PlainBody({<<i, order[c]>>}))
      BY <1>1, <2>8, FinishMaps
    <3>2. Book!Answer(c, OK, {<<i, made>>})
      BY <2>7, <3>1
    <3> QED
      BY <2>1, <2>2, <2>4, <2>5, <2>6, <3>2, SameBook DEF Book!Place
  <2>9. CASE Throw(c, "OtherQueryFailure")
    <3>1. Book!Answer(c, ServerError, PlainBody({}))
      BY <1>1, <2>9, FinishMaps, StatusValues DEF Throw
    <3>2. Book!Answer(c, ServerError, {})
      BY <2>7, <3>1
    <3> QED
      BY <2>1, <2>2, <2>4, <2>5, <2>6, <3>2, SameBook DEF Book!Place
  <2> QED
    BY <1>3, <2>8, <2>9 DEF Confirm, i
<1> QED
  BY <1>2, <1>3 DEF InsertOrder, SameRows

-----------------------------------------------------------------------------
(* The other steps of the order service. *)

(* Rows are made plain one by one.                                         *)
LEMMA PlainRows ==
    ASSUME NEW ids
    PROVE  PlainBody({<<i, orders[i]>> : i \in ids}) = {<<i, Plain(orders[i])>> : i \in ids}
<1> DEFINE rows == {<<i, orders[i]>> : i \in ids}
           plain == {<<i, Plain(orders[i])>> : i \in ids}
<1>1. ASSUME NEW p \in rows
      PROVE  <<p[1], Plain(p[2])>> \in plain
  <2>1. PICK i \in ids : p = <<i, orders[i]>>
    OBVIOUS
  <2>2. p[1] = i /\ p[2] = orders[i]
    BY <2>1
  <2> QED
    BY <2>2
<1>2. ASSUME NEW i \in ids
      PROVE  \E p \in rows : <<i, Plain(orders[i])>> = <<p[1], Plain(p[2])>>
  <2> DEFINE p == <<i, orders[i]>>
  <2>1. p \in rows /\ p[1] = i /\ p[2] = orders[i]
    OBVIOUS
  <2> QED
    BY <2>1
<1>3. \A q \in PlainBody(rows) : q \in plain
  BY <1>1 DEF PlainBody
<1>4. \A q \in plain : q \in PlainBody(rows)
  BY <1>2 DEF PlainBody
<1> QED
  BY <1>3, <1>4

(* A list shows the orders of the user.                                    *)
LEMMA FindAllForUserMaps ==
    ASSUME Inv, NEW c \in OrderCalls, FindAllForUser(c)
    PROVE  Book!List(c)
<1> DEFINE user == asked[c].userId
           listed == {<<i, orders[i]>> : i \in {j \in OrderIds : OwnedBy(user, j)}}
           shown == {<<i, BookOrders[i]>> : i \in {j \in OrderIds : Book!Owns(user, j)}}
<1>1. /\ stage[c] \in InProgress /\ asked[c].op = "list"
      /\ UNCHANGED catalogVars /\ SameRows
      /\ Finish(c, OK, listed)
  BY DEF FindAllForUser, InProgress, SameTable, SameRows
<1>2. PlainBody(listed) = shown
  <2>1. {j \in OrderIds : OwnedBy(user, j)} = {j \in OrderIds : Book!Owns(user, j)}
    BY BookRows
  <2>2. PlainBody(listed) =
            {<<i, Plain(orders[i])>> : i \in {j \in OrderIds : OwnedBy(user, j)}}
    BY PlainRows
  <2>3. \A i \in OrderIds : BookOrders[i] = Plain(orders[i])
    BY BookRows
  <2>4. shown =
            {<<i, Plain(orders[i])>> : i \in {j \in OrderIds : Book!Owns(user, j)}}
    BY <2>3
  <2> HIDE DEF listed, shown
  <2> QED
    BY <2>1, <2>2, <2>4
<1> HIDE DEF listed
<1>3. Book!Answer(c, OK, PlainBody(listed))
  BY <1>1, FinishMaps
<1>4. Book!Answer(c, OK, shown)
  BY <1>2, <1>3
<1> QED
  BY <1>1, <1>4, SameBook, SameBookRows DEF Book!List

(* An order that is not the caller's is missing.                           *)
LEMMA MissingOrderMaps ==
    ASSUME Inv, NEW c \in OrderCalls, MissingOrder(c)
    PROVE  Book!Missing(c) \/ Book!Fail(c)
<1>1. /\ stage[c] \in InProgress /\ asked[c].op \in {"find", "cancel"}
      /\ UNCHANGED catalogVars /\ SameRows
  BY DEF MissingOrder, InProgress, SameTable, SameRows
<1>2. CASE Throw(c, "OtherQueryFailure")
  BY <1>1, <1>2, ThrowMaps
<1>3. CASE /\ asked[c].orderId \in OrderIds
           /\ ~OwnedBy(asked[c].userId, asked[c].orderId)
           /\ Throw(c, "NotFoundException")
  <2>1. Finish(c, NotFound, {})
    BY <1>3, StatusValues DEF Throw
  <2>2. Book!Answer(c, NotFound, PlainBody({})) /\ PlainBody({}) = {}
    BY <1>1, <2>1, FinishMaps DEF PlainBody
  <2>3. ~Book!Owns(asked[c].userId, asked[c].orderId)
    BY <1>3, BookRows
  <2> QED
    BY <1>1, <2>2, <2>3, SameBook, SameBookRows DEF Book!Missing
<1> QED
  BY <1>2, <1>3 DEF MissingOrder

(* The caller's own is found.                                              *)
LEMMA FindOneForUserMaps ==
    ASSUME Inv, NEW c \in OrderCalls, FindOneForUser(c)
    PROVE  Book!Find(c)
<1> DEFINE i == asked[c].orderId
<1>1. /\ stage[c] \in InProgress /\ asked[c].op = "find"
      /\ UNCHANGED catalogVars /\ SameRows
      /\ OwnedBy(asked[c].userId, i) /\ i \in OrderIds
      /\ Finish(c, OK, {<<i, orders[i]>>})
  BY DEF FindOneForUser, InProgress, SameTable, SameRows, OwnedBy
<1>2. Book!Owns(asked[c].userId, i) /\ BookOrders[i] = Plain(orders[i])
  BY <1>1, BookRows
<1>3. PlainBody({<<i, orders[i]>>}) = {<<i, BookOrders[i]>>}
  BY <1>2 DEF PlainBody
<1>4. Book!Answer(c, OK, PlainBody({<<i, orders[i]>>}))
  BY <1>1, FinishMaps
<1>5. Book!Answer(c, OK, {<<i, BookOrders[i]>>})
  BY <1>3, <1>4
<1> QED
  BY <1>1, <1>2, <1>5, SameBook, SameBookRows DEF Book!Find

(* A cancel is repeated, or does not show yet.                             *)
LEMMA CancelReadMaps ==
    ASSUME Inv, NEW c \in OrderCalls, CancelRead(c)
    PROVE  Book!Repeated(c) \/ UNCHANGED Book!vars
<1> DEFINE i == asked[c].orderId
<1>1. /\ stage[c] = "received" /\ stage[c] \in InProgress /\ asked[c].op = "cancel"
      /\ UNCHANGED catalogVars /\ SameRows
      /\ OwnedBy(asked[c].userId, i) /\ i \in OrderIds /\ orders[i] # NoOrder
      /\ stage \in [OrderCalls -> Stages]
  BY DEF CancelRead, InProgress, SameTable, SameRows, OwnedBy, Inv, TypeOK
<1>2. CASE orders[i].status = "CANCELLED" /\ Throw(c, "ConflictException")
  <2>1. Finish(c, Conflict, {})
    BY <1>2, StatusValues DEF Throw
  <2>2. Book!Answer(c, Conflict, PlainBody({})) /\ PlainBody({}) = {}
    BY <1>1, <2>1, FinishMaps DEF PlainBody
  <2>3. Book!Owns(asked[c].userId, i) /\ BookOrders[i].status = "CANCELLED"
    BY <1>1, <1>2, BookRows, PlainCancelled
  <2> QED
    BY <1>1, <2>2, <2>3, SameBook, SameBookRows DEF Book!Repeated
<1>3. CASE Proceed(c, "load")
  <2>1. stage'[c] = "load" /\ asked' = asked /\ answer' = answer
    BY <1>1, <1>3 DEF Proceed
  <2>2. QuoteOf(c)' = QuoteOf(c)
    BY <1>1, <2>1 DEF QuoteOf
  <2>3. OnlyCall(c) /\ stage'[c] \in InProgress
    BY <2>1, OrderStepAlone DEF OrderStep, Advance, InProgress
  <2> QED
    BY <1>1, <2>1, <2>2, <2>3, StutterMaps
<1> QED
  BY <1>2, <1>3 DEF CancelRead

(* What save() is about to write is the order, cancelled.                  *)
LEMMA CancelKnows ==
    ASSUME Inv, BookInv, NEW c \in OrderCalls, stage[c] \in {"load", "write"}
    PROVE  LET i == asked[c].orderId IN
           /\ stage[c] \in InProgress /\ asked[c].op = "cancel" /\ i \in OrderIds
           /\ orders[i] \in Order /\ Book!Owns(asked[c].userId, i)
           /\ order[c] = [orders[i] EXCEPT !.status = "CANCELLED"]
           /\ order[c].status = "CANCELLED"
           /\ Plain(order[c]) = [BookOrders[i] EXCEPT !.status = "CANCELLED"]
<1> DEFINE i == asked[c].orderId
<1>1. /\ asked[c].op = "cancel" /\ OwnedBy(asked[c].userId, i)
      /\ order[c] = [orders[i] EXCEPT !.status = "CANCELLED"]
      /\ order[c].status = "CANCELLED"
  BY DEF Inv, Calling, Knows, BookInv, Draft
<1>2. i \in OrderIds /\ orders[i] \in Order /\ BookOrders[i] = Plain(orders[i])
      /\ Book!Owns(asked[c].userId, i)
  BY <1>1, BookRows DEF OwnedBy
<1>3. Plain(order[c]) = [BookOrders[i] EXCEPT !.status = "CANCELLED"]
  BY <1>1, <1>2, PlainCancelled
<1> QED
  BY <1>1, <1>2, <1>3 DEF InProgress

(* A cancel whose order another has cancelled meanwhile has no more to do. *)
LEMMA CancelLoadMaps ==
    ASSUME Inv, BookInv, NEW c \in OrderCalls, CancelLoad(c)
    PROVE  Book!Cancel(c) \/ UNCHANGED Book!vars
<1> DEFINE i == asked[c].orderId
           cancelled == [BookOrders[i] EXCEPT !.status = "CANCELLED"]
<1>1. /\ stage[c] = "load" /\ UNCHANGED catalogVars /\ SameRows
      /\ stage \in [OrderCalls -> Stages]
      /\ orders \in [OrderIds -> Order \union {NoOrder}]
  BY DEF CancelLoad, SameTable, SameRows, Inv, TypeOK
<1>2. /\ stage[c] \in InProgress /\ asked[c].op = "cancel" /\ i \in OrderIds
      /\ orders[i] \in Order /\ Book!Owns(asked[c].userId, i)
      /\ order[c] = [orders[i] EXCEPT !.status = "CANCELLED"]
      /\ order[c].status = "CANCELLED" /\ Plain(order[c]) = cancelled
  BY <1>1, CancelKnows
<1>3. CASE orders[i].status = order[c].status /\ Finish(c, OK, {<<i, order[c]>>})
  <2>1. order[c] = orders[i]
    BY <1>2, <1>3 DEF Order
  <2>2. BookOrders[i] = cancelled
    BY <1>2, <2>1, BookRows
  <2>3. BookOrders' = [BookOrders EXCEPT ![i] = cancelled]
        /\ (1..(nextOrderId - 1))' = 1..(nextOrderId - 1)
    <3>1. BookOrders' = BookOrders /\ (1..(nextOrderId - 1))' = 1..(nextOrderId - 1)
      BY <1>1, SameBookRows
    <3>2. BookOrders = [BookOrders EXCEPT ![i] = BookOrders[i]]
      BY DEF BookOrders
    <3> HIDE DEF cancelled
    <3> QED
      BY <2>2, <3>1, <3>2
  <2>4. PlainBody({<<i, order[c]>>}) = {<<i, cancelled>>}
    BY <1>2 DEF PlainBody
  <2>5. Book!Answer(c, OK, PlainBody({<<i, order[c]>>}))
    BY <1>1, <1>2, <1>3, FinishMaps
  <2>6. Book!Answer(c, OK, {<<i, cancelled>>})
    BY <2>4, <2>5
  <2> QED
    BY <1>2, <2>3, <2>6, SameBook DEF Book!Cancel
<1>4. CASE Proceed(c, "write")
  <2>1. stage'[c] = "write" /\ asked' = asked /\ answer' = answer
    BY <1>1, <1>4 DEF Proceed
  <2>2. QuoteOf(c)' = QuoteOf(c)
    BY <1>1, <2>1 DEF QuoteOf
  <2>3. OnlyCall(c) /\ stage'[c] \in InProgress
    BY <2>1, OrderStepAlone DEF OrderStep, Advance, InProgress
  <2> QED
    BY <1>1, <1>2, <2>1, <2>2, <2>3, StutterMaps
<1> QED
  BY <1>3, <1>4 DEF CancelLoad

(* The UPDATE cancels the order.                                           *)
LEMMA CancelWriteMaps ==
    ASSUME Inv, BookInv, NEW c \in OrderCalls, CancelWrite(c)
    PROVE  Book!Cancel(c)
<1> DEFINE i == asked[c].orderId
           cancelled == [BookOrders[i] EXCEPT !.status = "CANCELLED"]
<1>1. /\ stage[c] = "write" /\ UNCHANGED catalogVars /\ nextOrderId' = nextOrderId
      /\ orders' = [orders EXCEPT ![i].status = order[c].status]
      /\ Confirm(c, {<<i, order[c]>>})
      /\ orders \in [OrderIds -> Order \union {NoOrder}]
  BY DEF CancelWrite, Inv, TypeOK
<1>2. /\ stage[c] \in InProgress /\ asked[c].op = "cancel" /\ i \in OrderIds
      /\ orders[i] \in Order /\ Book!Owns(asked[c].userId, i)
      /\ order[c] = [orders[i] EXCEPT !.status = "CANCELLED"]
      /\ order[c].status = "CANCELLED" /\ Plain(order[c]) = cancelled
  BY <1>1, CancelKnows
<1>3. BookOrders' = [BookOrders EXCEPT ![i] = cancelled]
  <2>1. orders' = [orders EXCEPT ![i] = order[c]]
    BY <1>1, <1>2
  <2> QED
    BY <1>1, <1>2, <2>1 DEF BookOrders
<1>4. PlainBody({<<i, order[c]>>}) = {<<i, cancelled>>} /\ PlainBody({}) = {}
  BY <1>2 DEF PlainBody
<1>5. Book!Answer(c, OK, {<<i, cancelled>>}) \/ Book!Answer(c, ServerError, {})
  <2>1. CASE Finish(c, OK, {<<i, order[c]>>})
    <3>1. Book!Answer(c, OK, PlainBody({<<i, order[c]>>}))
      BY <1>1, <1>2, <2>1, FinishMaps
    <3> QED
      BY <1>4, <3>1
  <2>2. CASE Throw(c, "OtherQueryFailure")
    <3>1. Book!Answer(c, ServerError, PlainBody({}))
      BY <1>1, <1>2, <2>2, FinishMaps, StatusValues DEF Throw
    <3> QED
      BY <1>4, <3>1
  <2> QED
    BY <1>1, <2>1, <2>2 DEF Confirm
<1> QED
  BY <1>1, <1>2, <1>3, <1>5, SameBook DEF Book!Cancel

(* A query that fails fails the call.                                      *)
LEMMA QueryFailsMaps ==
    ASSUME Inv, NEW c \in OrderCalls, QueryFails(c)
    PROVE  Book!Fail(c)
  BY ThrowMaps DEF QueryFails, SameTable, SameRows, InProgress

(* The first step of a create does not show.                               *)
LEMMA LookupMaps ==
    ASSUME Inv, BookInv, NEW c \in OrderCalls, Lookup(c)
    PROVE  UNCHANGED Book!vars
<1>1. /\ stage[c] = "received" /\ stage'[c] = "lookup" /\ asked' = asked /\ answer' = answer
      /\ UNCHANGED catalogVars /\ SameRows
  BY DEF Lookup, Proceed, SameTable, SameRows, Inv, TypeOK
<1>2. reply'[c].status = 0
  BY <1>1 DEF BookInv, Asking, Found, catalogVars
<1>3. QuoteOf(c)' = QuoteOf(c)
  BY <1>1, <1>2 DEF QuoteOf, OK, NotFound
<1>4. OnlyCall(c) /\ stage[c] \in InProgress /\ stage'[c] \in InProgress
  BY <1>1, OrderStepAlone DEF OrderStep, Advance, InProgress
<1> QED
  BY <1>1, <1>3, <1>4, StutterMaps

(* A crash loses the calls in progress.                                    *)
LEMMA CrashMaps == ASSUME Inv, Crash PROVE Book!Lose
<1>1. /\ \A c \in OrderCalls :
            stage'[c] = IF stage[c] \in InProgress THEN "lost" ELSE stage[c]
      /\ UNCHANGED catalogVars /\ SameRows /\ asked' = asked /\ answer' = answer
      /\ stage \in [OrderCalls -> Stages]
  BY DEF Crash, SameTable, SameRows, Inv, TypeOK
<1>2. BookState' =
          [c \in OrderCalls |-> IF BookState[c] = "pending" THEN "lost" ELSE BookState[c]]
  BY <1>1 DEF BookState, StateOf, InProgress, Stages, Ended
<1>3. BookAnswer' = BookAnswer
  BY <1>1 DEF BookAnswer, AnswerOf
<1>4. BookQuote' = [c \in OrderCalls |-> Book!NoQuote]
  <2>1. \A c \in OrderCalls : QuoteOf(c)' = [known |-> "nothing"]
    BY <1>1 DEF QuoteOf, InProgress
  <2> QED
    BY <2>1, SameBook DEF BookQuote
<1> QED
  BY <1>1, <1>2, <1>3, <1>4, SameBookRows DEF Book!Lose, catalogVars

-----------------------------------------------------------------------------
(* The steps of the catalog. *)

(* What does not touch a lookup does not show.                             *)
LEMMA CatalogMaps ==
    ASSUME UNCHANGED orderVars, \A c \in OrderCalls : QuoteOf(c)' = QuoteOf(c)
    PROVE  Book!CatalogChanges
<1>1. BookState' = BookState /\ BookAnswer' = BookAnswer /\ BookOrders' = BookOrders
  BY DEF BookState, StateOf, BookAnswer, AnswerOf, BookOrders, orderVars
<1>2. BookQuote' = BookQuote
  BY DEF BookQuote
<1> QED
  BY <1>1, <1>2 DEF Book!CatalogChanges, Book!bookVars, orderVars

(* The quote of a create depends on nothing else of the catalog.           *)
LEMMA QuoteStands ==
    ASSUME UNCHANGED orderVars, NEW c \in OrderCalls, reply'[c] = reply[c]
    PROVE  QuoteOf(c)' = QuoteOf(c)
  BY DEF QuoteOf, QuotedMovie, QuotedOrder, orderVars

(* The end of a lookup is the instant at which the movie is quoted.        *)
LEMMA LookupServedMaps ==
    ASSUME Inv, BookInv, NEW c \in OrderCalls, Cat!Step(c), pc[c] # "idle",
           UNCHANGED orderVars
    PROVE  Book!LookUp(c) \/ Book!CatalogChanges
<1> DEFINE i == asked[c].movieId
<1>1. /\ pc[c] # "done" /\ movies' = movies
      /\ reply'[c].status \in {OK, NotFound, ServerError}
      /\ reply'[c].status = OK =>
            /\ i \in MovieIds /\ movies[i] # NoRow
            /\ reply'[c].body = {<<i, movies[i]>>}
      /\ reply'[c].status = NotFound => i \in MovieIds /\ movies[i] = NoRow
      /\ asked[c].op = "create" /\ reply[c].status = 0
  BY LookupServed DEF Inv, BookInv, Asking, Found
<1>2. \A d \in OrderCalls \ {c} : reply'[d] = reply[d]
  BY CatalogOthers, OrderAssumption DEF Inv
<1>3. \A d \in OrderCalls \ {c} : QuoteOf(d)' = QuoteOf(d)
  BY <1>2, QuoteStands
<1>4. OK # NotFound /\ OK # ServerError /\ NotFound # ServerError /\ OK # 0 /\ NotFound # 0
  BY DEF OK, NotFound, ServerError
<1>5. stage' = stage /\ order' = order /\ asked' = asked /\ answer' = answer
      /\ orders' = orders /\ nextOrderId' = nextOrderId
  BY DEF orderVars
<1>6. CASE stage[c] # "lookup" \/ reply'[c].status = ServerError
  <2>1. QuoteOf(c)' = QuoteOf(c)
    BY <1>1, <1>4, <1>5, <1>6 DEF QuoteOf, QuotedOrder
  <2> QED
    BY <1>3, <2>1, CatalogMaps
<1>7. CASE stage[c] = "lookup" /\ reply'[c].status \in {OK, NotFound}
  <2> DEFINE quoted == IF i \in MovieIds /\ movies[i] # NoRow
                       THEN Book!Quote(i, movies[i]) ELSE Book!NoSuchMovie
  <2>1. QuoteOf(c) = [known |-> "nothing"]
    BY <1>1, <1>4, <1>7 DEF QuoteOf
  <2>2. QuoteOf(c)' = quoted
    <3>1. CASE reply'[c].status = OK
      <4> DEFINE chosen == CHOOSE p \in reply'[c].body : TRUE
                 pair == <<i, movies[i]>>
      <4>0. reply'[c].body = {pair} /\ pair[1] = i /\ pair[2] = movies[i]
        BY <1>1, <3>1
      <4> HIDE DEF pair
      <4>1. chosen = pair
        BY <4>0
      <4> HIDE DEF chosen
      <4>3. QuoteOf(c)' = QuotedMovie(c)'
        BY <1>4, <1>5, <1>7, <3>1 DEF QuoteOf
      <4>4. QuotedMovie(c)' = Book!Quote(i, movies[i])
        BY <4>0, <4>1 DEF QuotedMovie, Book!Quote, chosen
      <4> QED
        BY <1>1, <3>1, <4>3, <4>4
    <3>2. CASE reply'[c].status = NotFound
      <4>1. QuoteOf(c)' = [known |-> "missing"]
        BY <1>4, <1>5, <1>7, <3>2 DEF QuoteOf
      <4> QED
        BY <1>1, <3>2, <4>1, SameBook
    <3> QED
      BY <1>7, <3>1, <3>2
  <2>3. BookQuote' = [BookQuote EXCEPT ![c] = quoted]
    <3> HIDE DEF quoted
    <3> QED
      BY <1>3, <2>2 DEF BookQuote
  <2>4. BookQuote[c] = Book!NoQuote /\ BookState[c] = "pending"
    BY <1>7, <2>1, SameBook DEF BookQuote, BookState, StateOf, InProgress
  <2>5. BookState' = BookState /\ BookAnswer' = BookAnswer /\ BookOrders' = BookOrders
    BY <1>5 DEF BookState, StateOf, BookAnswer, AnswerOf, BookOrders
  <2> HIDE DEF quoted
  <2>6. quoted = IF i \in Book!MovieIds /\ movies[i] # NoRow
                 THEN Book!Quote(i, movies[i]) ELSE Book!NoSuchMovie
    BY SameBook DEF quoted
  <2> QED
    BY <1>1, <1>5, <2>3, <2>4, <2>5, <2>6 DEF Book!LookUp
<1> QED
  BY <1>1, <1>6, <1>7

(* A lookup that is taken does not show yet.                               *)
LEMMA CatalogReceivesMaps ==
    ASSUME Inv, NEW c \in OrderCalls, CatalogReceives(c)
    PROVE  Book!CatalogChanges
<1>1. reply'[c] = reply[c] /\ Cat!Step(c) /\ UNCHANGED orderVars /\ c \in Calls
  BY LookupTaken
<1>2. \A d \in OrderCalls \ {c} : reply'[d] = reply[d]
  BY <1>1, CatalogOthers, OrderAssumption DEF Inv
<1>3. \A d \in OrderCalls : QuoteOf(d)' = QuoteOf(d)
  BY <1>1, <1>2, QuoteStands
<1> QED
  BY <1>1, <1>3, CatalogMaps

(* Of the catalog's own steps only the end of a lookup shows.              *)
LEMMA CatalogStepMaps ==
    ASSUME Inv, BookInv, CatalogStep
    PROVE  (\E c \in OrderCalls : Book!LookUp(c)) \/ Book!CatalogChanges
<1>1. UNCHANGED orderVars
  BY DEF CatalogStep
<1>2. ASSUME NEW c \in Calls, c \notin OrderCalls, Cat!Step(c)
      PROVE  Book!CatalogChanges
  <2>1. \A d \in OrderCalls : reply'[d] = reply[d]
    BY <1>2, CatalogOthers, OrderAssumption DEF Inv
  <2> QED
    BY <1>1, <2>1, QuoteStands, CatalogMaps
<1>3. ASSUME NEW c \in OrderCalls, pc[c] # "idle", Cat!Step(c)
      PROVE  Book!LookUp(c) \/ Book!CatalogChanges
  BY <1>1, <1>3, LookupServedMaps
<1>4. CASE Cat!Crash
  <2>1. \A d \in OrderCalls : reply'[d] = reply[d]
    BY <1>4 DEF Cat!Crash
  <2> QED
    BY <1>1, <2>1, QuoteStands, CatalogMaps
<1> QED
  BY <1>2, <1>3, <1>4 DEF CatalogStep

-----------------------------------------------------------------------------
(* The start of Orders is the start of OrderBook.                          *)
LEMMA InitMaps == ASSUME Init PROVE Book!Init
<1>1. BookOrders = [i \in OrderIds |-> NoOrder]
  BY DEF Init, BookOrders, Plain
<1>2. 1..(nextOrderId - 1) = {}
  BY DEF Init
<1>3. BookState = [c \in OrderCalls |-> "idle"]
  BY DEF Init, BookState, StateOf, InProgress
<1>4. BookAnswer = [c \in OrderCalls |-> [status |-> 0, body |-> {}]]
  <2>1. PlainBody({}) = {}
    BY DEF PlainBody
  <2>2. \A c \in OrderCalls : answer[c].status = 0 /\ answer[c].body = {}
    BY DEF Init, NoAnswer
  <2> QED
    BY <2>1, <2>2 DEF BookAnswer, AnswerOf
<1>5. BookQuote = [c \in OrderCalls |-> Book!NoQuote]
  BY SameBook DEF Init, BookQuote, QuoteOf
<1>6. asked = [c \in OrderCalls |-> Book!NoRequest]
  BY SameBook DEF Init
<1> QED
  BY <1>1, <1>2, <1>3, <1>4, <1>5, <1>6 DEF Book!Init

(* Every step of Orders is a step of OrderBook, or none.                   *)
LEMMA NextMaps == ASSUME Inv, BookInv, [Next]_vars PROVE [Book!Next]_(Book!vars)
<1>1. ASSUME NEW c \in OrderCalls, OrderStep(c)
      PROVE  Book!Step(c) \/ UNCHANGED Book!vars
  <2>1. CASE Receive(c)
    BY <2>1, ReceiveMaps DEF Book!Step
  <2>2. CASE Lookup(c)
    BY <2>2, LookupMaps
  <2>3. CASE LookupReply(c)
    BY <2>3, LookupReplyMaps DEF Book!Step
  <2>4. CASE LookupTimeout(c) \/ LookupFails(c)
    BY <2>4, LookupGivenUpMaps DEF Book!Step
  <2>5. CASE StartTransaction(c)
    BY <2>5, StartTransactionMaps
  <2>6. CASE InsertOrder(c)
    BY <2>6, InsertOrderMaps DEF Book!Step
  <2>7. CASE FindAllForUser(c)
    BY <2>7, FindAllForUserMaps DEF Book!Step
  <2>8. CASE MissingOrder(c)
    BY <2>8, MissingOrderMaps DEF Book!Step
  <2>9. CASE FindOneForUser(c)
    BY <2>9, FindOneForUserMaps DEF Book!Step
  <2>10. CASE CancelRead(c)
    BY <2>10, CancelReadMaps DEF Book!Step
  <2>11. CASE CancelLoad(c)
    BY <2>11, CancelLoadMaps DEF Book!Step
  <2>12. CASE CancelWrite(c)
    BY <2>12, CancelWriteMaps DEF Book!Step
  <2>13. CASE QueryFails(c)
    BY <2>13, QueryFailsMaps DEF Book!Step
  <2> QED
    BY <1>1, <2>1, <2>2, <2>3, <2>4, <2>5, <2>6, <2>7, <2>8, <2>9, <2>10, <2>11,
       <2>12, <2>13 DEF OrderStep, Advance
<1>2. ASSUME NEW c \in OrderCalls, CatalogReceives(c)
      PROVE  Book!CatalogChanges
  BY <1>2, CatalogReceivesMaps
<1>3. CASE Crash
  BY <1>3, CrashMaps DEF Book!Next
<1>4. CASE CatalogStep
  BY <1>4, CatalogStepMaps DEF Book!Next, Book!Step
<1>5. CASE UNCHANGED vars
  <2>1. UNCHANGED orderVars /\ movies' = movies /\ \A c \in OrderCalls : reply'[c] = reply[c]
    BY <1>5 DEF vars, catalogVars
  <2>2. Book!CatalogChanges
    BY <2>1, QuoteStands, CatalogMaps
  <2> QED
    BY <2>2 DEF Book!Next
<1> QED
  BY <1>1, <1>2, <1>3, <1>4, <1>5 DEF Next, Quiescent, Book!Next

(* Whatever the order service answers, it answers as OrderBook may: a list *)
(* or a find shows the table at one instant, a create makes one order of   *)
(* one look at the catalog or none, a cancel sets one status.              *)
THEOREM ImplementsBook == Spec => ImplementsOrderBook
<1>1. Init => BookInv
  BY BookInvInit
<1>2. Inv /\ BookInv /\ [Next]_vars => BookInv'
  BY BookInvNext
<1>3. Init => Book!Init
  BY InitMaps
<1>4. Inv /\ BookInv /\ [Next]_vars => [Book!Next]_(Book!vars)
  BY NextMaps
<1>5. Spec => [](Inv /\ BookInv)
  BY <1>1, <1>2, AlwaysInv, PTL DEF Spec
<1> QED
  BY <1>3, <1>4, <1>5, PTL DEF Spec, Book!Spec, ImplementsOrderBook
=============================================================================
