---------------------------- MODULE OrdersProofs -----------------------------
(***************************************************************************)
(* Theorems about Orders, for any calls, menus, users and movies.          *)
(*                                                                         *)
(* A row of orders changes in one way only, from CONFIRMED to CANCELLED    *)
(* (Kept), so what a handler has read of a row, or a client has been told  *)
(* of it, stays true but for that.  The rest is what each handler knows at *)
(* each of its stages (Knows), what each answer promises (Promised), and   *)
(* the little of the catalog that an order is built from (CatalogKnows).   *)
(***************************************************************************)
EXTENDS Orders, FiniteSetTheorems, TLAPS

(* The catalog's table, and what its handlers know when they write to it;  *)
(* a lookup is answered with rows of the table.                            *)
Updating == {"check", "load", "write", "reinsert"}
ByCall(f) == f = [c \in Calls |-> f[c]]

CatalogKnows ==
    /\ movies \in [MovieIds -> Row \union {NoRow}]
    /\ ByCall(pc) /\ ByCall(request) /\ ByCall(reply)
    /\ \A c \in Calls :
          /\ pc[c] # "idle" => request[c] \in Menu[c]
          /\ pc[c] = "insert" => request[c].op = "create"
          /\ pc[c] \in Updating => request[c].op = "update" /\ request[c].id \in MovieIds
    /\ \A c \in OrderCalls :
          /\ pc[c] = "done" => reply[c].status \in Statuses
          /\ reply[c].body \subseteq MovieIds \X Row

(* What the handler of call c has in memory, and what holds of the table   *)
(* at each of its queries.                                                 *)
Knows(c) ==
    /\ stage[c] # "idle" => asked[c] \in OrderRequests
    /\ stage[c] \in {"lookup", "begin", "insert"} => asked[c].op = "create"
    /\ stage[c] \in {"begin", "insert"} =>
          /\ order[c] \in Order
          /\ order[c].userId = asked[c].userId /\ order[c].status = "CONFIRMED"
    /\ stage[c] \in {"load", "write"} =>
          /\ asked[c].op = "cancel" /\ OwnedBy(asked[c].userId, asked[c].orderId)
          /\ order[c] \in Order
          /\ order[c].userId = asked[c].userId /\ order[c].status = "CANCELLED"

(* The order of id i has been cancelled as far as the caller of d knows.   *)
MayHaveCancelled(d, i) ==
    /\ asked[d].op = "cancel" /\ asked[d].orderId = i
    /\ Answered(d, "cancel", OK) \/ Answered(d, "cancel", ServerError)

(* What the answer of call c says of the table, at any time after.         *)
Promised(c) ==
    /\ stage[c] # "done" => answer[c] = NoAnswer
    /\ \A pair \in answer[c].body : pair[2].userId = asked[c].userId
    /\ Answered(c, "create", OK) =>
          \E pair \in answer[c].body :
              /\ answer[c].body = {pair}
              /\ pair[1] \in OrderIds /\ pair[2] \in Order
              /\ orders[pair[1]] \in {pair[2], [pair[2] EXCEPT !.status = "CANCELLED"]}
    /\ Answered(c, "cancel", OK) =>
          /\ asked[c].orderId \in OrderIds
          /\ orders[asked[c].orderId] # NoOrder
          /\ orders[asked[c].orderId].status = "CANCELLED"
    /\ Answered(c, "cancel", Conflict) =>
          \E d \in OrderCalls \ {c} : MayHaveCancelled(d, asked[c].orderId)

Calling == \A c \in OrderCalls : Knows(c) /\ Promised(c)

(* No row is cancelled but by a call of its owner that was answered.       *)
CancelledByOwner ==
    \A i \in OrderIds : (orders[i] # NoOrder /\ orders[i].status = "CANCELLED") =>
        \E d \in OrderCalls :
            MayHaveCancelled(d, i) /\ asked[d].userId = orders[i].userId

Made == {c \in OrderCalls : Answered(c, "create", OK)}
Open == {c \in OrderCalls : Answered(c, "create", ServerError)}
MadeIds == UNION {OrderIdsIn(c) : c \in Made}

(* No INSERT fails once it has drawn its id, so the table has no gaps and  *)
(* the sequence counts its rows.                                           *)
Gapless == \A i \in OrderIds : orders[i] # NoOrder <=> i < nextOrderId

Counted ==
    /\ Cardinality(Made) <= nextOrderId - 1
    /\ nextOrderId - 1 <= Cardinality(Made) + Cardinality(Open)
    /\ Cardinality(MadeIds) = Cardinality(Made)

Inv == TypeOK /\ CatalogKnows /\ Calling /\ CancelledByOwner /\ Gapless /\ Counted

-----------------------------------------------------------------------------
(* The data of the two modules is the same. *)
LEMMA SameData ==
    /\ Cat!MovieIds = MovieIds /\ Cat!Row = Row /\ Cat!OK = OK
    /\ Cat!Requests = Requests
    /\ Cat!NoRequest = NoRequest
    /\ \A req : Cat!HasId(req) = HasId(req)
    /\ \A exception : Cat!StatusOf(exception) = StatusOf(exception)
<1>1. Cat!MovieIds = MovieIds /\ Cat!OK = OK /\ Cat!NoRequest = NoRequest
  BY DEF Cat!MovieIds, MovieIds, Cat!OK, OK, Cat!NoRequest, NoRequest
<1>2. Cat!Columns = Columns /\ Cat!Nullable = Nullable
  BY DEF Cat!Columns, Columns, Cat!Nullable, Nullable
<1>3. Cat!Movie = Movie
  BY <1>2 DEF Cat!Movie, Movie
<1>4. \A movie : Cat!HasNoNull(movie) = HasNoNull(movie)
  BY <1>2 DEF Cat!HasNoNull, HasNoNull
<1>5. Cat!Row = Row
  BY <1>3, <1>4 DEF Cat!Row, Row
<1>6. Cat!Changes = Changes
  BY <1>2 DEF Cat!Changes, Changes
<1>7. Cat!Requests = Requests
  BY <1>5, <1>6 DEF Cat!Requests, Requests, Cat!IdRequests, IdRequests,
     Cat!UpdateRequests, UpdateRequests, Cat!CreateRequests, CreateRequests,
     Cat!FindAllRequests, FindAllRequests
<1>8. \A req : Cat!HasId(req) = HasId(req)
  BY DEF Cat!HasId, HasId
<1>9. \A exception : Cat!StatusOf(exception) = StatusOf(exception)
  BY DEF Cat!StatusOf, StatusOf, Cat!HttpStatus, HttpStatus, Cat!BadRequest, BadRequest,
     Cat!Unauthorized, Unauthorized, Cat!NotFound, NotFound, Cat!Conflict, Conflict,
     Cat!ServerError, ServerError
<1> QED
  BY <1>1, <1>5, <1>7, <1>8, <1>9

(* toRpcErrorPayload answers every exception with a status, never with OK. *)
LEMMA StatusValues ==
    /\ \A exception : StatusOf(exception) \in Statuses \ {OK, 0}
    /\ StatusOf("BadRequestException") = BadRequest
    /\ StatusOf("NotFoundException") = NotFound
    /\ StatusOf("ConflictException") = Conflict
    /\ StatusOf("OtherQueryFailure") = ServerError
    /\ {GatewayTimeout, Unavailable, BadGateway} \subseteq Statuses \ {OK, 0}
    /\ OK \in Statuses /\ 0 \notin Statuses
  BY DEF StatusOf, HttpStatus, Statuses, OK, BadRequest, Unauthorized, Forbidden,
     NotFound, Conflict, ServerError, BadGateway, Unavailable, GatewayTimeout

(* The columns of a row hold values, the nullable one apart. *)
LEMMA RowFields ==
    ASSUME NEW movie \in Row
    PROVE  /\ movie.title \in Values
           /\ movie.releaseYear \in Values
           /\ movie.ticketPrice \in Values
<1>1. movie \in [Columns -> Values \union {Null}] /\ HasNoNull(movie)
  BY DEF Row, Movie
<1>2. {"title", "releaseYear", "ticketPrice"} \subseteq Columns \ Nullable
  BY DEF Columns, Nullable
<1> QED
  BY <1>1, <1>2 DEF HasNoNull

(* A lookup is for one movie, and for nothing else. *)
LEMMA LookupMenu ==
    ASSUME NEW c \in OrderCalls, NEW req \in Menu[c]
    PROVE  c \in Calls /\ req \in Requests /\ req.op = "findOne"
  BY OrderAssumption, MenuAssumption

(* A create of a movie carries a row. *)
LEMMA CatalogRequests ==
    ASSUME NEW req \in Requests, req.op = "create"
    PROVE  req.movie \in Row
  BY DEF Requests, IdRequests, UpdateRequests, CreateRequests, FindAllRequests

-----------------------------------------------------------------------------
(* The catalog's steps. *)

(* A step of the catalog for call c that leaves the table typed and the    *)
(* handler of c no surprises keeps what is known of the catalog.           *)
LEMMA CatalogOneCall ==
    ASSUME CatalogKnows, NEW c \in Calls,
           NEW label, NEW req \in Menu[c], NEW answered,
           pc' = [pc EXCEPT ![c] = label],
           request' = [request EXCEPT ![c] = req],
           reply' = [reply EXCEPT ![c] = answered],
           movies' \in [MovieIds -> Row \union {NoRow}],
           label = "insert" => req.op = "create",
           label \in Updating => req.op = "update" /\ req.id \in MovieIds,
           c \in OrderCalls =>
               /\ label = "done" => answered.status \in Statuses
               /\ answered.body \subseteq MovieIds \X Row
    PROVE  CatalogKnows'
<1>1. /\ ByCall(pc)' /\ pc'[c] = label
      /\ ByCall(request)' /\ request'[c] = req
      /\ ByCall(reply)' /\ reply'[c] = answered
  BY DEF CatalogKnows, ByCall
<1>2. \A d \in Calls \ {c} :
          pc'[d] = pc[d] /\ request'[d] = request[d] /\ reply'[d] = reply[d]
  BY DEF CatalogKnows, ByCall
<1>3. ASSUME NEW d \in Calls
      PROVE  /\ pc'[d] # "idle" => request'[d] \in Menu[d]
             /\ pc'[d] = "insert" => request'[d].op = "create"
             /\ pc'[d] \in Updating =>
                   request'[d].op = "update" /\ request'[d].id \in MovieIds
  <2>1. CASE d = c
    BY <1>1, <2>1
  <2>2. CASE d # c
    BY <1>2, <2>2 DEF CatalogKnows
  <2> QED
    BY <2>1, <2>2
<1>4. ASSUME NEW d \in OrderCalls
      PROVE  /\ pc'[d] = "done" => reply'[d].status \in Statuses
             /\ reply'[d].body \subseteq MovieIds \X Row
  <2>1. d \in Calls
    BY OrderAssumption
  <2>2. CASE d = c
    BY <1>1, <2>2
  <2>3. CASE d # c
    BY <1>2, <2>1, <2>3 DEF CatalogKnows
  <2> QED
    BY <2>2, <2>3
<1> QED
  BY <1>1, <1>3, <1>4 DEF CatalogKnows

(* A handler of the catalog that ends, with rows for a lookup, does so.    *)
LEMMA CatalogFinish ==
    ASSUME CatalogKnows, NEW c \in Calls, pc[c] # "idle",
           NEW status \in Statuses, NEW body, Cat!Finish(c, status, body),
           c \in OrderCalls => body \subseteq MovieIds \X Row,
           movies' \in [MovieIds -> Row \union {NoRow}]
    PROVE  CatalogKnows'
<1> DEFINE answered == [status |-> status, body |-> body]
<1>1. /\ pc' = [pc EXCEPT ![c] = "done"]
      /\ request' = request
      /\ reply' = [reply EXCEPT ![c] = answered]
  BY DEF Cat!Finish
<1>2. request' = [request EXCEPT ![c] = request[c]] /\ request[c] \in Menu[c]
  BY <1>1 DEF CatalogKnows, ByCall
<1>3. answered.status = status /\ answered.body = body
  OBVIOUS
<1>4. "done" \notin Updating /\ "done" # "insert"
  BY DEF Updating
<1> HIDE DEF answered
<1> QED
  BY <1>1, <1>2, <1>3, <1>4, CatalogOneCall

(* An exception carries no row. *)
LEMMA CatalogThrow ==
    ASSUME CatalogKnows, NEW c \in Calls, pc[c] # "idle",
           NEW exception, Cat!Throw(c, exception),
           movies' \in [MovieIds -> Row \union {NoRow}]
    PROVE  CatalogKnows'
<1>1. Cat!Finish(c, StatusOf(exception), {})
  BY SameData DEF Cat!Throw
<1>2. StatusOf(exception) \in Statuses
  BY StatusValues
<1> QED
  BY <1>1, <1>2, CatalogFinish

(* A change of the table is never made for a lookup. *)
LEMMA CatalogConfirm ==
    ASSUME CatalogKnows, NEW c \in Calls, pc[c] # "idle",
           NEW body, Cat!Confirm(c, body), c \notin OrderCalls,
           movies' \in [MovieIds -> Row \union {NoRow}]
    PROVE  CatalogKnows'
<1>1. CASE Cat!Finish(c, OK, body)
  BY <1>1, CatalogFinish, StatusValues
<1>2. CASE Cat!Throw(c, "OtherQueryFailure")
  BY <1>2, CatalogThrow
<1> QED
  BY <1>1, <1>2, SameData DEF Cat!Confirm

(* A handler that only goes on to its next query. *)
LEMMA CatalogGoto ==
    ASSUME CatalogKnows, NEW c \in Calls, pc[c] # "idle",
           NEW label, Cat!Goto(c, label), label # "done",
           label = "insert" => request[c].op = "create",
           label \in Updating => request[c].op = "update" /\ request[c].id \in MovieIds,
           UNCHANGED <<movies, request, reply>>
    PROVE  CatalogKnows'
<1> DEFINE req == request[c]
           answered == reply[c]
<1>1. pc' = [pc EXCEPT ![c] = label]
  BY DEF Cat!Goto
<1>2. /\ request' = [request EXCEPT ![c] = req] /\ req \in Menu[c]
      /\ reply' = [reply EXCEPT ![c] = answered]
  BY DEF CatalogKnows, ByCall
<1>3. c \in OrderCalls =>
          /\ label = "done" => answered.status \in Statuses
          /\ answered.body \subseteq MovieIds \X Row
  BY DEF CatalogKnows
<1>4. movies' \in [MovieIds -> Row \union {NoRow}]
  BY DEF CatalogKnows
<1>5. /\ label = "insert" => req.op = "create"
      /\ label \in Updating => req.op = "update" /\ req.id \in MovieIds
  OBVIOUS
<1> HIDE DEF req, answered
<1> QED
  BY <1>1, <1>2, <1>3, <1>4, <1>5, CatalogOneCall

(* Every step of the catalog's handlers keeps it. *)
LEMMA CatalogStepKnows ==
    ASSUME CatalogKnows, NEW c \in Calls, Cat!Step(c)
    PROVE  CatalogKnows'
<1> USE SameData
<1>1. CASE Cat!Receive(c)
  <2>1. PICK req \in Menu[c] :
            /\ request' = [request EXCEPT ![c] = req]
            /\ \/ /\ pc' = [pc EXCEPT ![c] = "done"]
                  /\ reply' = [reply EXCEPT ![c] =
                        [status |-> StatusOf("BadRequestException"), body |-> {}]]
               \/ pc' = [pc EXCEPT ![c] = "received"] /\ reply' = reply
    BY <1>1 DEF Cat!Receive
  <2>2. movies' \in [MovieIds -> Row \union {NoRow}]
    BY <1>1 DEF Cat!Receive, CatalogKnows
  <2>3. "done" \notin Updating \union {"insert"} /\ "received" \notin Updating \union {"insert"}
    BY DEF Updating
  <2>4. CASE /\ pc' = [pc EXCEPT ![c] = "done"]
             /\ reply' = [reply EXCEPT ![c] =
                   [status |-> StatusOf("BadRequestException"), body |-> {}]]
    <3> DEFINE answered == [status |-> StatusOf("BadRequestException"), body |-> {}]
    <3>1. answered.status \in Statuses /\ answered.body = {}
      BY StatusValues
    <3>2. reply' = [reply EXCEPT ![c] = answered]
      BY <2>4
    <3> HIDE DEF answered
    <3> QED
      BY <2>1, <2>2, <2>3, <2>4, <3>1, <3>2, CatalogOneCall
  <2>5. CASE pc' = [pc EXCEPT ![c] = "received"] /\ reply' = reply
    <3>1. reply' = [reply EXCEPT ![c] = reply[c]]
      BY <2>5 DEF CatalogKnows, ByCall
    <3>2. c \in OrderCalls => reply[c].body \subseteq MovieIds \X Row
      BY DEF CatalogKnows
    <3> QED
      BY <2>1, <2>2, <2>3, <2>5, <3>1, <3>2, CatalogOneCall
  <2> QED
    BY <2>1, <2>4, <2>5
<1>2. CASE Cat!MissingMovie(c)
  BY <1>2, CatalogThrow DEF Cat!MissingMovie, CatalogKnows
<1>3. CASE Cat!FindOne(c)
  <2>1. request[c].id \in MovieIds /\ movies[request[c].id] \in Row
    BY <1>3 DEF Cat!FindOne, Cat!FindsItsRow, Cat!RowOf, CatalogKnows
  <2>2. {<<request[c].id, movies[request[c].id]>>} \subseteq MovieIds \X Row
    BY <2>1
  <2>3. movies' \in [MovieIds -> Row \union {NoRow}] /\ pc[c] # "idle"
    BY <1>3 DEF Cat!FindOne, Cat!FindsItsRow, Cat!At, CatalogKnows
  <2>4. Cat!Finish(c, OK, {<<request[c].id, movies[request[c].id]>>})
    BY <1>3 DEF Cat!FindOne, Cat!RowOf
  <2> QED
    BY <2>2, <2>3, <2>4, CatalogFinish, StatusValues
<1>4. ASSUME pc[c] # "idle", request[c].op # "findOne"
      PROVE  c \notin OrderCalls
  BY <1>4, LookupMenu DEF CatalogKnows
<1>5. CASE Cat!FindAll(c)
  <2>1. pc[c] # "idle" /\ c \notin OrderCalls
    BY <1>4, <1>5 DEF Cat!FindAll, Cat!At
  <2>2. PICK body : Cat!Finish(c, OK, body)
    BY <1>5 DEF Cat!FindAll
  <2>3. movies' \in [MovieIds -> Row \union {NoRow}]
    BY <1>5 DEF Cat!FindAll, CatalogKnows
  <2> QED
    BY <2>1, <2>2, <2>3, CatalogFinish, StatusValues
<1>6. CASE Cat!Remove(c)
  <2>1. pc[c] # "idle" /\ c \notin OrderCalls
    BY <1>4, <1>6 DEF Cat!Remove, Cat!FindsItsRow, Cat!At
  <2>2. movies' \in [MovieIds -> Row \union {NoRow}]
    BY <1>6 DEF Cat!Remove, CatalogKnows
  <2> QED
    BY <1>6, <2>1, <2>2, CatalogConfirm DEF Cat!Remove
<1>7. CASE Cat!CreateCheck(c)
  <2>1. /\ pc[c] # "idle" /\ request[c].op = "create"
        /\ movies' = movies /\ movies' \in [MovieIds -> Row \union {NoRow}]
    BY <1>7 DEF Cat!CreateCheck, Cat!At, CatalogKnows
  <2>2. CASE Cat!Throw(c, "ConflictException")
    BY <2>1, <2>2, CatalogThrow
  <2>3. CASE Cat!Goto(c, "insert") /\ UNCHANGED <<request, entity, diff, reply>>
    BY <2>1, <2>3, CatalogGoto DEF Updating
  <2> QED
    BY <1>7, <2>2, <2>3 DEF Cat!CreateCheck
<1>8. CASE Cat!InsertRow(c)
  <2>1. pc[c] # "idle" /\ request[c].op = "create" /\ c \notin OrderCalls
    BY <1>4, <1>8 DEF Cat!InsertRow, CatalogKnows
  <2>2. request[c].movie \in Row
    BY <2>1, MenuAssumption, CatalogRequests DEF CatalogKnows
  <2>3. movies' \in [MovieIds -> Row \union {NoRow}]
    BY <1>8, <2>2 DEF Cat!InsertRow, CatalogKnows
  <2> QED
    BY <1>8, <2>1, <2>3, CatalogThrow, CatalogConfirm DEF Cat!InsertRow
<1>9. CASE Cat!UpdateRead(c)
  <2>1. /\ pc[c] # "idle" /\ request[c].op = "update" /\ request[c].id \in MovieIds
        /\ UNCHANGED <<movies, request, reply>>
    BY <1>9 DEF Cat!UpdateRead, Cat!FindsItsRow, Cat!At
  <2>2. PICK label \in {"load", "check"} : Cat!Goto(c, label)
    BY <1>9 DEF Cat!UpdateRead
  <2> QED
    BY <2>1, <2>2, CatalogGoto
<1>10. ASSUME pc[c] \in Updating
       PROVE  /\ pc[c] # "idle" /\ c \notin OrderCalls
              /\ request[c].op = "update" /\ request[c].id \in MovieIds
  BY <1>4, <1>10 DEF CatalogKnows, Updating
<1>11. CASE Cat!UpdateCheck(c)
  <2>1. /\ pc[c] # "idle" /\ request[c].op = "update" /\ request[c].id \in MovieIds
        /\ movies' = movies /\ movies' \in [MovieIds -> Row \union {NoRow}]
    BY <1>10, <1>11 DEF Cat!UpdateCheck, Updating, CatalogKnows
  <2>2. CASE Cat!Throw(c, "ConflictException")
    BY <2>1, <2>2, CatalogThrow
  <2>3. CASE Cat!Goto(c, "load") /\ UNCHANGED <<request, entity, diff, reply>>
    BY <2>1, <2>3, CatalogGoto
  <2> QED
    BY <1>11, <2>2, <2>3 DEF Cat!UpdateCheck
<1>12. CASE Cat!UpdateLoad(c)
  <2>1. /\ pc[c] # "idle" /\ request[c].op = "update" /\ request[c].id \in MovieIds
        /\ c \notin OrderCalls
        /\ movies' = movies /\ movies' \in [MovieIds -> Row \union {NoRow}]
    BY <1>10, <1>12 DEF Cat!UpdateLoad, Updating, CatalogKnows
  <2>2. CASE Cat!Goto(c, "reinsert") /\ UNCHANGED <<request, entity, diff, reply>>
    BY <2>1, <2>2, CatalogGoto
  <2>3. CASE Cat!Finish(c, OK, {<<request[c].id, Cat!Merged(c)>>})
    BY <2>1, <2>3, CatalogFinish, StatusValues
  <2>4. CASE Cat!Goto(c, "write") /\ UNCHANGED <<request, entity, reply>>
    BY <2>1, <2>4, CatalogGoto
  <2> QED
    BY <1>12, <2>2, <2>3, <2>4 DEF Cat!UpdateLoad
<1>13. CASE Cat!UpdateWrite(c)
  <2>1. /\ pc[c] # "idle" /\ request[c].id \in MovieIds /\ c \notin OrderCalls
    BY <1>10, <1>13 DEF Cat!UpdateWrite, Updating
  <2>2. movies' \in [MovieIds -> Row \union {NoRow}]
    BY <1>13, <2>1 DEF Cat!UpdateWrite, Cat!Storable, CatalogKnows
  <2>3. CASE Cat!Finish(c, OK, {<<request[c].id, Cat!Merged(c)>>})
    BY <2>1, <2>2, <2>3, CatalogFinish, StatusValues
  <2> QED
    BY <1>13, <2>1, <2>2, <2>3, CatalogThrow, CatalogConfirm DEF Cat!UpdateWrite
<1>14. CASE Cat!Reinsert(c)
  <2>1. /\ pc[c] # "idle" /\ request[c].id \in MovieIds /\ c \notin OrderCalls
    BY <1>10, <1>14 DEF Cat!Reinsert, Updating
  <2>2. movies' \in [MovieIds -> Row \union {NoRow}]
    BY <1>14, <2>1 DEF Cat!Reinsert, Cat!Storable, CatalogKnows
  <2> QED
    BY <1>14, <2>1, <2>2, CatalogThrow, CatalogConfirm DEF Cat!Reinsert
<1>15. CASE Cat!QueryFails(c)
  BY <1>15, CatalogThrow DEF Cat!QueryFails, Cat!Waiting, CatalogKnows
<1> QED
  BY <1>1, <1>2, <1>3, <1>5, <1>6, <1>7, <1>8, <1>9, <1>11, <1>12, <1>13, <1>14,
     <1>15 DEF Cat!Step

(* So does a crash of the catalog, which loses no row. *)
LEMMA CatalogCrashKnows ==
    ASSUME CatalogKnows, Cat!Crash
    PROVE  CatalogKnows'
<1>1. /\ ByCall(pc)'
      /\ \A c \in Calls : pc'[c] \in {pc[c], "lost"} /\ (pc[c] = "idle" => pc'[c] = "idle")
      /\ UNCHANGED <<movies, request, reply>>
  BY DEF Cat!Crash, Cat!Migrated, Cat!Waiting, CatalogKnows, ByCall
<1>2. OrderCalls \subseteq Calls /\ "lost" \notin Updating
  BY OrderAssumption DEF Updating
<1> QED
  BY <1>1, <1>2 DEF CatalogKnows, ByCall

-----------------------------------------------------------------------------
(* The data of the order service. *)

(* What a request carries. *)
LEMMA RequestFields ==
    ASSUME NEW req \in OrderRequests
    PROVE  /\ req.op \in {"create", "list", "find", "cancel"}
           /\ req.userId \in Users
           /\ req.op = "create" => req.quantity \in Quantities
  BY DEF OrderRequests

(* An order as create builds it is an Order of the one who asked. *)
LEMMA NewOrderType ==
    ASSUME NEW c \in OrderCalls, asked[c] \in OrderRequests, asked[c].op = "create",
           NEW id \in MovieIds, NEW movie \in Row
    PROVE  /\ NewOrder(c, id, movie) \in Order
           /\ NewOrder(c, id, movie).userId = asked[c].userId
           /\ NewOrder(c, id, movie).status = "CONFIRMED"
<1> DEFINE total == Cents[movie.ticketPrice] * asked[c].quantity
<1>1. asked[c].userId \in Users /\ asked[c].quantity \in Quantities
  BY RequestFields
<1>2. /\ movie.title \in Values /\ movie.releaseYear \in Values
      /\ movie.ticketPrice \in Values
  BY RowFields
<1>3. total \in Nat
  <2>1. Cents[movie.ticketPrice] \in Nat
    BY <1>2, OrderAssumption
  <2> QED
    BY <1>1, <2>1 DEF Quantities
<1>4. NewOrder(c, id, movie) =
        [userId |-> asked[c].userId, movieId |-> id, movieTitle |-> movie.title,
         movieReleaseYear |-> movie.releaseYear, ticketPrice |-> movie.ticketPrice,
         quantity |-> asked[c].quantity, totalPrice |-> total,
         status |-> "CONFIRMED", createdAt |-> 0]
  BY DEF NewOrder, InitialStatus
<1> HIDE DEF total
<1> QED
  BY <1>1, <1>2, <1>3, <1>4 DEF Order

(* Only the status changes with a cancel, and only the time of creation    *)
(* with the start of the transaction.                                      *)
LEMMA OrderUpdates ==
    ASSUME NEW o \in Order
    PROVE  /\ o # NoOrder /\ o.userId \in Users
           /\ [o EXCEPT !.status = "CANCELLED"] \in Order
           /\ [o EXCEPT !.status = "CANCELLED"].userId = o.userId
           /\ [o EXCEPT !.status = "CANCELLED"].status = "CANCELLED"
           /\ \A n \in Nat :
                 /\ [o EXCEPT !.createdAt = n] \in Order
                 /\ [o EXCEPT !.createdAt = n].userId = o.userId
                 /\ [o EXCEPT !.createdAt = n].status = o.status
  BY OrderAssumption DEF Order

-----------------------------------------------------------------------------
(* What a step of one call means for the other calls. *)

Kept ==
    \A i \in OrderIds : orders[i] # NoOrder =>
        orders'[i] \in {orders[i], [orders[i] EXCEPT !.status = "CANCELLED"]}

OnlyCall(c) ==
    /\ stage[c] \notin Ended
    /\ \A d \in OrderCalls \ {c} :
          /\ stage'[d] = stage[d] /\ asked'[d] = asked[d]
          /\ order'[d] = order[d] /\ answer'[d] = answer[d]

DoneStay ==
    \A d \in OrderCalls : stage[d] = "done" =>
        stage'[d] = "done" /\ asked'[d] = asked[d] /\ answer'[d] = answer[d]

(* The answers given stay. *)
LEMMA OnlyCallDone == ASSUME NEW c \in OrderCalls, OnlyCall(c) PROVE DoneStay
  BY DEF OnlyCall, DoneStay, Ended

(* So a call that may have cancelled an order stays one. *)
LEMMA StillCancelled ==
    ASSUME DoneStay, NEW d \in OrderCalls, NEW i, MayHaveCancelled(d, i)
    PROVE  MayHaveCancelled(d, i)' /\ stage[d] = "done" /\ asked'[d] = asked[d]
  BY DEF DoneStay, MayHaveCancelled, Answered

(* A row of the table is never lost, nor handed to another user. *)
LEMMA KeptRows ==
    ASSUME TypeOK, Kept, NEW i \in OrderIds, orders[i] # NoOrder
    PROVE  /\ orders[i] \in Order /\ orders'[i] \in Order /\ orders'[i] # NoOrder
           /\ orders'[i].userId = orders[i].userId
           /\ orders[i].status = "CANCELLED" => orders'[i].status = "CANCELLED"
<1>1. orders[i] \in Order
  BY DEF TypeOK
<1>2. orders'[i] \in {orders[i], [orders[i] EXCEPT !.status = "CANCELLED"]}
  BY DEF Kept
<1> DEFINE cancelled == [orders[i] EXCEPT !.status = "CANCELLED"]
<1>3. /\ cancelled \in Order /\ cancelled # NoOrder /\ orders[i] # NoOrder
      /\ cancelled.userId = orders[i].userId /\ cancelled.status = "CANCELLED"
  BY <1>1, OrderUpdates, OrderAssumption
<1> QED
  BY <1>1, <1>2, <1>3

(* What has been promised of a row stays true of it. *)
LEMMA PromisesStay ==
    ASSUME TypeOK, Kept, DoneStay, NEW d \in OrderCalls, Promised(d),
           stage'[d] = "done" => stage[d] = "done",
           asked'[d] = asked[d], answer'[d] = answer[d]
    PROVE  Promised(d)'
<1>1. CASE stage'[d] # "done"
  <2>1. stage[d] # "done" /\ answer'[d] = NoAnswer
    BY <1>1 DEF Promised, DoneStay
  <2> QED
    BY <1>1, <2>1 DEF Promised, Answered, NoAnswer
<1>2. CASE stage'[d] = "done"
  <2>1. stage[d] = "done" /\ asked'[d] = asked[d]
    BY <1>2
  <2>2. \A op, status : Answered(d, op, status)' <=> Answered(d, op, status)
    BY <1>2, <2>1 DEF Answered
  <2>3. \A pair \in answer'[d].body : pair[2].userId = asked'[d].userId
    BY <2>1 DEF Promised
  <2>4. ASSUME Answered(d, "create", OK)
        PROVE  \E pair \in answer'[d].body :
                   /\ answer'[d].body = {pair}
                   /\ pair[1] \in OrderIds /\ pair[2] \in Order
                   /\ orders'[pair[1]] \in
                         {pair[2], [pair[2] EXCEPT !.status = "CANCELLED"]}
    <3>1. PICK pair \in answer[d].body :
              /\ answer[d].body = {pair}
              /\ pair[1] \in OrderIds /\ pair[2] \in Order
              /\ orders[pair[1]] \in
                    {pair[2], [pair[2] EXCEPT !.status = "CANCELLED"]}
      BY <2>4 DEF Promised
    <3> DEFINE o == pair[2]
               cancelled == [o EXCEPT !.status = "CANCELLED"]
    <3>2. o \in Order /\ cancelled # NoOrder /\ o # NoOrder
      BY <3>1, OrderUpdates, OrderAssumption
    <3>3. [cancelled EXCEPT !.status = "CANCELLED"] = cancelled
      BY <3>2 DEF Order
    <3>4. orders[pair[1]] \in {o, cancelled}
      BY <3>1
    <3>5. orders'[pair[1]] \in
              {orders[pair[1]], [orders[pair[1]] EXCEPT !.status = "CANCELLED"]}
      BY <3>1, <3>2, <3>4 DEF Kept
    <3>6. orders'[pair[1]] \in {o, cancelled}
      BY <3>3, <3>4, <3>5
    <3> QED
      BY <3>1, <3>6
  <2>5. ASSUME Answered(d, "cancel", OK)
        PROVE  /\ asked'[d].orderId \in OrderIds
               /\ orders'[asked'[d].orderId] # NoOrder
               /\ orders'[asked'[d].orderId].status = "CANCELLED"
    BY <2>1, <2>5, KeptRows DEF Promised
  <2>6. ASSUME Answered(d, "cancel", Conflict)
        PROVE  \E e \in OrderCalls \ {d} : (MayHaveCancelled(e, asked[d].orderId))'
    <3>1. PICK e \in OrderCalls \ {d} : MayHaveCancelled(e, asked[d].orderId)
      BY <2>6 DEF Promised
    <3>2. (MayHaveCancelled(e, asked[d].orderId))'
      BY <2>1, <3>1 DEF MayHaveCancelled, Answered, DoneStay
    <3> QED
      BY <3>2
  <2> QED
    BY <1>2, <2>2, <2>3, <2>4, <2>5, <2>6 DEF Promised
<1> QED
  BY <1>1, <1>2

(* A handler that is idle while another call moves knows what it knew. *)
LEMMA KnowledgeStays ==
    ASSUME TypeOK, Kept, NEW d \in OrderCalls, Knows(d),
           stage'[d] = stage[d], asked'[d] = asked[d], order'[d] = order[d]
    PROVE  Knows(d)'
<1>1. OwnedBy(asked[d].userId, asked[d].orderId)
          => (OwnedBy(asked[d].userId, asked[d].orderId))'
  BY KeptRows DEF OwnedBy
<1> QED
  BY <1>1 DEF Knows

(* The other calls, after a step of call c. *)
LEMMA OthersKeep ==
    ASSUME TypeOK, Calling, NEW c \in OrderCalls, OnlyCall(c), Kept,
           Knows(c)', Promised(c)'
    PROVE  Calling'
<1> SUFFICES ASSUME NEW d \in OrderCalls, d # c
             PROVE  Knows(d)' /\ Promised(d)'
  BY DEF Calling
<1>1. /\ stage'[d] = stage[d] /\ asked'[d] = asked[d]
      /\ order'[d] = order[d] /\ answer'[d] = answer[d]
  BY DEF OnlyCall
<1>2. DoneStay /\ Knows(d) /\ Promised(d)
  BY OnlyCallDone DEF Calling
<1>3. Knows(d)'
  BY <1>1, <1>2, KnowledgeStays
<1>4. Promised(d)'
  BY <1>1, <1>2, PromisesStay
<1> QED
  BY <1>3, <1>4

-----------------------------------------------------------------------------
(* Counting. *)

(* No call of an old answer is counted anew. *)
NoneMade == \A d \in OrderCalls : Answered(d, "create", OK)' => stage[d] = "done"

(* What is counted is finite. *)
LEMMA CountedFinite ==
    /\ IsFiniteSet(Made) /\ IsFiniteSet(Open)
    /\ Cardinality(Made) \in Nat /\ Cardinality(Open) \in Nat
<1>1. Made \subseteq OrderCalls /\ Open \subseteq OrderCalls /\ IsFiniteSet(OrderCalls)
  BY OrderAssumption DEF Made, Open
<1> QED
  BY <1>1, FS_Subset, FS_CardinalityType

(* A call that is done counts as it did. *)
LEMMA StillAnswered ==
    ASSUME DoneStay, NEW d \in OrderCalls, stage[d] = "done"
    PROVE  /\ Answered(d, "create", OK)' <=> Answered(d, "create", OK)
           /\ Answered(d, "create", ServerError)' <=> Answered(d, "create", ServerError)
           /\ OrderIdsIn(d)' = OrderIdsIn(d)
  BY DEF DoneStay, Answered, OrderIdsIn

(* When no call is newly answered with an order, what is counted differs   *)
(* at most by calls that were left open.                                   *)
LEMMA NoneMadeKeeps ==
    ASSUME DoneStay, NoneMade
    PROVE  Made' = Made /\ MadeIds' = MadeIds /\ Open \subseteq Open'
<1>1. \A d \in OrderCalls : Answered(d, "create", OK)' <=> Answered(d, "create", OK)
  BY StillAnswered DEF NoneMade, Answered
<1>2. Made' = Made
  BY <1>1 DEF Made
<1>3. \A d \in Made : OrderIdsIn(d)' = OrderIdsIn(d)
  BY StillAnswered DEF Made, Answered
<1>4. MadeIds' = MadeIds
  BY <1>2, <1>3 DEF MadeIds
<1>5. Open \subseteq Open'
  BY StillAnswered DEF Open, Answered
<1> QED
  BY <1>2, <1>4, <1>5

(* So the count stands when the table has no more rows either. *)
LEMMA CountStands ==
    ASSUME TypeOK, Counted, DoneStay, NoneMade, nextOrderId' = nextOrderId
    PROVE  Counted'
<1>1. Made' = Made /\ MadeIds' = MadeIds /\ Open \subseteq Open'
  BY NoneMadeKeeps
<1>2. IsFiniteSet(Open') /\ Cardinality(Open') \in Nat
  <2>1. Open' \subseteq OrderCalls
    BY DEF Open
  <2> QED
    BY <2>1, OrderAssumption, FS_Subset, FS_CardinalityType
<1>3. Cardinality(Open) <= Cardinality(Open')
  BY <1>1, <1>2, FS_Subset
<1>4. nextOrderId \in Int
  BY OrderAssumption DEF TypeOK
<1> QED
  BY <1>1, <1>2, <1>3, <1>4, CountedFinite DEF Counted

(* One more order, by call c, whose answer tells its id or leaves it open. *)
LEMMA CountMoves ==
    ASSUME Inv, NEW c \in OrderCalls, stage[c] # "done",
           OnlyCall(c), asked'[c].op = "create", stage'[c] = "done",
           nextOrderId \in OrderIds, nextOrderId' = nextOrderId + 1,
           \/ answer'[c].status = OK /\ OrderIdsIn(c)' = {nextOrderId}
           \/ answer'[c].status = ServerError
    PROVE  Counted'
<1>1. DoneStay
  BY OnlyCallDone
<1>2. c \notin Made /\ c \notin Open
  BY DEF Made, Open, Answered
<1>3. \A d \in OrderCalls \ {c} :
          /\ Answered(d, "create", OK)' <=> Answered(d, "create", OK)
          /\ Answered(d, "create", ServerError)' <=> Answered(d, "create", ServerError)
          /\ OrderIdsIn(d)' = OrderIdsIn(d)
  BY DEF OnlyCall, Answered, OrderIdsIn
<1>4. nextOrderId \in Int
  BY DEF OrderIds
<1>5. CASE answer'[c].status = OK /\ OrderIdsIn(c)' = {nextOrderId}
  <2>1. Made' = Made \union {c}
    BY <1>3, <1>5 DEF Made, Answered
  <2>2. Open' = Open
    BY <1>2, <1>3, <1>5 DEF Open, Answered, OK, ServerError
  <2>3. MadeIds' = MadeIds \union {nextOrderId}
    <3>1. MadeIds' = UNION {OrderIdsIn(d)' : d \in Made \union {c}}
      BY <2>1 DEF MadeIds
    <3>2. \A d \in Made : OrderIdsIn(d)' = OrderIdsIn(d)
      BY <1>2, <1>3 DEF Made
    <3> QED
      BY <1>5, <3>1, <3>2 DEF MadeIds
  <2>4. MadeIds \subseteq OrderIds /\ nextOrderId \notin MadeIds
    <3> SUFFICES ASSUME NEW i \in MadeIds
                 PROVE  i \in OrderIds /\ i < nextOrderId
      BY <1>4
    <3>1. PICK d \in Made : i \in OrderIdsIn(d)
      BY DEF MadeIds
    <3>2. Promised(d) /\ Answered(d, "create", OK)
      BY <3>1 DEF Made, Inv, Calling
    <3>3. PICK pair \in answer[d].body :
              /\ answer[d].body = {pair}
              /\ pair[1] \in OrderIds /\ pair[2] \in Order
              /\ orders[pair[1]] \in
                    {pair[2], [pair[2] EXCEPT !.status = "CANCELLED"]}
      BY <3>2 DEF Promised
    <3>4. i = pair[1]
      BY <3>1, <3>3 DEF OrderIdsIn
    <3>5. orders[i] # NoOrder
      BY <3>3, <3>4, OrderUpdates, OrderAssumption
    <3> QED
      BY <3>3, <3>4, <3>5 DEF Inv, Gapless
  <2>5. IsFiniteSet(MadeIds)
    <3>1. IsFiniteSet(OrderIds)
      BY OrderAssumption, FS_Interval DEF OrderIds
    <3> QED
      BY <2>4, <3>1, FS_Subset
  <2>6. /\ Cardinality(Made') = Cardinality(Made) + 1
        /\ Cardinality(MadeIds') = Cardinality(MadeIds) + 1
    BY <1>2, <2>1, <2>3, <2>4, <2>5, CountedFinite, FS_AddElement
  <2> QED
    BY <1>4, <2>2, <2>6, CountedFinite DEF Inv, Counted
<1>6. CASE answer'[c].status = ServerError
  <2>1. NoneMade
    BY <1>3, <1>6 DEF NoneMade, Answered, OK, ServerError
  <2>2. Made' = Made /\ MadeIds' = MadeIds
    BY <1>1, <2>1, NoneMadeKeeps
  <2>3. Open' = Open \union {c}
    BY <1>3, <1>6 DEF Open, Answered
  <2>4. Cardinality(Open') = Cardinality(Open) + 1
    BY <1>2, <2>3, CountedFinite, FS_AddElement
  <2> QED
    BY <1>4, <2>2, <2>4, CountedFinite DEF Inv, Counted
<1> QED
  BY <1>5, <1>6

-----------------------------------------------------------------------------
(* Steps that leave the table alone. *)

SameRows == UNCHANGED <<orders, nextOrderId>>

(* The cancelled rows stay those that a call of their owner has cancelled. *)
LEMMA CancellationsStay ==
    ASSUME CancelledByOwner, DoneStay, SameRows
    PROVE  CancelledByOwner'
<1> SUFFICES ASSUME NEW i \in OrderIds, orders[i] # NoOrder, orders[i].status = "CANCELLED"
             PROVE  \E d \in OrderCalls :
                        MayHaveCancelled(d, i)' /\ asked'[d].userId = orders[i].userId
  BY DEF CancelledByOwner, SameRows
<1>1. PICK d \in OrderCalls :
          MayHaveCancelled(d, i) /\ asked[d].userId = orders[i].userId
  BY DEF CancelledByOwner
<1> QED
  BY <1>1, StillCancelled

(* A step of one call after which its own knowledge and promise hold.      *)
LEMMA QuietKeeps ==
    ASSUME Inv, NEW c \in OrderCalls, OnlyCall(c), SameRows, TypeOK', CatalogKnows',
           Knows(c)', Promised(c)', ~(Answered(c, "create", OK))'
    PROVE  Inv'
<1>1. Kept
  BY DEF Kept, SameRows
<1>2. Calling'
  BY <1>1, OthersKeep DEF Inv
<1>3. DoneStay
  BY OnlyCallDone
<1>4. CancelledByOwner'
  BY <1>3, CancellationsStay DEF Inv
<1>5. Gapless'
  BY DEF Inv, Gapless, SameRows
<1>6. NoneMade
  BY DEF NoneMade, OnlyCall, Answered
<1>7. Counted'
  BY <1>3, <1>6, CountStands DEF Inv, SameRows
<1> QED
  BY <1>2, <1>4, <1>5, <1>7 DEF Inv

(* The catalog does not move with the order service. *)
LEMMA CatalogStands == ASSUME CatalogKnows, UNCHANGED catalogVars PROVE CatalogKnows'
  BY DEF CatalogKnows, ByCall, catalogVars

(* A handler ends: its answer is typed and nothing else of it is left.     *)
LEMMA FinishTypes ==
    ASSUME TypeOK, NEW c \in OrderCalls, stage[c] \in InProgress,
           NEW status \in Statuses, NEW body \in SUBSET (OrderIds \X Order),
           Finish(c, status, body)
    PROVE  /\ OnlyCall(c) /\ asked' = asked
           /\ stage'[c] = "done" /\ answer'[c].status = status /\ answer'[c].body = body
           /\ stage' \in [OrderCalls -> Stages]
           /\ asked' \in [OrderCalls -> OrderRequests \union {NoRequest}]
           /\ order' \in [OrderCalls -> Order \union {NoOrder}]
           /\ answer' \in [OrderCalls -> Answers \union {NoAnswer}]
<1>1. [status |-> status, body |-> body] \in Answers
  BY DEF Answers
<1>2. "done" \in Stages /\ stage[c] \notin Ended
  BY DEF Stages, Ended, InProgress
<1> QED
  BY <1>1, <1>2 DEF TypeOK, Finish, OnlyCall

(* A handler that ends without a write, with an answer the table bears out.*)
LEMMA QuietFinish ==
    ASSUME Inv, NEW c \in OrderCalls, stage[c] \in InProgress,
           NEW status \in Statuses, NEW body \in SUBSET (OrderIds \X Order),
           Finish(c, status, body), SameTable, UNCHANGED catalogVars,
           \A pair \in body : pair[2].userId = asked[c].userId,
           status = OK => asked[c].op # "create",
           status = OK /\ asked[c].op = "cancel" =>
               /\ OwnedBy(asked[c].userId, asked[c].orderId)
               /\ orders[asked[c].orderId].status = "CANCELLED",
           status = Conflict /\ asked[c].op = "cancel" =>
               \E d \in OrderCalls \ {c} : MayHaveCancelled(d, asked[c].orderId)
    PROVE  Inv'
<1>1. /\ OnlyCall(c) /\ asked' = asked
      /\ stage'[c] = "done" /\ answer'[c].status = status /\ answer'[c].body = body
      /\ TypeOK'
  BY FinishTypes DEF Inv, TypeOK, SameTable
<1>2. DoneStay /\ SameRows
  BY <1>1, OnlyCallDone DEF SameTable, SameRows
<1>3. Knows(c)'
  BY <1>1 DEF Knows, Inv, Calling, InProgress
<1>4. ASSUME status = Conflict, asked[c].op = "cancel"
      PROVE  \E d \in OrderCalls \ {c} : (MayHaveCancelled(d, asked[c].orderId))'
  <2>1. PICK d \in OrderCalls \ {c} : MayHaveCancelled(d, asked[c].orderId)
    BY <1>4
  <2>2. (MayHaveCancelled(d, asked[c].orderId))'
    BY <1>1, <1>2, <2>1 DEF MayHaveCancelled, Answered, DoneStay
  <2> QED
    BY <2>2
<1>5. ~(Answered(c, "create", OK))'
  BY <1>1 DEF Answered
<1>6. Promised(c)'
  <2>1. Answered(c, "cancel", OK)' =>
            /\ asked'[c].orderId \in OrderIds
            /\ orders'[asked'[c].orderId] # NoOrder
            /\ orders'[asked'[c].orderId].status = "CANCELLED"
    BY <1>1, <1>2 DEF Answered, OwnedBy, SameRows
  <2>2. Answered(c, "cancel", Conflict)' =>
            \E d \in OrderCalls \ {c} : (MayHaveCancelled(d, asked[c].orderId))'
    BY <1>1, <1>4 DEF Answered
  <2>3. \A pair \in answer'[c].body : pair[2].userId = asked'[c].userId
    BY <1>1
  <2> QED
    BY <1>1, <1>5, <2>1, <2>2, <2>3 DEF Promised
<1>7. CatalogKnows'
  BY CatalogStands DEF Inv
<1> QED
  BY <1>1, <1>2, <1>3, <1>5, <1>6, <1>7, QuietKeeps

(* An exception other than the 409 of a cancel promises nothing. *)
LEMMA QuietThrow ==
    ASSUME Inv, NEW c \in OrderCalls, stage[c] \in InProgress,
           NEW exception, Throw(c, exception), SameTable, UNCHANGED catalogVars,
           StatusOf(exception) # Conflict
    PROVE  Inv'
<1>1. StatusOf(exception) \in Statuses \ {OK}
  BY StatusValues
<1>2. Finish(c, StatusOf(exception), {})
  BY DEF Throw
<1> QED
  BY <1>1, <1>2, QuietFinish

(* A handler that goes on to its next query, knowing what it needs there.  *)
LEMMA QuietProceed ==
    ASSUME Inv, NEW c \in OrderCalls, stage[c] \in InProgress,
           NEW next \in InProgress, Proceed(c, next), SameRows, clock' \in Nat,
           UNCHANGED catalogVars,
           order' = [order EXCEPT ![c] = order'[c]],
           order'[c] \in Order \union {NoOrder},
           Knows(c)'
    PROVE  Inv'
<1>1. /\ stage' = [stage EXCEPT ![c] = next] /\ asked' = asked /\ answer' = answer
      /\ stage'[c] = next /\ next \in Stages /\ next # "done"
  BY DEF Proceed, Inv, TypeOK, InProgress, Stages
<1>2. TypeOK'
  BY <1>1 DEF Inv, TypeOK, SameRows
<1>3. OnlyCall(c)
  BY <1>1 DEF OnlyCall, Inv, TypeOK, InProgress, Ended
<1>4. Promised(c)' /\ ~(Answered(c, "create", OK))'
  <2>1. answer[c] = NoAnswer
    BY DEF Inv, Calling, Promised, InProgress
  <2>2. answer'[c] = NoAnswer /\ answer'[c].body = {}
    BY <1>1, <2>1 DEF NoAnswer
  <2> QED
    BY <1>1, <2>2 DEF Promised, Answered
<1>5. CatalogKnows'
  BY CatalogStands DEF Inv
<1> QED
  BY <1>2, <1>3, <1>4, <1>5, QuietKeeps

-----------------------------------------------------------------------------
(* The actions. *)

(* A call arrives. *)
LEMMA ReceiveKeeps == ASSUME Inv, NEW c \in OrderCalls, Receive(c) PROVE Inv'
<1>1. PICK req \in OrderMenu[c] :
          /\ asked' = [asked EXCEPT ![c] = req]
          /\ \/ /\ stage' = [stage EXCEPT ![c] = "done"]
                /\ answer' = [answer EXCEPT ![c] = [status |-> BadRequest, body |-> {}]]
             \/ stage' = [stage EXCEPT ![c] = "received"] /\ answer' = answer
  BY StatusValues DEF Receive
<1>2. /\ stage[c] = "idle" /\ req \in OrderRequests /\ answer[c] = NoAnswer
      /\ order' = order /\ SameTable /\ UNCHANGED catalogVars
  BY <1>1, OrderAssumption DEF Receive, Inv, Calling, Promised
<1>3. /\ stage'[c] \in {"done", "received"} /\ asked'[c] = req
      /\ answer'[c].body = {} /\ answer'[c].status \in {0, BadRequest}
      /\ stage'[c] # "done" => answer'[c] = NoAnswer
  <2> DEFINE refused == [status |-> BadRequest, body |-> {}]
  <2>1. refused.status = BadRequest /\ refused.body = {}
    OBVIOUS
  <2>2. /\ stage \in [OrderCalls -> Stages] /\ asked'[c] = req
        /\ DOMAIN answer = OrderCalls
    BY <1>1 DEF Inv, TypeOK
  <2>3. CASE /\ stage' = [stage EXCEPT ![c] = "done"]
             /\ answer' = [answer EXCEPT ![c] = refused]
    <3>1. stage'[c] = "done" /\ answer'[c] = refused
      BY <2>2, <2>3
    <3> QED
      BY <2>1, <2>2, <3>1
  <2>4. CASE stage' = [stage EXCEPT ![c] = "received"] /\ answer' = answer
    <3>1. stage'[c] = "received" /\ answer'[c] = NoAnswer
      BY <1>2, <2>2, <2>4
    <3> QED
      BY <2>2, <3>1 DEF NoAnswer
  <2> QED
    BY <1>1, <2>3, <2>4
<1>4. TypeOK'
  <2>1. [status |-> BadRequest, body |-> {}] \in Answers
    BY DEF Answers, Statuses
  <2>2. "done" \in Stages /\ "received" \in Stages
    BY DEF Stages, Ended, InProgress
  <2> QED
    BY <1>1, <1>2, <2>1, <2>2 DEF Inv, TypeOK, SameTable
<1>5. OnlyCall(c)
  BY <1>1, <1>2 DEF OnlyCall, Inv, TypeOK, Ended
<1>6. Knows(c)'
  BY <1>2, <1>3 DEF Knows
<1>7. Promised(c)' /\ ~(Answered(c, "create", OK))'
  BY <1>3 DEF Promised, Answered, OK, Conflict, BadRequest
<1>8. SameRows /\ CatalogKnows'
  BY <1>2, CatalogStands DEF SameTable, SameRows, Inv
<1> QED
  BY <1>4, <1>5, <1>6, <1>7, <1>8, QuietKeeps

(* create, as far as the lookup. *)
LEMMA LookupKeeps == ASSUME Inv, NEW c \in OrderCalls, Lookup(c) PROVE Inv'
<1>1. /\ stage[c] = "received" /\ asked[c].op = "create"
      /\ Proceed(c, "lookup") /\ SameRows /\ order' = order /\ clock' = clock
      /\ UNCHANGED catalogVars
  BY DEF Lookup, SameTable, SameRows
<1>2. stage'[c] = "lookup" /\ asked' = asked
  BY <1>1 DEF Proceed, Inv, TypeOK
<1>3. Knows(c)'
  BY <1>1, <1>2 DEF Knows, Inv, Calling
<1>4. order' = [order EXCEPT ![c] = order'[c]] /\ order'[c] \in Order \union {NoOrder}
  BY <1>1 DEF Inv, TypeOK
<1>5. clock' \in Nat /\ stage[c] \in InProgress /\ "lookup" \in InProgress
  BY <1>1 DEF Inv, TypeOK, InProgress
<1> QED
  BY <1>1, <1>3, <1>4, <1>5, QuietProceed

(* The lookup's answer: an order of the movie, or the catalog's refusal.   *)
LEMMA LookupReplyKeeps == ASSUME Inv, NEW c \in OrderCalls, LookupReply(c) PROVE Inv'
<1>1. /\ stage[c] = "lookup" /\ pc[c] = "done" /\ stage[c] \in InProgress
      /\ asked[c] \in OrderRequests /\ asked[c].op = "create"
      /\ SameTable /\ UNCHANGED catalogVars
  BY DEF LookupReply, InProgress, Inv, Calling, Knows
<1>2. reply[c].status \in Statuses /\ reply[c].body \subseteq MovieIds \X Row
  BY <1>1 DEF Inv, CatalogKnows
<1>3. CASE reply[c].status # OK /\ Finish(c, reply[c].status, {})
  BY <1>1, <1>2, <1>3, QuietFinish
<1>4. ASSUME NEW pair \in reply[c].body, Proceed(c, "begin"),
             order' = [order EXCEPT ![c] = NewOrder(c, pair[1], pair[2])]
      PROVE  Inv'
  <2> DEFINE new == NewOrder(c, pair[1], pair[2])
  <2>1. pair[1] \in MovieIds /\ pair[2] \in Row
    BY <1>2
  <2>2. new \in Order /\ new.userId = asked[c].userId /\ new.status = "CONFIRMED"
    BY <1>1, <2>1, NewOrderType
  <2>3. order'[c] = new /\ stage'[c] = "begin" /\ asked' = asked
    BY <1>4 DEF Proceed, Inv, TypeOK
  <2>4. Knows(c)'
    BY <1>1, <2>2, <2>3 DEF Knows
  <2>5. order' = [order EXCEPT ![c] = order'[c]] /\ order'[c] \in Order \union {NoOrder}
    BY <1>4, <2>2, <2>3
  <2>6. clock' \in Nat /\ SameRows /\ "begin" \in InProgress
    BY <1>1 DEF Inv, TypeOK, InProgress, SameTable, SameRows
  <2> QED
    BY <1>1, <1>4, <2>4, <2>5, <2>6, QuietProceed
<1> QED
  BY <1>3, <1>4 DEF LookupReply

(* The lookup that is given up, or cannot be made, leaves no order. *)
LEMMA LookupGivenUpKeeps ==
    ASSUME Inv, NEW c \in OrderCalls, LookupTimeout(c) \/ LookupFails(c)
    PROVE  Inv'
<1>1. PICK status \in {GatewayTimeout, Unavailable, BadGateway} : Finish(c, status, {})
  BY DEF LookupTimeout, LookupFails
<1>2. /\ stage[c] = "lookup" /\ stage[c] \in InProgress /\ asked[c].op = "create"
      /\ SameTable /\ UNCHANGED catalogVars
  BY DEF LookupTimeout, LookupFails, InProgress, Inv, Calling, Knows
<1>3. status \in Statuses \ {OK}
  BY <1>1, StatusValues
<1> QED
  BY <1>1, <1>2, <1>3, QuietFinish

(* save() begins. *)
LEMMA StartTransactionKeeps ==
    ASSUME Inv, NEW c \in OrderCalls, StartTransaction(c)
    PROVE  Inv'
<1>1. PICK tick \in {0, 1} :
          clock' = clock + tick /\ order' = [order EXCEPT ![c].createdAt = clock + tick]
  BY DEF StartTransaction
<1>2. /\ stage[c] = "begin" /\ stage[c] \in InProgress /\ Proceed(c, "insert")
      /\ SameRows /\ UNCHANGED catalogVars /\ "insert" \in InProgress
  BY DEF StartTransaction, InProgress, SameRows
<1>3. /\ asked[c] \in OrderRequests /\ asked[c].op = "create" /\ order[c] \in Order
      /\ order[c].userId = asked[c].userId /\ order[c].status = "CONFIRMED"
  BY <1>2 DEF Inv, Calling, Knows
<1>4. clock + tick \in Nat
  BY DEF Inv, TypeOK
<1> DEFINE begun == [order[c] EXCEPT !.createdAt = clock + tick]
<1>5. begun \in Order /\ begun.userId = order[c].userId /\ begun.status = order[c].status
  BY <1>3, <1>4, OrderUpdates
<1>6. order' = [order EXCEPT ![c] = begun] /\ order'[c] = begun
  BY <1>1 DEF Inv, TypeOK
<1>7. stage'[c] = "insert" /\ asked' = asked
  BY <1>2 DEF Proceed, Inv, TypeOK
<1> HIDE DEF begun
<1>8. Knows(c)'
  BY <1>3, <1>5, <1>6, <1>7 DEF Knows
<1> QED
  BY <1>1, <1>2, <1>4, <1>5, <1>6, <1>8, QuietProceed

(* The INSERT, whose confirmation may be lost. *)
LEMMA InsertOrderKeeps == ASSUME Inv, NEW c \in OrderCalls, InsertOrder(c) PROVE Inv'
<1> DEFINE n == nextOrderId
           o == order[c]
<1>1. /\ stage[c] = "insert" /\ stage[c] \in InProgress
      /\ asked[c] \in OrderRequests /\ asked[c].op = "create"
      /\ o \in Order /\ o.userId = asked[c].userId /\ o.status = "CONFIRMED"
      /\ o # NoOrder /\ clock' = clock /\ UNCHANGED catalogVars
  BY OrderAssumption DEF InsertOrder, InProgress, Inv, Calling, Knows
<1>2. CASE Throw(c, "OtherQueryFailure") /\ UNCHANGED <<orders, nextOrderId>>
  <2>1. StatusOf("OtherQueryFailure") # Conflict
    BY StatusValues DEF ServerError, Conflict
  <2> QED
    BY <1>1, <1>2, <2>1, QuietThrow DEF SameTable
<1>3. CASE /\ n <= OrderIdMax /\ nextOrderId' = n + 1
           /\ orders' = [orders EXCEPT ![n] = o]
           /\ Confirm(c, {<<n, o>>})
  <2>1. n \in OrderIds /\ n \in Int
    BY <1>3, OrderAssumption DEF Inv, TypeOK, OrderIds
  <2>2. PICK status \in {OK, ServerError}, body \in {{}, {<<n, o>>}} :
            Finish(c, status, body) /\ (status = OK => body = {<<n, o>>})
    BY <1>3, StatusValues DEF Confirm, Throw, OK, ServerError
  <2>3. status \in Statuses /\ body \in SUBSET (OrderIds \X Order)
    BY <1>1, <2>1 DEF Statuses
  <2>4. /\ OnlyCall(c) /\ asked' = asked
        /\ stage'[c] = "done" /\ answer'[c].status = status /\ answer'[c].body = body
        /\ stage' \in [OrderCalls -> Stages]
        /\ asked' \in [OrderCalls -> OrderRequests \union {NoRequest}]
        /\ order' \in [OrderCalls -> Order \union {NoOrder}]
        /\ answer' \in [OrderCalls -> Answers \union {NoAnswer}]
    BY <1>1, <2>2, <2>3, FinishTypes DEF Inv
  <2>5. TypeOK'
    <3>1. orders' \in [OrderIds -> Order \union {NoOrder}]
      BY <1>1, <1>3 DEF Inv, TypeOK
    <3>2. nextOrderId' \in 1..(OrderIdMax + 1)
      BY <1>3, <2>1, OrderAssumption DEF OrderIds
    <3> QED
      BY <1>1, <2>4, <3>1, <3>2 DEF Inv, TypeOK
  <2>6. orders[n] = NoOrder
    BY <2>1 DEF Inv, Gapless
  <2>7. orders'[n] = o /\ \A i \in OrderIds \ {n} : orders'[i] = orders[i]
    BY <1>3, <2>1 DEF Inv, TypeOK
  <2>8. Kept
    BY <2>6, <2>7 DEF Kept
  <2>9. Knows(c)'
    BY <1>1, <2>4 DEF Knows
  <2>10. Promised(c)'
    <3>1. \A pair \in answer'[c].body : pair[2].userId = asked'[c].userId
      BY <1>1, <2>4
    <3>2. ASSUME Answered(c, "create", OK)'
          PROVE  \E pair \in answer'[c].body :
                     /\ answer'[c].body = {pair}
                     /\ pair[1] \in OrderIds /\ pair[2] \in Order
                     /\ orders'[pair[1]] \in
                           {pair[2], [pair[2] EXCEPT !.status = "CANCELLED"]}
      <4>1. answer'[c].body = {<<n, o>>}
        BY <2>2, <2>4, <3>2 DEF Answered
      <4> QED
        BY <1>1, <2>1, <2>7, <4>1
    <3>3. ~(Answered(c, "cancel", OK))' /\ ~(Answered(c, "cancel", Conflict))'
      BY <1>1, <2>4 DEF Answered
    <3> QED
      BY <2>4, <3>1, <3>2, <3>3 DEF Promised
  <2>11. Calling'
    BY <2>4, <2>8, <2>9, <2>10, OthersKeep DEF Inv
  <2>12. CancelledByOwner'
    <3> SUFFICES ASSUME NEW i \in OrderIds, orders'[i] # NoOrder,
                        orders'[i].status = "CANCELLED"
                 PROVE  \E d \in OrderCalls :
                            MayHaveCancelled(d, i)' /\ asked'[d].userId = orders'[i].userId
      BY DEF CancelledByOwner
    <3>1. orders'[i] = orders[i]
      BY <1>1, <2>7
    <3>2. PICK d \in OrderCalls :
              MayHaveCancelled(d, i) /\ asked[d].userId = orders[i].userId
      BY <3>1 DEF Inv, CancelledByOwner
    <3> QED
      BY <2>4, <3>1, <3>2, OnlyCallDone, StillCancelled
  <2>13. Gapless'
    <3> SUFFICES ASSUME NEW i \in OrderIds
                 PROVE  orders'[i] # NoOrder <=> i < n + 1
      BY <1>3 DEF Gapless
    <3>1. i \in Int
      BY DEF OrderIds
    <3>2. orders[i] # NoOrder <=> i < n
      BY DEF Inv, Gapless
    <3> QED
      BY <1>1, <2>1, <2>7, <3>1, <3>2
  <2>14. Counted'
    <3>1. body = {<<n, o>>} => OrderIdsIn(c)' = {n}
      BY <2>4 DEF OrderIdsIn
    <3>2. stage[c] # "done"
      BY <1>1
    <3> QED
      BY <1>1, <1>3, <2>1, <2>2, <2>4, <3>1, <3>2, CountMoves
  <2>15. CatalogKnows'
    BY <1>1, CatalogStands DEF Inv
  <2> QED
    BY <2>5, <2>11, <2>12, <2>13, <2>14, <2>15 DEF Inv
<1> QED
  BY <1>2, <1>3 DEF InsertOrder

(* The reads answer with rows of the user's own. *)
LEMMA ReadsKeep ==
    ASSUME Inv, NEW c \in OrderCalls, FindAllForUser(c) \/ FindOneForUser(c)
    PROVE  Inv'
<1> DEFINE own == {<<i, orders[i]>> : i \in {j \in OrderIds : OwnedBy(asked[c].userId, j)}}
<1>1. PICK body \in SUBSET own : Finish(c, OK, body)
  <2>1. OwnedBy(asked[c].userId, asked[c].orderId) => asked[c].orderId \in OrderIds
    BY DEF OwnedBy
  <2> QED
    BY <2>1 DEF FindAllForUser, FindOneForUser
<1>2. /\ stage[c] = "received" /\ stage[c] \in InProgress
      /\ asked[c].op \notin {"create", "cancel"}
      /\ SameTable /\ UNCHANGED catalogVars
  BY DEF FindAllForUser, FindOneForUser, InProgress
<1>3. \A pair \in own : pair \in OrderIds \X Order /\ pair[2].userId = asked[c].userId
  BY DEF OwnedBy, Inv, TypeOK
<1>4. OK \in Statuses /\ OK # Conflict
  BY DEF Statuses, OK, Conflict
<1>5. body \in SUBSET (OrderIds \X Order) /\ \A pair \in body : pair[2].userId = asked[c].userId
  BY <1>3
<1> QED
  BY <1>1, <1>2, <1>4, <1>5, QuietFinish

(* There is no such order of this user. *)
LEMMA MissingOrderKeeps == ASSUME Inv, NEW c \in OrderCalls, MissingOrder(c) PROVE Inv'
<1>1. /\ stage[c] = "received" /\ stage[c] \in InProgress
      /\ SameTable /\ UNCHANGED catalogVars
  BY DEF MissingOrder, InProgress
<1>2. PICK exception \in {"OtherQueryFailure", "NotFoundException"} : Throw(c, exception)
  BY DEF MissingOrder
<1>3. StatusOf(exception) # Conflict
  BY <1>2, StatusValues DEF ServerError, NotFound, Conflict
<1> QED
  BY <1>1, <1>2, <1>3, QuietThrow

(* A query that fails has changed nothing. *)
LEMMA QueryFailsKeeps == ASSUME Inv, NEW c \in OrderCalls, QueryFails(c) PROVE Inv'
<1>1. StatusOf("OtherQueryFailure") # Conflict
  BY StatusValues DEF ServerError, Conflict
<1> QED
  BY <1>1, QuietThrow DEF QueryFails

(* cancel: an order that is cancelled already was cancelled by another call. *)
LEMMA CancelReadKeeps == ASSUME Inv, NEW c \in OrderCalls, CancelRead(c) PROVE Inv'
<1> DEFINE i == asked[c].orderId
           found == orders[i]
           cancelled == [found EXCEPT !.status = "CANCELLED"]
<1>1. /\ stage[c] = "received" /\ stage[c] \in InProgress /\ asked[c].op = "cancel"
      /\ OwnedBy(asked[c].userId, i) /\ SameTable /\ UNCHANGED catalogVars
      /\ asked[c] \in OrderRequests
  BY DEF CancelRead, InProgress, Inv, Calling, Knows
<1>2. i \in OrderIds /\ found \in Order /\ found.userId = asked[c].userId /\ found # NoOrder
  BY <1>1 DEF OwnedBy, Inv, TypeOK
<1>3. CASE found.status = "CANCELLED" /\ Throw(c, "ConflictException")
  <2>1. PICK d \in OrderCalls : MayHaveCancelled(d, i)
    BY <1>2, <1>3 DEF Inv, CancelledByOwner
  <2>2. d # c
    BY <1>1, <2>1 DEF MayHaveCancelled, Answered
  <2>3. Finish(c, Conflict, {}) /\ Conflict \in Statuses /\ Conflict # OK
    BY <1>3, StatusValues DEF Throw, Statuses, Conflict, OK
  <2>4. \E e \in OrderCalls \ {c} : MayHaveCancelled(e, i)
    BY <2>1, <2>2
  <2> QED
    BY <1>1, <2>3, <2>4, QuietFinish
<1>4. CASE order' = [order EXCEPT ![c] = cancelled] /\ Proceed(c, "load")
  <2>1. /\ cancelled \in Order /\ cancelled.userId = found.userId
        /\ cancelled.status = "CANCELLED"
    BY <1>2, OrderUpdates
  <2>2. order'[c] = cancelled /\ stage'[c] = "load" /\ asked' = asked /\ orders' = orders
    BY <1>1, <1>4 DEF Proceed, Inv, TypeOK, SameTable
  <2> HIDE DEF cancelled
  <2>3. Knows(c)'
    <3>1. (OwnedBy(asked[c].userId, asked[c].orderId))'
      BY <1>1, <2>2 DEF OwnedBy
    <3> QED
      BY <1>1, <1>2, <2>1, <2>2, <3>1 DEF Knows
  <2>4. order' = [order EXCEPT ![c] = order'[c]] /\ order'[c] \in Order \union {NoOrder}
    BY <1>4, <2>1, <2>2
  <2>5. clock' \in Nat /\ SameRows /\ "load" \in InProgress
    BY <1>1 DEF Inv, TypeOK, InProgress, SameTable, SameRows
  <2> QED
    BY <1>1, <1>4, <2>3, <2>4, <2>5, QuietProceed
<1> QED
  BY <1>3, <1>4 DEF CancelRead

(* save() reads the row again. *)
LEMMA CancelLoadKeeps == ASSUME Inv, NEW c \in OrderCalls, CancelLoad(c) PROVE Inv'
<1> DEFINE i == asked[c].orderId
<1>1. /\ stage[c] = "load" /\ stage[c] \in InProgress /\ asked[c].op = "cancel"
      /\ OwnedBy(asked[c].userId, i) /\ SameTable /\ UNCHANGED catalogVars
      /\ asked[c] \in OrderRequests /\ order[c] \in Order
      /\ order[c].userId = asked[c].userId /\ order[c].status = "CANCELLED"
  BY DEF CancelLoad, InProgress, Inv, Calling, Knows
<1>2. CASE orders[i].status = order[c].status /\ Finish(c, OK, {<<i, order[c]>>})
  <2>1. {<<i, order[c]>>} \in SUBSET (OrderIds \X Order)
    BY <1>1 DEF OwnedBy
  <2>2. OK \in Statuses /\ OK # Conflict
    BY DEF Statuses, OK, Conflict
  <2>3. orders[i].status = "CANCELLED"
    BY <1>1, <1>2
  <2>4. \A pair \in {<<i, order[c]>>} : pair[2].userId = asked[c].userId
    BY <1>1
  <2> QED
    BY <1>1, <1>2, <2>1, <2>2, <2>3, <2>4, QuietFinish
<1>3. CASE Proceed(c, "write") /\ UNCHANGED order
  <2>1. stage'[c] = "write" /\ asked' = asked /\ orders' = orders
    BY <1>1, <1>3 DEF Proceed, Inv, TypeOK, SameTable
  <2>2. Knows(c)'
    <3>1. (OwnedBy(asked[c].userId, asked[c].orderId))'
      BY <1>1, <2>1 DEF OwnedBy
    <3> QED
      BY <1>1, <1>3, <2>1, <3>1 DEF Knows
  <2>3. order' = [order EXCEPT ![c] = order'[c]] /\ order'[c] \in Order \union {NoOrder}
    BY <1>3 DEF Inv, TypeOK
  <2>4. clock' \in Nat /\ SameRows /\ "write" \in InProgress
    BY <1>1 DEF Inv, TypeOK, InProgress, SameTable, SameRows
  <2> QED
    BY <1>1, <1>3, <2>2, <2>3, <2>4, QuietProceed
<1> QED
  BY <1>2, <1>3 DEF CancelLoad

(* The UPDATE, whose confirmation may be lost. *)
LEMMA CancelWriteKeeps == ASSUME Inv, NEW c \in OrderCalls, CancelWrite(c) PROVE Inv'
<1> DEFINE i == asked[c].orderId
           o == order[c]
           cancelled == [orders[i] EXCEPT !.status = "CANCELLED"]
<1>1. /\ stage[c] = "write" /\ stage[c] \in InProgress
      /\ asked[c] \in OrderRequests /\ asked[c].op = "cancel"
      /\ OwnedBy(asked[c].userId, i) /\ o \in Order
      /\ o.userId = asked[c].userId /\ o.status = "CANCELLED"
      /\ nextOrderId' = nextOrderId /\ clock' = clock /\ UNCHANGED catalogVars
  BY DEF CancelWrite, InProgress, Inv, Calling, Knows
<1>2. /\ i \in OrderIds /\ orders[i] \in Order /\ orders[i] # NoOrder
      /\ orders[i].userId = asked[c].userId
  BY <1>1 DEF OwnedBy, Inv, TypeOK
<1>3. /\ cancelled \in Order /\ cancelled # NoOrder
      /\ cancelled.userId = asked[c].userId /\ cancelled.status = "CANCELLED"
  BY <1>2, OrderUpdates, OrderAssumption
<1>4. orders' = [orders EXCEPT ![i] = cancelled]
  BY <1>1 DEF CancelWrite
<1>5. orders'[i] = cancelled /\ \A j \in OrderIds \ {i} : orders'[j] = orders[j]
  BY <1>2, <1>4 DEF Inv, TypeOK
<1>6. PICK status \in {OK, ServerError}, body \in {{}, {<<i, o>>}} : Finish(c, status, body)
  BY StatusValues DEF CancelWrite, Confirm, Throw
<1>7. status \in Statuses /\ body \in SUBSET (OrderIds \X Order)
  BY <1>1, <1>2 DEF Statuses
<1>8. /\ OnlyCall(c) /\ asked' = asked
      /\ stage'[c] = "done" /\ answer'[c].status = status /\ answer'[c].body = body
      /\ stage' \in [OrderCalls -> Stages]
      /\ asked' \in [OrderCalls -> OrderRequests \union {NoRequest}]
      /\ order' \in [OrderCalls -> Order \union {NoOrder}]
      /\ answer' \in [OrderCalls -> Answers \union {NoAnswer}]
  BY <1>1, <1>6, <1>7, FinishTypes DEF Inv
<1>9. DoneStay
  BY <1>8, OnlyCallDone
<1>10. Kept
  BY <1>5 DEF Kept
<1> HIDE DEF cancelled
<1>11. TypeOK'
  <2>1. orders' \in [OrderIds -> Order \union {NoOrder}]
    BY <1>3, <1>4 DEF Inv, TypeOK
  <2> QED
    BY <1>1, <1>8, <2>1 DEF Inv, TypeOK
<1>12. Knows(c)'
  BY <1>1, <1>8 DEF Knows
<1>13. Promised(c)'
  <2>1. \A pair \in answer'[c].body : pair[2].userId = asked'[c].userId
    BY <1>1, <1>8
  <2>2. ~(Answered(c, "create", OK))' /\ ~(Answered(c, "cancel", Conflict))'
    BY <1>1, <1>6, <1>8 DEF Answered, OK, ServerError, Conflict
  <2>3. /\ asked'[c].orderId \in OrderIds /\ orders'[asked'[c].orderId] # NoOrder
        /\ orders'[asked'[c].orderId].status = "CANCELLED"
    BY <1>2, <1>3, <1>5, <1>8
  <2> QED
    BY <1>8, <2>1, <2>2, <2>3 DEF Promised
<1>14. Calling'
  BY <1>8, <1>10, <1>12, <1>13, OthersKeep DEF Inv
<1>15. CancelledByOwner'
  <2> SUFFICES ASSUME NEW j \in OrderIds, orders'[j] # NoOrder,
                      orders'[j].status = "CANCELLED"
               PROVE  \E d \in OrderCalls :
                          MayHaveCancelled(d, j)' /\ asked'[d].userId = orders'[j].userId
    BY DEF CancelledByOwner
  <2>1. CASE j = i
    <3>1. MayHaveCancelled(c, j)'
      BY <1>1, <1>6, <1>8, <2>1 DEF MayHaveCancelled, Answered
    <3> QED
      BY <1>3, <1>5, <1>8, <2>1, <3>1
  <2>2. CASE j # i
    <3>1. orders'[j] = orders[j]
      BY <1>5, <2>2
    <3>2. PICK d \in OrderCalls :
              MayHaveCancelled(d, j) /\ asked[d].userId = orders[j].userId
      BY <3>1 DEF Inv, CancelledByOwner
    <3> QED
      BY <1>9, <3>1, <3>2, StillCancelled
  <2> QED
    BY <2>1, <2>2
<1>16. Gapless'
  <2> SUFFICES ASSUME NEW j \in OrderIds
               PROVE  orders'[j] # NoOrder <=> j < nextOrderId
    BY <1>1 DEF Gapless
  <2>1. orders[j] # NoOrder <=> j < nextOrderId
    BY DEF Inv, Gapless
  <2> QED
    BY <1>2, <1>3, <1>5, <2>1
<1>17. Counted'
  <2>1. NoneMade
    BY <1>1, <1>8 DEF NoneMade, OnlyCall, Answered
  <2> QED
    BY <1>1, <1>9, <2>1, CountStands DEF Inv
<1>18. CatalogKnows'
  BY <1>1, CatalogStands DEF Inv
<1> QED
  BY <1>11, <1>14, <1>15, <1>16, <1>17, <1>18 DEF Inv

(* A crash forgets what was in memory, and nothing else. *)
LEMMA CrashKeeps == ASSUME Inv, Crash PROVE Inv'
<1>1. /\ stage' = [c \in OrderCalls |-> IF stage[c] \in InProgress THEN "lost" ELSE stage[c]]
      /\ order' = [c \in OrderCalls |-> NoOrder]
      /\ asked' = asked /\ answer' = answer /\ SameTable /\ UNCHANGED catalogVars
  BY DEF Crash
<1>2. TypeOK'
  <2>1. "lost" \in Stages
    BY DEF Stages, Ended
  <2> QED
    BY <1>1, <2>1 DEF Inv, TypeOK, SameTable
<1>3. ASSUME NEW c \in OrderCalls
      PROVE  /\ stage'[c] \in {"idle", "done", "lost"}
             /\ stage'[c] = "idle" <=> stage[c] = "idle"
             /\ stage'[c] = "done" <=> stage[c] = "done"
  BY <1>1 DEF Inv, TypeOK, Stages, InProgress, Ended
<1>4. DoneStay /\ NoneMade /\ Kept /\ SameRows
  BY <1>1, <1>3 DEF DoneStay, NoneMade, Answered, Kept, SameTable, SameRows
<1>5. Calling'
  <2> SUFFICES ASSUME NEW c \in OrderCalls
               PROVE  Knows(c)' /\ Promised(c)'
    BY DEF Calling
  <2>1. Knows(c) /\ Promised(c)
    BY DEF Inv, Calling
  <2>2. Knows(c)'
    BY <1>1, <1>3, <2>1 DEF Knows
  <2>3. stage'[c] = "done" => stage[c] = "done"
    BY <1>3
  <2>4. Promised(c)'
    BY <1>1, <1>4, <2>1, <2>3, PromisesStay DEF Inv
  <2> QED
    BY <2>2, <2>4
<1>6. CancelledByOwner'
  BY <1>4, CancellationsStay DEF Inv
<1>7. Gapless' /\ Counted'
  BY <1>4, CountStands DEF Inv, Gapless, SameRows
<1>8. CatalogKnows'
  BY <1>1, CatalogStands DEF Inv
<1> QED
  BY <1>2, <1>5, <1>6, <1>7, <1>8 DEF Inv

(* Nor does the order service notice what the catalog does of itself. *)
LEMMA OrdersStand ==
    ASSUME Inv, UNCHANGED orderVars, CatalogKnows'
    PROVE  Inv'
<1>1. TypeOK' /\ Gapless'
  BY DEF Inv, TypeOK, Gapless, orderVars
<1>2. DoneStay /\ NoneMade /\ Kept /\ SameRows
  BY DEF DoneStay, NoneMade, Answered, Kept, SameRows, orderVars
<1>3. Calling'
  <2> SUFFICES ASSUME NEW c \in OrderCalls
               PROVE  Knows(c)' /\ Promised(c)'
    BY DEF Calling
  <2>1. Knows(c) /\ Promised(c)
    BY DEF Inv, Calling
  <2>2. stage' = stage /\ asked' = asked /\ order' = order /\ answer' = answer
    BY DEF orderVars
  <2> QED
    BY <1>2, <2>1, <2>2, KnowledgeStays, PromisesStay DEF Inv
<1>4. CancelledByOwner'
  BY CancellationsStay, <1>2 DEF Inv
<1>5. Counted'
  BY <1>2, CountStands DEF Inv, SameRows
<1> QED
  BY <1>1, <1>3, <1>4, <1>5 DEF Inv

-----------------------------------------------------------------------------
(* Inv holds of every reachable state. *)

(* It holds at the start. *)
LEMMA InitInv == ASSUME Init PROVE Inv
<1>1. TypeOK
  BY OrderAssumption DEF Init, TypeOK, Stages
<1>2. CatalogKnows
  <2>1. /\ movies = InitialMovies
        /\ pc = [c \in Calls |-> "idle"]
        /\ request = [c \in Calls |-> NoRequest]
        /\ reply = [c \in Calls |-> Cat!NoReply]
    BY SameData DEF Init, Cat!Init
  <2>2. OrderCalls \subseteq Calls /\ "idle" \notin Updating
    BY OrderAssumption DEF Updating
  <2>3. Cat!NoReply.body = {}
    BY DEF Cat!NoReply
  <2> QED
    BY <2>1, <2>2, <2>3, OrderAssumption DEF CatalogKnows, ByCall
<1>3. Calling
  <2>1. \A c \in OrderCalls : stage[c] = "idle" /\ answer[c] = NoAnswer
    BY DEF Init
  <2>2. NoAnswer.body = {}
    BY DEF NoAnswer
  <2> QED
    BY <2>1, <2>2 DEF Calling, Knows, Promised, Answered
<1>4. CancelledByOwner /\ Gapless
  BY DEF Init, CancelledByOwner, Gapless, OrderIds
<1>5. Counted
  <2>1. Made = {} /\ Open = {} /\ MadeIds = {}
    BY DEF Init, Made, Open, MadeIds, Answered
  <2> QED
    BY <2>1, FS_EmptySet DEF Counted, Init
<1> QED
  BY <1>1, <1>2, <1>3, <1>4, <1>5 DEF Inv

(* Every step of either service keeps it. *)
LEMMA NextInv == ASSUME Inv, [Next]_vars PROVE Inv'
<1>1. ASSUME NEW c \in OrderCalls, OrderStep(c)
      PROVE  Inv'
  BY <1>1, ReceiveKeeps, LookupKeeps, LookupReplyKeeps, LookupGivenUpKeeps,
     StartTransactionKeeps, InsertOrderKeeps, ReadsKeep, MissingOrderKeeps,
     CancelReadKeeps, CancelLoadKeeps, CancelWriteKeeps, QueryFailsKeeps
     DEF OrderStep, Advance
<1>2. ASSUME NEW c \in OrderCalls, CatalogReceives(c)
      PROVE  Inv'
  <2>1. c \in Calls /\ Cat!Step(c) /\ UNCHANGED orderVars
    BY <1>2, OrderAssumption DEF CatalogReceives, Cat!Step
  <2> QED
    BY <2>1, CatalogStepKnows, OrdersStand DEF Inv
<1>3. CASE CatalogStep
  <2>1. CatalogKnows'
    BY <1>3, CatalogStepKnows, CatalogCrashKnows DEF CatalogStep, Inv
  <2> QED
    BY <1>3, <2>1, OrdersStand DEF CatalogStep
<1>4. CASE UNCHANGED vars
  <2>1. UNCHANGED orderVars /\ UNCHANGED catalogVars
    BY <1>4 DEF vars
  <2> QED
    BY <2>1, CatalogStands, OrdersStand DEF Inv
<1> QED
  BY <1>1, <1>2, <1>3, <1>4, CrashKeeps DEF Next, Quiescent

(* So it holds always. *)
LEMMA AlwaysInv == Spec => []Inv
  BY InitInv, NextInv, PTL DEF Spec

-----------------------------------------------------------------------------
(* The variables of the order service keep their types: above all, every   *)
(* row of the table is an order with its columns filled.                   *)
THEOREM TypeCorrect == Spec => []TypeOK
<1>1. Inv => TypeOK
  BY DEF Inv
<1> QED
  BY <1>1, AlwaysInv, PTL

(* No answer of findAllForUser, findOneForUser or cancel shows a user the  *)
(* order of another, and no order is cancelled but by its owner.           *)
THEOREM OnlyOwner == Spec => []OnlyOwnerReachesOrder
<1>1. Inv => OnlyOwnerReachesOrder
  BY DEF Inv, Calling, Promised, CancelledByOwner, MayHaveCancelled, OnlyOwnerReachesOrder
<1> QED
  BY <1>1, AlwaysInv, PTL

(* An acknowledged order keeps its snapshot, and an acknowledged cancel    *)
(* its effect, whatever is done to the movie and whichever service dies.   *)
THEOREM AcknowledgedStays == Spec => []AcknowledgedOrderStays
<1>1. ASSUME Inv
      PROVE  AcknowledgedOrderStays
  <2>1. \A c \in OrderCalls : Promised(c)
    BY <1>1 DEF Inv, Calling
  <2>2. ASSUME NEW c \in OrderCalls, Answered(c, "create", OK), NEW told \in answer[c].body
        PROVE  orders[told[1]] \in {told[2], [told[2] EXCEPT !.status = "CANCELLED"]}
    <3>1. PICK pair \in answer[c].body :
              /\ answer[c].body = {pair}
              /\ orders[pair[1]] \in {pair[2], [pair[2] EXCEPT !.status = "CANCELLED"]}
      BY <2>1, <2>2 DEF Promised
    <3>2. told = pair
      BY <3>1
    <3> QED
      BY <3>1, <3>2
  <2>3. ASSUME NEW c \in OrderCalls, Answered(c, "cancel", OK)
        PROVE  orders[asked[c].orderId].status = "CANCELLED"
    BY <2>1, <2>3 DEF Promised
  <2> QED
    BY <2>2, <2>3 DEF AcknowledgedOrderStays
<1> QED
  BY <1>1, AlwaysInv, PTL

(* A cancel answered with a 409 found an order another cancel went for.    *)
THEOREM ConflictJustified == Spec => []CancelConflictJustified
<1>1. Inv => CancelConflictJustified
  BY DEF Inv, Calling, Promised, MayHaveCancelled, CancelConflictJustified
<1> QED
  BY <1>1, AlwaysInv, PTL

(* The answers of the creates count the rows of the orders table: one for  *)
(* each OK, none for a refusal, and at most one for each 500.              *)
THEOREM AnswersCountOrders == Spec => []OrdersMatchAnswers
<1>1. ASSUME Inv
      PROVE  OrdersMatchAnswers
  <2> DEFINE filled == {i \in OrderIds : orders[i] # NoOrder}
  <2>1. nextOrderId \in Int /\ 1 <= nextOrderId /\ nextOrderId <= OrderIdMax + 1
    BY <1>1, OrderAssumption DEF Inv, TypeOK
  <2>2. filled = 1..(nextOrderId - 1)
    <3>1. \A i \in OrderIds : orders[i] # NoOrder <=> i < nextOrderId
      BY <1>1 DEF Inv, Gapless
    <3> QED
      BY <2>1, <3>1, OrderAssumption DEF OrderIds
  <2>3. Cardinality(filled) = nextOrderId - 1
    <3>1. Cardinality(1..(nextOrderId - 1)) = nextOrderId - 1
      <4> DEFINE n == nextOrderId - 1
      <4>1. n \in Int /\ 0 <= n /\ n - 1 + 1 = n
        BY <2>1
      <4> HIDE DEF n
      <4>2. Cardinality(1..n) = IF 1 > n THEN 0 ELSE n - 1 + 1
        BY <4>1, FS_Interval
      <4>3. Cardinality(1..n) = n
        BY <4>1, <4>2
      <4> QED
        BY <4>3 DEF n
    <3> QED
      BY <2>2, <3>1
  <2>4. /\ Cardinality(Made) <= Cardinality(filled)
        /\ Cardinality(filled) <= Cardinality(Made) + Cardinality(Open)
        /\ Cardinality(UNION {OrderIdsIn(c) : c \in Made}) = Cardinality(Made)
    BY <1>1, <2>3 DEF Inv, Counted, MadeIds
  <2> QED
    BY <2>4 DEF OrdersMatchAnswers, Made, Open
<1> QED
  BY <1>1, AlwaysInv, PTL

-----------------------------------------------------------------------------
(* The steps as a whole, for what else is proved of them. *)

(* A step of the order service is that of one call, and none of the        *)
(* catalog's.                                                              *)
LEMMA OrderStepAlone ==
    ASSUME Inv, NEW c \in OrderCalls, OrderStep(c)
    PROVE  OnlyCall(c) /\ UNCHANGED catalogVars
<1>1. UNCHANGED catalogVars
  BY DEF OrderStep, Advance, Receive, Lookup, LookupReply, LookupTimeout, LookupFails,
     StartTransaction, InsertOrder, FindAllForUser, MissingOrder, FindOneForUser,
     CancelRead, CancelLoad, CancelWrite, QueryFails
<1>2. stage[c] \notin Ended
  BY DEF OrderStep, Advance, Receive, Lookup, LookupReply, LookupTimeout, LookupFails,
     StartTransaction, InsertOrder, FindAllForUser, MissingOrder, FindOneForUser,
     CancelRead, CancelLoad, CancelWrite, QueryFails, InProgress, Ended
<1>3. \A d \in OrderCalls \ {c} :
          /\ stage'[d] = stage[d] /\ asked'[d] = asked[d]
          /\ order'[d] = order[d] /\ answer'[d] = answer[d]
  BY DEF Inv, TypeOK, OrderStep, Advance, Receive, Lookup, LookupReply, LookupTimeout,
     LookupFails, StartTransaction, InsertOrder, FindAllForUser, MissingOrder,
     FindOneForUser, CancelRead, CancelLoad, CancelWrite, QueryFails,
     Throw, Confirm, Finish, Proceed
<1> QED
  BY <1>1, <1>2, <1>3 DEF OnlyCall

(* The time only moves on, and the rows change as Kept says.               *)
LEMMA RowsKept ==
    ASSUME Inv, [Next]_vars
    PROVE  Kept /\ clock \in Nat /\ clock' \in Nat /\ clock <= clock'
<1>1. clock \in Nat /\ orders \in [OrderIds -> Order \union {NoOrder}]
  BY DEF Inv, TypeOK
<1>2. CASE orders' = orders /\ clock' = clock
  BY <1>1, <1>2 DEF Kept
<1>3. ASSUME NEW c \in OrderCalls, StartTransaction(c)
      PROVE  Kept /\ clock' \in Nat /\ clock <= clock'
  BY <1>1, <1>3 DEF StartTransaction, Kept
<1>4. ASSUME NEW c \in OrderCalls, InsertOrder(c)
      PROVE  Kept /\ clock' = clock
  <2>1. clock' = clock
    BY <1>4 DEF InsertOrder
  <2>2. CASE orders' = orders
    BY <2>1, <2>2 DEF Kept
  <2>3. CASE nextOrderId <= OrderIdMax /\ orders' = [orders EXCEPT ![nextOrderId] = order[c]]
    <3>1. nextOrderId \in OrderIds
      BY <2>3, OrderAssumption DEF Inv, TypeOK, OrderIds
    <3>2. orders[nextOrderId] = NoOrder
      BY <3>1, OrderAssumption DEF Inv, Gapless, OrderIds
    <3> QED
      BY <1>1, <2>1, <2>3, <3>2 DEF Kept
  <2> QED
    BY <1>4, <2>2, <2>3 DEF InsertOrder
<1>5. ASSUME NEW c \in OrderCalls, CancelWrite(c)
      PROVE  Kept /\ clock' = clock
  <2>1. order[c].status = "CANCELLED"
    BY <1>5 DEF CancelWrite, Inv, Calling, Knows
  <2>2. /\ orders' = [orders EXCEPT ![asked[c].orderId].status = "CANCELLED"]
        /\ clock' = clock
    BY <1>5, <2>1 DEF CancelWrite
  <2> QED
    BY <1>1, <2>2 DEF Kept
<1>6. ASSUME NEW c \in OrderCalls, OrderStep(c)
      PROVE  \/ orders' = orders /\ clock' = clock
             \/ StartTransaction(c) \/ InsertOrder(c) \/ CancelWrite(c)
  BY <1>6 DEF OrderStep, Advance, Receive, Lookup, LookupReply, LookupTimeout, LookupFails,
     FindAllForUser, MissingOrder, FindOneForUser, CancelRead, CancelLoad, QueryFails,
     SameTable
<1>7. CASE Crash \/ CatalogStep \/ Quiescent \/ UNCHANGED vars
  BY <1>2, <1>7 DEF Crash, CatalogStep, Quiescent, SameTable, vars, orderVars
<1>8. ASSUME NEW c \in OrderCalls, CatalogReceives(c)
      PROVE  orders' = orders /\ clock' = clock
  BY <1>8 DEF CatalogReceives, orderVars
<1> QED
  BY <1>1, <1>2, <1>3, <1>4, <1>5, <1>6, <1>7, <1>8 DEF Next

(* The catalog works on what the order service has asked, if on anything.  *)
Asking(c) ==
    pc[c] # "idle" =>
        /\ stage[c] \notin {"idle", "received"}
        /\ asked[c].op = "create"
        /\ request[c].id = asked[c].movieId

(* A handler of the catalog touches no other call.                         *)
LEMMA CatalogOthers ==
    ASSUME CatalogKnows, NEW c \in Calls, Cat!Step(c), NEW d \in Calls \ {c}
    PROVE  pc'[d] = pc[d] /\ request'[d] = request[d] /\ reply'[d] = reply[d]
  BY DEF CatalogKnows, ByCall, Cat!Step, Cat!Receive, Cat!MissingMovie, Cat!FindOne,
     Cat!FindAll, Cat!Remove, Cat!CreateCheck, Cat!InsertRow, Cat!UpdateRead,
     Cat!UpdateCheck, Cat!UpdateLoad, Cat!UpdateWrite, Cat!Reinsert, Cat!QueryFails,
     Cat!Finish, Cat!Throw, Cat!Confirm, Cat!Goto

(* A lookup that has been taken is ended by the catalog's next step: with  *)
(* the row there is, because there is none, or by a failure.               *)
LEMMA LookupServed ==
    ASSUME CatalogKnows, NEW c \in OrderCalls, Cat!Step(c), pc[c] # "idle"
    PROVE  /\ pc[c] # "done" /\ pc'[c] = "done"
           /\ request'[c] = request[c] /\ movies' = movies
           /\ reply'[c].status \in {OK, NotFound, ServerError}
           /\ reply'[c].status = OK =>
                 /\ request[c].id \in MovieIds /\ movies[request[c].id] # NoRow
                 /\ reply'[c].body = {<<request[c].id, movies[request[c].id]>>}
           /\ reply'[c].status # OK => reply'[c].body = {}
           /\ reply'[c].status = NotFound =>
                 request[c].id \in MovieIds /\ movies[request[c].id] = NoRow
<1> USE SameData
<1>1. c \in Calls /\ request[c].op = "findOne" /\ pc[c] \notin Updating \union {"insert"}
  BY OrderAssumption, LookupMenu DEF CatalogKnows
<1>2. Cat!MissingMovie(c) \/ Cat!FindOne(c) \/ Cat!QueryFails(c)
  BY <1>1 DEF Updating, Cat!Step, Cat!Receive, Cat!FindAll, Cat!Remove, Cat!CreateCheck,
     Cat!InsertRow, Cat!UpdateRead, Cat!UpdateCheck, Cat!UpdateLoad, Cat!UpdateWrite,
     Cat!Reinsert, Cat!FindsItsRow, Cat!At
<1>3. ASSUME NEW status, NEW body, Cat!Finish(c, status, body)
      PROVE  /\ request' = request /\ pc'[c] = "done"
             /\ reply'[c].status = status /\ reply'[c].body = body
  BY <1>1, <1>3 DEF Cat!Finish, CatalogKnows, ByCall
<1>4. pc[c] # "done" /\ movies' = movies
  BY <1>2 DEF Cat!MissingMovie, Cat!FindOne, Cat!QueryFails, Cat!FindsItsRow, Cat!At,
     Cat!Waiting
<1>5. ASSUME NEW exception \in {"OtherQueryFailure", "NotFoundException"},
             Cat!Throw(c, exception),
             exception = "NotFoundException" =>
                 request[c].id \in MovieIds /\ movies[request[c].id] = NoRow
      PROVE  /\ request' = request /\ pc'[c] = "done" /\ reply'[c].body = {}
             /\ reply'[c].status \in {NotFound, ServerError}
             /\ reply'[c].status = NotFound =>
                   request[c].id \in MovieIds /\ movies[request[c].id] = NoRow
  BY <1>3, <1>5, StatusValues DEF Cat!Throw, NotFound, ServerError
<1>6. CASE Cat!MissingMovie(c) \/ Cat!QueryFails(c)
  <2>1. OK \notin {NotFound, ServerError}
    BY DEF OK, NotFound, ServerError
  <2>2. PICK exception \in {"OtherQueryFailure", "NotFoundException"} :
            /\ Cat!Throw(c, exception)
            /\ exception = "NotFoundException" =>
                   request[c].id \in MovieIds /\ movies[request[c].id] = NoRow
    BY <1>6 DEF Cat!MissingMovie, Cat!QueryFails, Cat!RowOf
  <2> QED
    BY <1>4, <1>5, <2>1, <2>2
<1>7. CASE Cat!FindOne(c)
  <2>1. request[c].id \in MovieIds /\ movies[request[c].id] # NoRow
    BY <1>7 DEF Cat!FindOne, Cat!FindsItsRow, Cat!RowOf
  <2>2. Cat!Finish(c, OK, {<<request[c].id, movies[request[c].id]>>})
    BY <1>7 DEF Cat!FindOne, Cat!RowOf
  <2>3. OK # NotFound
    BY DEF OK, NotFound
  <2> QED
    BY <1>3, <1>4, <2>1, <2>2, <2>3
<1> QED
  BY <1>2, <1>6, <1>7

(* The catalog takes every lookup it is sent: the id of a create has been  *)
(* validated by the gateway.                                               *)
LEMMA LookupTaken ==
    ASSUME Inv, NEW c \in OrderCalls, CatalogReceives(c)
    PROVE  /\ stage[c] = "lookup" /\ asked[c].op = "create"
           /\ pc[c] = "idle" /\ pc'[c] = "received" /\ reply'[c] = reply[c]
           /\ request'[c].id = asked[c].movieId /\ movies' = movies
           /\ Cat!Step(c) /\ UNCHANGED orderVars /\ c \in Calls
<1> USE SameData
<1>1. stage[c] = "lookup" /\ Cat!Receive(c) /\ request'[c].id = asked[c].movieId
  BY DEF CatalogReceives
<1>2. asked[c] \in OrderRequests /\ asked[c].op = "create" /\ c \in Calls
  BY <1>1, OrderAssumption DEF Inv, Calling, Knows
<1>3. asked[c].movieId \in Nat \ {0}
  BY <1>2 DEF OrderRequests
<1>4. PICK req \in Menu[c] :
          /\ request' = [request EXCEPT ![c] = req]
          /\ IF HasId(req) /\ req.id < 1
             THEN pc' = [pc EXCEPT ![c] = "done"]
             ELSE pc' = [pc EXCEPT ![c] = "received"] /\ reply' = reply
  BY <1>1 DEF Cat!Receive
<1>5. req.id = asked[c].movieId
  BY <1>1, <1>2, <1>4 DEF Inv, CatalogKnows, ByCall
<1>6. pc'[c] = "received" /\ reply' = reply
  BY <1>2, <1>3, <1>4, <1>5 DEF Inv, CatalogKnows, ByCall
<1> QED
  BY <1>1, <1>2, <1>6 DEF CatalogReceives, Cat!Receive, Cat!Step
=============================================================================
