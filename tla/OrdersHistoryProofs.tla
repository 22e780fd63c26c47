------------------------- MODULE OrdersHistoryProofs -------------------------
(***************************************************************************)
(* Theorems about OrdersHistory: what an order has to do with the movies   *)
(* there were while it was made, and with the orders of before.            *)
(*                                                                         *)
(* What the snapshot of an order is taken from passes through four hands:  *)
(* the row, the catalog's reply, the order in memory, the table.  Quoting  *)
(* follows it from one to the next.  For the order of the list, the time   *)
(* of an order lies between the clock at the arrival of its call, when the *)
(* earlier ones had theirs, and that at its INSERT, which draws the id.    *)
(***************************************************************************)
EXTENDS OrdersHistory, OrdersProofs

(* Order o has the snapshot of a version that was seen during call c.      *)
Quotes(c, o) ==
    \E version \in seen[c] :
        /\ version[1] = o.movieId
        /\ version[1] = asked[c].movieId
        /\ version[2] # NoRow
        /\ version[2].title = o.movieTitle
        /\ version[2].releaseYear = o.movieReleaseYear
        /\ version[2].ticketPrice = o.ticketPrice
        /\ o.totalPrice = Cents[version[2].ticketPrice] * asked[c].quantity

Quoting(c) ==
    /\ (stage[c] = "lookup" /\ pc[c] = "done" /\ reply[c].status = OK) =>
          \A pair \in reply[c].body : pair[1] = asked[c].movieId /\ pair \in seen[c]
    /\ stage[c] \in {"begin", "insert"} => Quotes(c, order[c])
    /\ Answered(c, "create", OK) => \A pair \in answer[c].body : Quotes(c, pair[2])

(* The order under id i is there, and no younger than time t.              *)
MadeBy(i, t) == i \in OrderIds /\ orders[i] # NoOrder /\ orders[i].createdAt <= t

Dating(c) ==
    /\ stage[c] = "insert" => order[c].createdAt <= clock
    /\ \A i \in earlier[c] :
          /\ MadeBy(i, clock)
          /\ stage[c] = "insert" => MadeBy(i, order[c].createdAt)
          /\ Answered(c, "create", OK) =>
                \A pair \in answer[c].body : i < pair[1] /\ MadeBy(i, pair[2].createdAt)
    /\ Answered(c, "list", OK) =>
          \A pair \in answer[c].body :
              /\ pair[1] \in OrderIds /\ orders[pair[1]] # NoOrder
              /\ orders[pair[1]].createdAt = pair[2].createdAt

HistoryInv ==
    /\ seen = [c \in OrderCalls |-> seen[c]]
    /\ earlier = [c \in OrderCalls |-> earlier[c]]
    /\ \A i \in OrderIds : orders[i] # NoOrder => orders[i].createdAt <= clock
    /\ \A c \in OrderCalls : Asking(c) /\ Quoting(c) /\ Dating(c)


-----------------------------------------------------------------------------
(* The history variables. *)

(* What was seen stays seen, and what a call sees at its end of a step is  *)
(* in it; the orders of before are noted once, when the call arrives.      *)
LEMMA Remembered ==
    ASSUME Remember, NEW c \in OrderCalls
    PROVE  /\ seen[c] \subseteq seen'[c]
           /\ stage'[c] \in InProgress =>
                 \A i \in MovieIds : <<i, movies'[i]>> \in seen'[c]
           /\ stage[c] # "idle" \/ stage'[c] = "idle" => earlier'[c] = earlier[c]
           /\ stage[c] = "idle" /\ stage'[c] # "idle" => earlier'[c] = AcknowledgedIds
  BY DEF Remember

(* A snapshot of a version that was seen is one for good.                  *)
LEMMA QuotesStays ==
    ASSUME Remember, NEW c \in OrderCalls, asked'[c] = asked[c], NEW o, Quotes(c, o)
    PROVE  Quotes(c, o)'
  BY Remembered DEF Quotes

-----------------------------------------------------------------------------
(* The rows of the orders table. *)

(* So an order keeps its time.                                             *)
LEMMA TimesStay ==
    ASSUME TypeOK, Kept, NEW i \in OrderIds, orders[i] # NoOrder
    PROVE  /\ orders'[i] # NoOrder /\ orders[i].createdAt \in Nat
           /\ orders'[i].createdAt = orders[i].createdAt
<1>1. orders[i] \in Order
  BY DEF TypeOK
<1>2. orders[i].createdAt \in Nat
  BY <1>1 DEF Order
<1>3. [orders[i] EXCEPT !.status = "CANCELLED"].createdAt = orders[i].createdAt
  BY <1>1 DEF Order
<1> QED
  BY <1>1, <1>2, <1>3, OrderUpdates DEF Kept

(* An order made by some time was made by any later one, at any time after.*)
LEMMA MadeStays ==
    ASSUME TypeOK, Kept, NEW i, NEW t \in Nat, NEW u \in Nat, t <= u, MadeBy(i, t)
    PROVE  MadeBy(i, u)'
<1>1. i \in OrderIds /\ orders[i] # NoOrder /\ orders[i].createdAt <= t
  BY DEF MadeBy
<1>2. /\ orders'[i] # NoOrder /\ orders[i].createdAt \in Nat
      /\ orders'[i].createdAt = orders[i].createdAt
  BY <1>1, TimesStay
<1>3. orders'[i].createdAt <= u
  BY <1>1, <1>2
<1> QED
  BY <1>1, <1>2, <1>3 DEF MadeBy


-----------------------------------------------------------------------------
(* What holds of a call that does not move. *)

Holds(c) == Asking(c) /\ Quoting(c) /\ Dating(c)

Times == \A i \in OrderIds : orders[i] # NoOrder => orders[i].createdAt <= clock

(* What a step may be taken to do, besides its own effect.                 *)
Goes == Inv /\ Kept /\ Remember /\ clock \in Nat /\ clock' \in Nat /\ clock <= clock'

(* The times in answers and in memory are times.                           *)
LEMMA DatesAreTimes ==
    ASSUME Inv, NEW c \in OrderCalls
    PROVE  /\ stage[c] = "insert" => order[c] \in Order /\ order[c].createdAt \in Nat
           /\ \A pair \in answer[c].body :
                 /\ pair[1] \in OrderIds /\ pair[2] \in Order
                 /\ pair[2].createdAt \in Nat
<1>1. \A o \in Order : o.createdAt \in Nat
  BY DEF Order
<1>2. stage[c] = "insert" => order[c] \in Order
  BY DEF Inv, Calling, Knows
<1>3. answer[c].body \subseteq OrderIds \X Order
  BY DEF Inv, TypeOK, Answers, NoAnswer
<1> QED
  BY <1>1, <1>2, <1>3

(* The orders of before a call stay where they are and as old.             *)
LEMMA DatingStays ==
    ASSUME Goes, NEW c \in OrderCalls, Dating(c),
           stage'[c] = stage[c], asked'[c] = asked[c], answer'[c] = answer[c],
           stage[c] = "insert" => order'[c] = order[c]
    PROVE  Dating(c)'
<1>1. earlier'[c] = earlier[c] /\ TypeOK
  BY Remembered DEF Goes, Inv
<1>2. stage[c] = "insert" => order[c].createdAt \in Nat /\ order[c].createdAt <= clock'
  BY DatesAreTimes DEF Goes, Dating
<1>3. ASSUME NEW i \in earlier[c]
      PROVE  /\ MadeBy(i, clock)'
             /\ stage[c] = "insert" => MadeBy(i, order[c].createdAt)'
             /\ Answered(c, "create", OK) =>
                   \A pair \in answer[c].body : i < pair[1] /\ MadeBy(i, pair[2].createdAt)'
  <2>1. MadeBy(i, clock)'
    BY <1>1, <1>3, MadeStays DEF Goes, Dating
  <2>2. stage[c] = "insert" => MadeBy(i, order[c].createdAt)'
    <3> SUFFICES ASSUME stage[c] = "insert"
                 PROVE  MadeBy(i, order[c].createdAt)'
      OBVIOUS
    <3> DEFINE t == order[c].createdAt
    <3>1. t \in Nat /\ t <= t /\ MadeBy(i, t) /\ order'[c].createdAt = t
      BY <1>2, <1>3 DEF Dating
    <3> HIDE DEF t
    <3> QED
      BY <1>1, <3>1, MadeStays DEF Goes
  <2>3. ASSUME Answered(c, "create", OK), NEW pair \in answer[c].body
        PROVE  i < pair[1] /\ MadeBy(i, pair[2].createdAt)'
    <3> DEFINE t == pair[2].createdAt
    <3>1. t \in Nat /\ t <= t /\ MadeBy(i, t) /\ i < pair[1]
      BY <1>3, <2>3, DatesAreTimes DEF Goes, Dating
    <3> HIDE DEF t
    <3>2. MadeBy(i, t)'
      BY <1>1, <3>1, MadeStays DEF Goes
    <3> QED
      BY <3>1, <3>2 DEF t
  <2> QED
    BY <2>1, <2>2, <2>3
<1>4. ASSUME Answered(c, "list", OK), NEW pair \in answer[c].body
      PROVE  /\ pair[1] \in OrderIds /\ orders'[pair[1]] # NoOrder
             /\ orders'[pair[1]].createdAt = pair[2].createdAt
  BY <1>1, <1>4, TimesStay DEF Goes, Dating
<1>5. /\ Answered(c, "create", OK)' <=> Answered(c, "create", OK)
      /\ Answered(c, "list", OK)' <=> Answered(c, "list", OK)
  BY DEF Answered
<1>6. ASSUME NEW i \in earlier'[c]
      PROVE  /\ MadeBy(i, clock)'
             /\ stage'[c] = "insert" => MadeBy(i, order[c].createdAt)'
             /\ Answered(c, "create", OK)' =>
                   \A pair \in answer'[c].body : i < pair[1] /\ MadeBy(i, pair[2].createdAt)'
  BY <1>1, <1>3, <1>5, <1>6
<1>7. Answered(c, "list", OK)' =>
          \A pair \in answer'[c].body :
              /\ pair[1] \in OrderIds /\ orders'[pair[1]] # NoOrder
              /\ orders'[pair[1]].createdAt = pair[2].createdAt
  BY <1>4, <1>5
<1> QED
  BY <1>2, <1>6, <1>7 DEF Dating

(* So what holds of a call holds while neither service turns to it.        *)
LEMMA HoldsStays ==
    ASSUME Goes, NEW c \in OrderCalls, Holds(c),
           stage'[c] = stage[c], asked'[c] = asked[c], answer'[c] = answer[c],
           stage[c] \in {"begin", "insert"} => order'[c] = order[c],
           pc'[c] = pc[c], request'[c] = request[c], reply'[c] = reply[c]
    PROVE  Holds(c)'
<1>1. Dating(c)'
  BY DatingStays DEF Holds
<1>2. Asking(c)'
  BY DEF Holds, Asking
<1>3. \A o : Quotes(c, o) => Quotes(c, o)'
  BY QuotesStays DEF Goes
<1>4. Answered(c, "create", OK)' <=> Answered(c, "create", OK)
  BY DEF Answered
<1>5. seen[c] \subseteq seen'[c]
  BY Remembered DEF Goes
<1>6. Quoting(c)'
  BY <1>3, <1>4, <1>5 DEF Holds, Quoting
<1> QED
  BY <1>1, <1>2, <1>6 DEF Holds


-----------------------------------------------------------------------------
(* What becomes of the call that moves. *)

(* The orders of before, for a call in progress.                           *)
LEMMA EarlierMade ==
    ASSUME Goes, NEW c \in OrderCalls, Dating(c), stage[c] # "idle",
           NEW i \in earlier'[c]
    PROVE  i \in earlier[c] /\ MadeBy(i, clock)'
  BY Remembered, MadeStays DEF Goes, Inv, Dating

(* A call that ends answers with orders as the table has them.             *)
LEMMA EndHolds ==
    ASSUME Goes, NEW c \in OrderCalls, Holds(c), stage[c] \in InProgress,
           NEW status, NEW body, Finish(c, status, body), UNCHANGED catalogVars,
           (status = OK /\ asked[c].op = "create") =>
               \A pair \in body :
                   /\ Quotes(c, pair[2])
                   /\ \A i \in earlier[c] : i < pair[1] /\ MadeBy(i, pair[2].createdAt)',
           (status = OK /\ asked[c].op = "list") =>
               \A pair \in body :
                   /\ pair[1] \in OrderIds /\ orders'[pair[1]] # NoOrder
                   /\ orders'[pair[1]].createdAt = pair[2].createdAt
    PROVE  Holds(c)'
<1>1. /\ stage'[c] = "done" /\ asked'[c] = asked[c] /\ stage[c] # "idle"
      /\ answer'[c].status = status /\ answer'[c].body = body
  BY DEF Finish, Goes, Inv, TypeOK, InProgress
<1>2. \A op : Answered(c, op, OK)' => asked[c].op = op /\ status = OK
  BY <1>1 DEF Answered
<1>3. Asking(c)'
  BY <1>1 DEF Holds, Asking, catalogVars
<1>4. Quoting(c)'
  <2>1. Answered(c, "create", OK)' => \A pair \in answer'[c].body : Quotes(c, pair[2])'
    BY <1>1, <1>2, QuotesStays DEF Goes
  <2> QED
    BY <1>1, <2>1 DEF Quoting
<1>5. Dating(c)'
  <2>1. \A i \in earlier'[c] : i \in earlier[c] /\ MadeBy(i, clock)'
    BY <1>1, EarlierMade DEF Holds
  <2>2. Answered(c, "create", OK)' =>
            \A pair \in answer'[c].body :
                \A i \in earlier'[c] : i < pair[1] /\ MadeBy(i, pair[2].createdAt)'
    BY <1>1, <1>2, <2>1
  <2>3. Answered(c, "list", OK)' =>
            \A pair \in answer'[c].body :
                /\ pair[1] \in OrderIds /\ orders'[pair[1]] # NoOrder
                /\ orders'[pair[1]].createdAt = pair[2].createdAt
    BY <1>1, <1>2
  <2> QED
    BY <1>1, <2>1, <2>2, <2>3 DEF Dating
<1> QED
  BY <1>3, <1>4, <1>5 DEF Holds

(* One that is refused, or fails, promises nothing.                        *)
LEMMA RefusedHolds ==
    ASSUME Goes, NEW c \in OrderCalls, Holds(c), stage[c] \in InProgress,
           NEW status, status # OK, NEW body, Finish(c, status, body), UNCHANGED catalogVars
    PROVE  Holds(c)'
  BY EndHolds

(* An exception is such an end.                                            *)
LEMMA ThrowHolds ==
    ASSUME Goes, NEW c \in OrderCalls, Holds(c), stage[c] \in InProgress,
           NEW exception, Throw(c, exception), UNCHANGED catalogVars
    PROVE  Holds(c)'
<1>1. StatusOf(exception) # OK
  BY StatusValues
<1> QED
  BY <1>1, RefusedHolds DEF Throw

(* A call that has nothing of an order in hand yet, or only an old one.    *)
LEMMA GoOnHolds ==
    ASSUME Goes, NEW c \in OrderCalls, Holds(c), stage[c] \in InProgress,
           NEW next \in {"lookup", "load", "write"}, Proceed(c, next),
           next = "lookup" => pc[c] = "idle", UNCHANGED catalogVars
    PROVE  Holds(c)'
<1>1. stage'[c] = next /\ asked'[c] = asked[c] /\ stage[c] # "idle"
  BY DEF Proceed, Goes, Inv, TypeOK, InProgress
<1>2. ~Answered(c, "create", OK)' /\ ~Answered(c, "list", OK)'
  BY <1>1 DEF Answered
<1>3. \A i \in earlier'[c] : MadeBy(i, clock)'
  BY <1>1, EarlierMade DEF Holds
<1>4. Dating(c)'
  BY <1>1, <1>2, <1>3 DEF Dating
<1>5. Asking(c)' /\ Quoting(c)'
  BY <1>1, <1>2 DEF Holds, Asking, Quoting, catalogVars
<1> QED
  BY <1>4, <1>5 DEF Holds

(* The orders acknowledged before a call are in the table.                 *)
LEMMA AcknowledgedMade ==
    ASSUME Goes, Times, NEW i \in AcknowledgedIds
    PROVE  MadeBy(i, clock)'
<1>1. PICK d \in OrderCalls : Answered(d, "create", OK) /\ i \in OrderIdsIn(d)
  BY DEF AcknowledgedIds
<1>2. PICK pair \in answer[d].body :
          /\ answer[d].body = {pair} /\ pair[1] \in OrderIds /\ pair[2] \in Order
          /\ orders[pair[1]] \in {pair[2], [pair[2] EXCEPT !.status = "CANCELLED"]}
  BY <1>1 DEF Goes, Inv, Calling, Promised
<1>3. i = pair[1]
  BY <1>1, <1>2 DEF OrderIdsIn
<1>4. i \in OrderIds /\ orders[i] # NoOrder
  BY <1>2, <1>3, OrderUpdates, OrderAssumption
<1>5. MadeBy(i, clock)
  BY <1>4 DEF MadeBy, Times
<1> QED
  BY <1>5, MadeStays DEF Goes, Inv

(* A message arrives: the catalog has not been asked yet, and the orders   *)
(* acknowledged so far are there.                                          *)
LEMMA ReceiveHolds ==
    ASSUME Goes, Times, NEW c \in OrderCalls, Holds(c), Receive(c)
    PROVE  Holds(c)'
<1>1. /\ stage[c] = "idle" /\ stage'[c] \in {"received", "done"}
      /\ stage'[c] = "done" => answer'[c].status # OK
      /\ UNCHANGED catalogVars
  BY StatusValues DEF Receive, Goes, Inv, TypeOK
<1>2. pc'[c] = "idle"
  BY <1>1 DEF Holds, Asking, catalogVars
<1>3. ~Answered(c, "create", OK)' /\ ~Answered(c, "list", OK)'
  BY <1>1 DEF Answered
<1>4. earlier'[c] = AcknowledgedIds
  BY <1>1, Remembered DEF Goes
<1>5. \A i \in earlier'[c] : MadeBy(i, clock)'
  BY <1>4, AcknowledgedMade
<1>6. Dating(c)'
  BY <1>1, <1>3, <1>5 DEF Dating
<1>7. Asking(c)' /\ Quoting(c)'
  BY <1>1, <1>2, <1>3 DEF Asking, Quoting
<1> QED
  BY <1>6, <1>7 DEF Holds


(* The order is built from the version the lookup has found.               *)
LEMMA LookupReplyHolds ==
    ASSUME Goes, NEW c \in OrderCalls, Holds(c), LookupReply(c)
    PROVE  Holds(c)'
<1>1. /\ stage[c] = "lookup" /\ pc[c] = "done" /\ stage[c] \in InProgress
      /\ stage[c] # "idle" /\ UNCHANGED catalogVars
  BY DEF LookupReply, InProgress
<1>2. CASE reply[c].status # OK /\ Finish(c, reply[c].status, {})
  BY <1>1, <1>2, RefusedHolds
<1>3. ASSUME reply[c].status = OK, NEW pair \in reply[c].body, Proceed(c, "begin"),
             order' = [order EXCEPT ![c] = NewOrder(c, pair[1], pair[2])]
      PROVE  Holds(c)'
  <2>1. /\ stage'[c] = "begin" /\ asked'[c] = asked[c]
        /\ order'[c] = NewOrder(c, pair[1], pair[2])
    BY <1>3 DEF Proceed, Goes, Inv, TypeOK
  <2>2. /\ pair \in MovieIds \X Row /\ pair \in seen[c] /\ pair[1] = asked[c].movieId
        /\ pair[2] # NoRow
    BY <1>1, <1>3, NoRowAssumption DEF Goes, Inv, CatalogKnows, Holds, Quoting, Row
  <2>3. Quotes(c, NewOrder(c, pair[1], pair[2]))
    BY <2>2 DEF Quotes, NewOrder
  <2>4. Quotes(c, order[c])'
    BY <2>1, <2>3, QuotesStays DEF Goes
  <2>5. ~Answered(c, "create", OK)' /\ ~Answered(c, "list", OK)'
    BY <2>1 DEF Answered
  <2>6. \A i \in earlier'[c] : MadeBy(i, clock)'
    BY <1>1, EarlierMade DEF Holds
  <2>7. Asking(c)' /\ Quoting(c)'
    BY <1>1, <2>1, <2>4, <2>5 DEF Holds, Asking, Quoting, catalogVars
  <2>8. Dating(c)'
    BY <2>1, <2>5, <2>6 DEF Dating
  <2> QED
    BY <2>7, <2>8 DEF Holds
<1> QED
  BY <1>2, <1>3 DEF LookupReply

(* The order takes the time of its transaction, which no earlier one has   *)
(* passed.                                                                 *)
LEMMA StartTransactionHolds ==
    ASSUME Goes, NEW c \in OrderCalls, Holds(c), StartTransaction(c)
    PROVE  Holds(c)'
<1> DEFINE o == order[c]
<1>1. /\ stage[c] = "begin" /\ stage[c] # "idle" /\ o \in Order /\ Quotes(c, o)
      /\ UNCHANGED catalogVars
  BY DEF StartTransaction, Goes, Inv, Calling, Knows, Holds, Quoting
<1>2. order' = [order EXCEPT ![c].createdAt = clock']
  BY DEF StartTransaction
<1>3. stage'[c] = "insert" /\ asked'[c] = asked[c] /\ order'[c] = [o EXCEPT !.createdAt = clock']
  BY <1>2 DEF StartTransaction, Proceed, Goes, Inv, TypeOK
<1>4. /\ order'[c].createdAt = clock'
      /\ order'[c].movieId = o.movieId /\ order'[c].movieTitle = o.movieTitle
      /\ order'[c].movieReleaseYear = o.movieReleaseYear
      /\ order'[c].ticketPrice = o.ticketPrice /\ order'[c].totalPrice = o.totalPrice
  BY <1>1, <1>3 DEF Order
<1>5. Quotes(c, order'[c])
  BY <1>1, <1>4 DEF Quotes
<1>6. Quotes(c, order[c])'
  BY <1>3, <1>5, QuotesStays DEF Goes
<1>7. ~Answered(c, "create", OK)' /\ ~Answered(c, "list", OK)'
  BY <1>3 DEF Answered
<1>8. \A i \in earlier'[c] : MadeBy(i, clock)'
  BY <1>1, EarlierMade DEF Holds
<1>9. Asking(c)' /\ Quoting(c)'
  BY <1>1, <1>3, <1>6, <1>7 DEF Holds, Asking, Quoting, catalogVars
<1>10. \A i \in earlier'[c] : MadeBy(i, order[c].createdAt)'
  BY <1>4, <1>8 DEF MadeBy
<1>11. order'[c].createdAt <= clock'
  BY <1>4 DEF Goes
<1>12. Dating(c)'
  BY <1>3, <1>7, <1>8, <1>10, <1>11 DEF Dating
<1> QED
  BY <1>9, <1>12 DEF Holds

(* The id is drawn above those of all rows there are.                      *)
LEMMA InsertOrderHolds ==
    ASSUME Goes, NEW c \in OrderCalls, Holds(c), InsertOrder(c)
    PROVE  Holds(c)'
<1> DEFINE body == {<<nextOrderId, order[c]>>}
<1>1. /\ stage[c] = "insert" /\ stage[c] \in InProgress /\ UNCHANGED catalogVars
      /\ asked[c].op = "create" /\ Quotes(c, order[c]) /\ order[c].createdAt \in Nat
  BY DatesAreTimes DEF InsertOrder, InProgress, Goes, Inv, Calling, Knows, Holds, Quoting
<1>2. ASSUME NEW pair \in body
      PROVE  /\ Quotes(c, pair[2])
             /\ \A i \in earlier[c] : i < pair[1] /\ MadeBy(i, pair[2].createdAt)'
  <2>1. pair[1] = nextOrderId /\ pair[2] = order[c]
    BY <1>2
  <2> DEFINE t == pair[2].createdAt
  <2>2. t \in Nat /\ t <= t
    BY <1>1, <2>1
  <2>3. ASSUME NEW i \in earlier[c]
        PROVE  i < pair[1] /\ MadeBy(i, t)'
    <3>1. MadeBy(i, t)
      BY <1>1, <2>1, <2>3 DEF Holds, Dating
    <3>2. i < nextOrderId
      BY <3>1 DEF MadeBy, Goes, Inv, Gapless
    <3> HIDE DEF t
    <3> QED
      BY <2>1, <2>2, <3>1, <3>2, MadeStays DEF Goes, Inv
  <2> QED
    BY <1>1, <2>1, <2>3
<1>3. CASE Throw(c, "OtherQueryFailure")
  BY <1>1, <1>3, ThrowHolds
<1>4. CASE Finish(c, OK, body)
  <2> HIDE DEF body
  <2> QED
    BY <1>1, <1>2, <1>4, EndHolds
<1> QED
  BY <1>3, <1>4 DEF InsertOrder, Confirm

(* findAllForUser answers with the rows of the table.                      *)
LEMMA FindAllForUserHolds ==
    ASSUME Goes, NEW c \in OrderCalls, Holds(c), FindAllForUser(c)
    PROVE  Holds(c)'
<1> DEFINE body == {<<i, orders[i]>> : i \in {j \in OrderIds : OwnedBy(asked[c].userId, j)}}
<1>1. /\ stage[c] \in InProgress /\ asked[c].op = "list" /\ Finish(c, OK, body)
      /\ orders' = orders /\ UNCHANGED catalogVars
  BY DEF FindAllForUser, InProgress, SameTable
<1>2. \A pair \in body :
          /\ pair[1] \in OrderIds /\ orders'[pair[1]] # NoOrder
          /\ orders'[pair[1]].createdAt = pair[2].createdAt
  BY <1>1 DEF OwnedBy
<1> HIDE DEF body
<1> QED
  BY <1>1, <1>2, EndHolds

(* The steps of find and cancel concern neither property.                  *)
LEMMA FindAndCancelHold ==
    ASSUME Goes, NEW c \in OrderCalls, Holds(c),
           \/ MissingOrder(c) \/ FindOneForUser(c)
           \/ CancelRead(c) \/ CancelLoad(c) \/ CancelWrite(c)
    PROVE  Holds(c)'
<1>1. /\ stage[c] \in InProgress /\ UNCHANGED catalogVars
      /\ asked[c].op \in {"find", "cancel"}
  BY DEF MissingOrder, FindOneForUser, CancelRead, CancelLoad, CancelWrite, InProgress,
     Goes, Inv, Calling, Knows
<1>2. ASSUME NEW status, NEW body, Finish(c, status, body)
      PROVE  Holds(c)'
  BY <1>1, <1>2, EndHolds
<1>3. ASSUME NEW next \in {"load", "write"}, Proceed(c, next)
      PROVE  Holds(c)'
  BY <1>1, <1>3, GoOnHolds
<1> QED
  BY <1>2, <1>3 DEF MissingOrder, FindOneForUser, CancelRead, CancelLoad, CancelWrite,
     Throw, Confirm

(* Each step of the order service for a call keeps what holds of it.       *)
LEMMA MoverHolds ==
    ASSUME Goes, Times, NEW c \in OrderCalls, Holds(c), OrderStep(c)
    PROVE  Holds(c)'
<1>1. CASE Lookup(c)
  <2>1. pc[c] = "idle" /\ stage[c] \in InProgress
    BY <1>1 DEF Lookup, Holds, Asking, InProgress
  <2> QED
    BY <1>1, <2>1, GoOnHolds DEF Lookup
<1>2. CASE LookupTimeout(c) \/ LookupFails(c)
  <2>1. PICK status \in {GatewayTimeout, Unavailable, BadGateway} : Finish(c, status, {})
    BY <1>2 DEF LookupTimeout, LookupFails
  <2>2. status # OK /\ stage[c] \in InProgress /\ UNCHANGED catalogVars
    BY <1>2, <2>1, StatusValues DEF LookupTimeout, LookupFails, InProgress
  <2> QED
    BY <2>1, <2>2, RefusedHolds
<1>3. CASE QueryFails(c)
  BY <1>3, ThrowHolds DEF QueryFails
<1> QED
  BY <1>1, <1>2, <1>3, ReceiveHolds, LookupReplyHolds, StartTransactionHolds,
     InsertOrderHolds, FindAllForUserHolds, FindAndCancelHold DEF OrderStep, Advance


(* A crash loses what is in progress and nothing of what is over.          *)
LEMMA CrashHolds ==
    ASSUME Goes, Crash, NEW c \in OrderCalls, Holds(c)
    PROVE  Holds(c)'
<1>1. /\ asked' = asked /\ answer' = answer
      /\ pc' = pc /\ request' = request /\ reply' = reply
  BY DEF Crash, catalogVars
<1>2. CASE stage[c] \in InProgress
  <2>1. stage'[c] = "lost" /\ stage[c] # "idle"
    BY <1>2 DEF Crash, InProgress
  <2>2. ~Answered(c, "create", OK)' /\ ~Answered(c, "list", OK)'
    BY <2>1 DEF Answered
  <2>3. \A i \in earlier'[c] : MadeBy(i, clock)'
    BY <2>1, EarlierMade DEF Holds
  <2> QED
    BY <1>1, <2>1, <2>2, <2>3 DEF Holds, Asking, Quoting, Dating
<1>3. CASE stage[c] \notin InProgress
  <2>1. stage'[c] = stage[c] /\ stage[c] \notin {"begin", "insert"}
    BY <1>3 DEF Crash, InProgress
  <2> QED
    BY <1>1, <2>1, HoldsStays
<1> QED
  BY <1>2, <1>3

-----------------------------------------------------------------------------
(* The steps of the catalog. *)

(* What the order service holds of a call through a step of the catalog.   *)
LEMMA ServedHolds ==
    ASSUME Goes, NEW c \in OrderCalls, Holds(c), UNCHANGED orderVars, Asking(c)',
           (stage[c] = "lookup" /\ pc'[c] = "done" /\ reply'[c].status = OK) =>
               \A pair \in reply'[c].body : pair[1] = asked[c].movieId /\ pair \in seen'[c]
    PROVE  Holds(c)'
<1>1. /\ stage' = stage /\ asked' = asked /\ order' = order /\ answer' = answer
  BY DEF orderVars
<1>2. Dating(c)'
  BY <1>1, DatingStays DEF Holds
<1>3. \A o : Quotes(c, o) => Quotes(c, o)'
  BY <1>1, QuotesStays DEF Goes
<1>4. Answered(c, "create", OK)' <=> Answered(c, "create", OK)
  BY <1>1 DEF Answered
<1>5. Quoting(c)'
  BY <1>1, <1>3, <1>4 DEF Holds, Quoting
<1> QED
  BY <1>2, <1>5 DEF Holds

(* The catalog turns to call c: it takes the lookup the order service      *)
(* sends, or goes on with the one it has.                                  *)
LEMMA CatalogTurnHolds ==
    ASSUME Goes, NEW c \in Calls, Cat!Step(c), UNCHANGED orderVars,
           NEW d \in OrderCalls, Holds(d), pc[d] = "idle" /\ d = c => CatalogReceives(c)
    PROVE  Holds(d)'
<1>1. /\ stage' = stage /\ asked' = asked /\ order' = order /\ answer' = answer
  BY DEF orderVars
<1>2. d \in Calls /\ CatalogKnows
  BY OrderAssumption DEF Goes, Inv
<1>3. CASE d # c
  BY <1>1, <1>2, <1>3, CatalogOthers, HoldsStays
<1>4. CASE d = c /\ pc[d] = "idle"
  <2>1. stage[d] = "lookup" /\ request'[d].id = asked[d].movieId /\ Cat!Receive(d)
    BY <1>4 DEF CatalogReceives
  <2>2. asked[d].op = "create"
    BY <2>1 DEF Goes, Inv, Calling, Knows
  <2>3. Asking(d)'
    BY <1>1, <2>1, <2>2 DEF Asking
  <2>4. pc'[d] = "done" => reply'[d].status # OK
    BY <1>2, <2>1, StatusValues, SameData DEF Cat!Receive, CatalogKnows, ByCall
  <2> QED
    BY <2>3, <2>4, ServedHolds
<1>5. CASE d = c /\ pc[d] # "idle"
  <2>1. /\ request'[d] = request[d]
        /\ (pc'[d] = "done" /\ reply'[d].status = OK) =>
              /\ request[d].id \in MovieIds /\ movies' = movies
              /\ reply'[d].body = {<<request[d].id, movies[request[d].id]>>}
    BY <1>2, <1>5, LookupServed
  <2>2. Asking(d)'
    BY <1>1, <1>5, <2>1 DEF Holds, Asking
  <2>3. ASSUME stage[d] = "lookup", pc'[d] = "done", reply'[d].status = OK,
               NEW pair \in reply'[d].body
        PROVE  pair[1] = asked[d].movieId /\ pair \in seen'[d]
    <3>1. /\ request[d].id \in MovieIds
          /\ pair = <<request[d].id, movies'[request[d].id]>>
      BY <2>1, <2>3
    <3>2. request[d].id = asked[d].movieId
      BY <1>5 DEF Holds, Asking
    <3>3. stage'[d] \in InProgress
      BY <1>1, <2>3 DEF InProgress
    <3>4. pair \in seen'[d]
      BY <3>1, <3>3, Remembered DEF Goes
    <3> QED
      BY <3>1, <3>2, <3>4
  <2> QED
    BY <2>2, <2>3, ServedHolds
<1> QED
  BY <1>3, <1>4, <1>5

(* The catalog dies: what it has answered it has answered.                 *)
LEMMA CatalogCrashHolds ==
    ASSUME Goes, Cat!Crash, UNCHANGED orderVars, NEW d \in OrderCalls, Holds(d)
    PROVE  Holds(d)'
<1>1. d \in Calls /\ stage' = stage /\ asked' = asked
  BY OrderAssumption DEF orderVars
<1>2. /\ pc'[d] \in {pc[d], "lost"} /\ (pc[d] = "idle" => pc'[d] = "idle")
      /\ request' = request /\ reply' = reply
  BY <1>1 DEF Cat!Crash, Cat!Waiting
<1>3. Asking(d)'
  BY <1>1, <1>2 DEF Holds, Asking
<1>4. seen[d] \subseteq seen'[d]
  BY Remembered DEF Goes
<1> QED
  BY <1>2, <1>3, <1>4, ServedHolds DEF Holds, Quoting

-----------------------------------------------------------------------------
(* The invariant. *)

(* A new row is the order a call had in hand.                              *)
LEMMA NewRow ==
    ASSUME Inv, [Next]_vars, NEW i \in OrderIds, orders[i] = NoOrder, orders'[i] # NoOrder
    PROVE  \E c \in OrderCalls : stage[c] = "insert" /\ orders'[i] = order[c]
<1>1. orders \in [OrderIds -> Order \union {NoOrder}]
  BY DEF Inv, TypeOK
<1>2. orders' # orders
  OBVIOUS
<1>3. PICK c \in OrderCalls : InsertOrder(c) \/ CancelWrite(c)
  BY <1>2 DEF Next, OrderStep, Advance, Receive, Lookup, LookupReply, LookupTimeout,
     LookupFails, StartTransaction, FindAllForUser, MissingOrder, FindOneForUser,
     CancelRead, CancelLoad, QueryFails, SameTable, CatalogReceives, CatalogStep, Crash,
     Quiescent, vars, orderVars
<1>4. CASE InsertOrder(c)
  BY <1>1, <1>2, <1>4 DEF InsertOrder
<1>5. CASE CancelWrite(c)
  <2>1. asked[c].orderId # i
    BY <1>5 DEF CancelWrite, Inv, Calling, Knows, OwnedBy
  <2> QED
    BY <1>1, <1>5, <2>1 DEF CancelWrite
<1> QED
  BY <1>3, <1>4, <1>5

(* No order is from the future.                                            *)
LEMMA TimesStep ==
    ASSUME Goes, Times, \A c \in OrderCalls : Dating(c), [Next]_vars
    PROVE  Times'
<1> SUFFICES ASSUME NEW i \in OrderIds, orders'[i] # NoOrder
             PROVE  orders'[i].createdAt <= clock'
  BY DEF Times
<1>1. CASE orders[i] # NoOrder
  <2>1. orders[i].createdAt \in Nat /\ orders'[i].createdAt = orders[i].createdAt
    BY <1>1, TimesStay DEF Goes, Inv
  <2> QED
    BY <1>1, <2>1 DEF Goes, Times
<1>2. CASE orders[i] = NoOrder
  <2>1. PICK c \in OrderCalls : stage[c] = "insert" /\ orders'[i] = order[c]
    BY <1>2, NewRow DEF Goes
  <2>2. order[c].createdAt \in Nat /\ order[c].createdAt <= clock
    BY <2>1, DatesAreTimes DEF Goes, Dating
  <2> QED
    BY <2>1, <2>2 DEF Goes
<1> QED
  BY <1>1, <1>2

(* At the start no call has arrived and there is no order.                 *)
LEMMA HistoryInitInv == ASSUME HistoryInit PROVE HistoryInv
<1>1. /\ \A c \in OrderCalls : stage[c] = "idle" /\ seen[c] = {} /\ earlier[c] = {}
      /\ \A i \in OrderIds : orders[i] = NoOrder
      /\ seen = [c \in OrderCalls |-> seen[c]]
      /\ earlier = [c \in OrderCalls |-> earlier[c]]
  BY DEF HistoryInit, Init
<1>2. \A c \in OrderCalls : pc[c] = "idle"
  BY OrderAssumption DEF HistoryInit, Init, Cat!Init
<1> QED
  BY <1>1, <1>2 DEF HistoryInv, Asking, Quoting, Dating, Answered

(* HistoryInv is inductive, relative to the invariant of Orders.           *)
LEMMA HistoryStep ==
    ASSUME Inv, HistoryInv, [Next /\ Remember]_historyVars
    PROVE  HistoryInv'
<1>1. CASE UNCHANGED historyVars
  <2>1. /\ UNCHANGED <<pc, request, reply, stage, asked, order, answer, orders, clock>>
        /\ UNCHANGED <<seen, earlier>>
    BY <1>1 DEF historyVars, vars, catalogVars, orderVars
  <2> QED
    BY <2>1 DEF HistoryInv, Asking, Quoting, Quotes, Dating, MadeBy, Answered
<1>2. CASE Next /\ Remember
  <2>1. Goes
    BY <1>2, RowsKept DEF Goes
  <2>2. Times /\ \A c \in OrderCalls : Holds(c)
    BY DEF HistoryInv, Times, Holds
  <2>3. Times'
    BY <1>2, <2>1, <2>2, TimesStep DEF Holds
  <2>4. ASSUME NEW d \in OrderCalls
        PROVE  Holds(d)'
    <3>1. d \in Calls
      BY OrderAssumption
    <3>2. ASSUME NEW c \in OrderCalls, OrderStep(c)
          PROVE  Holds(d)'
      <4>1. OnlyCall(c) /\ UNCHANGED <<pc, request, reply>>
        BY <3>2, OrderStepAlone DEF catalogVars
      <4>2. CASE d = c
        BY <2>1, <2>2, <3>2, <4>2, MoverHolds
      <4>3. CASE d # c
        BY <2>1, <2>2, <4>1, <4>3, HoldsStays DEF OnlyCall
      <4> QED
        BY <4>2, <4>3
    <3>3. ASSUME NEW c \in OrderCalls, CatalogReceives(c)
          PROVE  Holds(d)'
      <4>1. c \in Calls /\ Cat!Step(c) /\ UNCHANGED orderVars
        BY <3>3, OrderAssumption DEF CatalogReceives, Cat!Step
      <4> QED
        BY <2>1, <2>2, <3>3, <4>1, CatalogTurnHolds
    <3>4. CASE Crash
      BY <2>1, <2>2, <3>4, CrashHolds
    <3>5. CASE CatalogStep
      <4>1. CASE Cat!Crash
        BY <2>1, <2>2, <3>5, <4>1, CatalogCrashHolds DEF CatalogStep
      <4>2. ASSUME NEW c \in Calls, pc[c] = "idle" => c \notin OrderCalls, Cat!Step(c)
            PROVE  Holds(d)'
        BY <2>1, <2>2, <3>5, <4>2, CatalogTurnHolds DEF CatalogStep
      <4> QED
        BY <3>5, <4>1, <4>2 DEF CatalogStep
    <3>6. CASE Quiescent
      BY <2>1, <2>2, <3>6, HoldsStays DEF Quiescent, vars, catalogVars, orderVars
    <3> QED
      BY <1>2, <3>2, <3>3, <3>4, <3>5, <3>6 DEF Next
  <2> QED
    BY <1>2, <2>3, <2>4 DEF HistoryInv, Times, Holds, Remember
<1> QED
  BY <1>1, <1>2


(* A behaviour of HistorySpec is one of Spec, so Inv holds in it, and with *)
(* it HistoryInv.                                                          *)
THEOREM HistoryAlways == HistorySpec => [](Inv /\ HistoryInv)
<1>1. HistoryInit => Inv /\ HistoryInv
  BY InitInv, HistoryInitInv DEF HistoryInit
<1>2. (Inv /\ HistoryInv) /\ [Next /\ Remember]_historyVars => (Inv /\ HistoryInv)'
  <2> SUFFICES ASSUME Inv, HistoryInv, [Next /\ Remember]_historyVars
               PROVE  Inv' /\ HistoryInv'
    OBVIOUS
  <2>1. [Next]_vars
    BY DEF historyVars
  <2> QED
    BY <2>1, NextInv, HistoryStep
<1> QED
  BY <1>1, <1>2, PTL DEF HistorySpec

(* An order is a snapshot of one version of its movie, as the catalog had  *)
(* it at some time between the arrival of the call and its order, and its  *)
(* total is of that version's price, however the movie changes meanwhile.  *)
THEOREM SnapshotsAreCurrent == HistorySpec => []SnapshotWasCurrent
<1>1. HistoryInv => SnapshotWasCurrent
  <2> SUFFICES ASSUME HistoryInv, NEW c \in OrderCalls, Answered(c, "create", OK),
                      NEW pair \in answer[c].body
               PROVE  Quotes(c, pair[2])
    BY DEF SnapshotWasCurrent, Quotes
  <2> QED
    BY DEF HistoryInv, Quoting
<1> QED
  BY <1>1, HistoryAlways, PTL

(* The list of a user's orders has an order behind every one that was      *)
(* asked for after it had been acknowledged, for every interleaving of the *)
(* transactions, although the two keys it is sorted by are drawn at        *)
(* different times.                                                        *)
THEOREM ListedNewestFirst == HistorySpec => []NewestFirst
<1>1. ASSUME Inv, HistoryInv
      PROVE  NewestFirst
  <2> SUFFICES ASSUME NEW c \in OrderCalls, NEW d \in OrderCalls,
                      Answered(c, "list", OK), Answered(d, "create", OK),
                      NEW p \in answer[c].body, NEW q \in answer[c].body,
                      p[1] \in OrderIdsIn(d), q[1] \in earlier[d]
               PROVE  ListedBefore(p, q)
    BY DEF NewestFirst
  <2>1. /\ Dating(c) /\ Dating(d) /\ Promised(d)
    BY <1>1 DEF HistoryInv, Inv, Calling
  <2>2. PICK pair \in answer[d].body : p[1] = pair[1]
    BY DEF OrderIdsIn
  <2>3. q[1] < pair[1] /\ orders[q[1]].createdAt <= pair[2].createdAt
    BY <2>1 DEF Dating, MadeBy
  <2>4. pair[2] \in Order /\ orders[pair[1]].createdAt = pair[2].createdAt
    <3>1. /\ pair[2] \in Order
          /\ orders[pair[1]] \in {pair[2], [pair[2] EXCEPT !.status = "CANCELLED"]}
      BY <2>1 DEF Promised
    <3>2. [pair[2] EXCEPT !.status = "CANCELLED"].createdAt = pair[2].createdAt
      BY <3>1 DEF Order
    <3> QED
      BY <3>1, <3>2
  <2>5. /\ orders[p[1]].createdAt = p[2].createdAt
        /\ orders[q[1]].createdAt = q[2].createdAt
    BY <2>1 DEF Dating
  <2>6. p[2].createdAt \in Nat /\ q[2].createdAt \in Nat /\ p[1] \in Int /\ q[1] \in Int
    BY <1>1, DatesAreTimes DEF OrderIds
  <2>7. q[2].createdAt <= p[2].createdAt /\ q[1] < p[1]
    BY <2>2, <2>3, <2>4, <2>5
  <2> QED
    BY <2>6, <2>7 DEF ListedBefore
<1> QED
  BY <1>1, HistoryAlways, PTL
=============================================================================
