---------------------------- MODULE OrdersHistory ----------------------------
(***************************************************************************)
(* Orders with two history variables, for what an order must have to do    *)
(* with the past: the movies of the catalog while its call was running,    *)
(* and the orders acknowledged before its call arrived.                    *)
(***************************************************************************)
EXTENDS Orders

VARIABLES
    seen,       \* the movies, with their ids, there were while a call ran
    earlier     \* the ids of the orders acknowledged before a call arrived

historyVars == <<vars, seen, earlier>>

AcknowledgedIds ==
    UNION {OrderIdsIn(c) : c \in {d \in OrderCalls : Answered(d, "create", OK)}}

HistoryInit ==
    /\ Init
    /\ seen = [c \in OrderCalls |-> {}]
    /\ earlier = [c \in OrderCalls |-> {}]

Remember ==
    /\ seen' = [c \in OrderCalls |->
           IF stage'[c] \in InProgress
           THEN seen[c] \union {<<i, movies'[i]>> : i \in MovieIds}
           ELSE seen[c]]
    /\ earlier' = [c \in OrderCalls |->
           IF stage[c] = "idle" /\ stage'[c] # "idle"
           THEN AcknowledgedIds ELSE earlier[c]]

HistorySpec == HistoryInit /\ [][Next /\ Remember]_historyVars

(* The snapshot of an order is one version of one movie, as the catalog    *)
(* had it at some time while the order was being made: never a mixture of  *)
(* versions, never a price of before the call.  The total is that price    *)
(* times the quantity, in cents.                                           *)
SnapshotWasCurrent ==
    \A c \in OrderCalls : Answered(c, "create", OK) =>
        \A pair \in answer[c].body : \E version \in seen[c] :
            /\ version[1] = pair[2].movieId
            /\ version[1] = asked[c].movieId
            /\ version[2] # NoRow
            /\ version[2].title = pair[2].movieTitle
            /\ version[2].releaseYear = pair[2].movieReleaseYear
            /\ version[2].ticketPrice = pair[2].ticketPrice
            /\ pair[2].totalPrice = Cents[version[2].ticketPrice] * asked[c].quantity

(* "newest first": an order that was acknowledged before the call of       *)
(* another one arrived is listed behind it, although created_at is taken   *)
(* when a transaction starts and the id when its INSERT runs.              *)
NewestFirst ==
    \A c, d \in OrderCalls :
        (Answered(c, "list", OK) /\ Answered(d, "create", OK)) =>
            \A p, q \in answer[c].body :
                (p[1] \in OrderIdsIn(d) /\ q[1] \in earlier[d]) => ListedBefore(p, q)
=============================================================================
