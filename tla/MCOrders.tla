------------------------------ MODULE MCOrders -------------------------------
(***************************************************************************)
(* Small instances of the order service with its catalog: one movie on     *)
(* sale, room for one to three orders, and one or two calls that change    *)
(* the movie meanwhile.                                                    *)
(***************************************************************************)
EXTENDS Orders

CONSTANTS o1, o2, o3, a1

Film(title, price) ==
    [title |-> title, releaseYear |-> "2021",
     ticketPrice |-> price, description |-> Null]

MCValues == {"Dune", "Arrakis", "2021", "12.50", "9.00"}
MCCents ==
    [p \in MCValues |-> CASE p = "12.50" -> 1250 [] p = "9.00" -> 900 [] OTHER -> 0]
OneMovie == [i \in MovieIds |-> IF i = 1 THEN Film("Dune", "12.50") ELSE NoRow]

Buy(user, movie, quantity) ==
    [op |-> "create", userId |-> user, movieId |-> movie, quantity |-> quantity]
ListOf(user) == [op |-> "list", userId |-> user]
Look(user, id) == [op |-> "find", userId |-> user, orderId |-> id]
Cancel(user, id) == [op |-> "cancel", userId |-> user, orderId |-> id]

Lookups(menu) ==
    [c \in Calls |->
        IF c \in OrderCalls
        THEN {[op |-> "findOne", id |-> req.movieId] :
                  req \in {r \in menu[c] : r.op = "create"}}
        ELSE {[op |-> "remove", id |-> 1],
              [op |-> "update", id |-> 1,
               changes |-> [col \in {"title", "ticketPrice"} |->
                                IF col = "title" THEN "Arrakis" ELSE "9.00"]]}]

(* Buying, twice by one user, while the movie changes or goes away. *)
BuyMenu == [c \in OrderCalls |->
    CASE c = o1 -> {Buy(1, 1, 2)}
      [] c = o2 -> {Buy(1, 1, 1), Buy(2, 9, 1)}
      [] OTHER -> {ListOf(1)}]
BuyLookups == Lookups(BuyMenu)

(* Owners and others, looking and cancelling. *)
CancelMenu == [c \in OrderCalls |->
    CASE c = o1 -> {Buy(1, 1, 2)}
      [] c = o2 -> {Cancel(1, 1), Cancel(2, 1), ListOf(2), Buy(2, 1, 1)}
      [] OTHER -> {Cancel(1, 1), Look(1, 1), Cancel(1, 9), Look(1, 0)}]
CancelLookups == [Lookups(CancelMenu) EXCEPT ![a1] = {[op |-> "remove", id |-> 1]}]

(* One order, and two attempts to cancel it. *)
TwiceMenu == [c \in OrderCalls |->
    IF c = o1 THEN {Buy(1, 1, 1)} ELSE {Cancel(1, 1)}]
TwiceLookups == Lookups(TwiceMenu)
=============================================================================
