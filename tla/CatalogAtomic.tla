---------------------------- MODULE CatalogAtomic -----------------------------
(***************************************************************************)
(* Catalog as an implementation of AtomicCatalog: the ids handed out are   *)
(* those below the sequence, and a call between two of its queries is      *)
(* pending; entities and differing columns are not promised.               *)
(***************************************************************************)
EXTENDS Catalog

Spent == 1..(nextId - 1)
CallState == [c \in Calls |-> IF pc[c] \in Waiting THEN "pending" ELSE pc[c]]

Atomic == INSTANCE AtomicCatalog WITH spent <- Spent, state <- CallState

(* Call c is at work on movie i, and may change it. *)
Writes(c, i) ==
    pc[c] \in Waiting /\ request[c].op \in {"update", "remove"} /\ request[c].id = i

(* No two calls update or delete one movie at the same time. *)
OneWriterPerMovie ==
    \A c, d \in Calls : \A i \in MovieIds : (Writes(c, i) /\ Writes(d, i)) => c = d

(* Each call looks as if it took effect at one instant, on the rows of     *)
(* that instant, although an update reads, checks, reads again and writes  *)
(* in four queries and a create checks and inserts in two.                 *)
ImplementsAtomicCatalog == Atomic!Spec
=============================================================================
