----------------------------- MODULE MCOrdersBook -----------------------------
(* The instances of MCOrders, with the refinement mapping of OrdersBook. *)
EXTENDS MCOrders, OrdersBook
=============================================================================
