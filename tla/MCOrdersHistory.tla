--------------------------- MODULE MCOrdersHistory ---------------------------
(* The instances of MCOrders with the history variables of OrdersHistory. *)
EXTENDS MCOrders, OrdersHistory
=============================================================================
