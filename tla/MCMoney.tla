------------------------------- MODULE MCMoney --------------------------------
(***************************************************************************)
(* Every price up to 2.04, with numbers of 12 bits, which is the most that *)
(* MoneyAssumption allows.  A cent is then 20 units in the last place of   *)
(* the highest price, and 2.5 of the highest total: less room for rounding *)
(* errors than the code's 53 bits have with prices up to 10000.00.         *)
(***************************************************************************)
EXTENDS Money

MCPrices == 0..204
=============================================================================
