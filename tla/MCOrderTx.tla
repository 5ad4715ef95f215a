------------------------------ MODULE MCOrderTx ------------------------------
(***************************************************************************)
(* Small workloads for OrderTx: two requests that compete for the stock of *)
(* one product, with quantities that cannot all be served, a duplicate of  *)
(* each, a request on a product of its own, one on a product without a row *)
(* and one with a quantity that is refused.                                *)
(***************************************************************************)
EXTENDS OrderTx, TLC

MCInitialStock == "shoe" :> 3 @@ "shirt" :> 1

MCArgs == {[request |-> "r1", product |-> "shoe",  qty |-> 2],
           [request |-> "r2", product |-> "shoe",  qty |-> 2],
           [request |-> "r2", product |-> "shirt", qty |-> 1],
           [request |-> "r3", product |-> "shoe",  qty |-> 0],
           [request |-> "r3", product |-> "hat",   qty |-> 1]}

MCWorkload == [Calls -> MCArgs]
===============================================================================
