--------------------------- MODULE MCReservedOrder ---------------------------
(***************************************************************************)
(* A small instance of ReservedOrder: a request that is sent three times,  *)
(* the last time for another product and quantity, next to another request *)
(* that competes for the stock without a quantity, which means one unit,   *)
(* and one that asks for a negative quantity of a product below zero.      *)
(***************************************************************************)
EXTENDS ReservedOrder, TLC

NoProduct == -1
Items == {1, 2, NoProduct}

Ask(r, p, q) == [request |-> r, product |-> p, quantity |-> q]

Repeats == "c1" :> Ask("r1", 1, 2) @@ "c2" :> Ask("r1", 1, 2)
           @@ "c3" :> Ask("r1", 2, 1) @@ "c4" :> Ask("r2", 1, 0)
           @@ "c5" :> Ask("r3", NoProduct, -1)

FewItems == [p \in Products |-> 2]
===============================================================================
