---------------------------- MODULE MCBucketStock ----------------------------
(***************************************************************************)
(* A small instance of BucketStock: orders that know two buckets and probe *)
(* both or one, one that knows one bucket; a request comes twice and an    *)
(* order asks for more than the others; two spreads, over one and over two *)
(* buckets, whose reads and writes come at any time; together the calls    *)
(* ask for more than the stock.                                            *)
(***************************************************************************)
EXTENDS BucketStock, TLC

Ask(r, q, n, k) == [request |-> r, quantity |-> q, n |-> n, k |-> k]

Demand == "o1" :> Ask("r1", 1, 2, 1) @@ "o2" :> Ask("r2", 2, 2, 1)
          @@ "o3" :> Ask("r1", 1, 2, 0)
Hashes == "r1" :> 0 @@ "r2" :> 1
NewWidths == "s1" :> 1 @@ "s2" :> 2
===============================================================================
