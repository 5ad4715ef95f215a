--------------------------- MODULE MCProductCache ---------------------------
(***************************************************************************)
(* Small instances of ProductCache: two readers that share an api process. *)
(***************************************************************************)
EXTENDS ProductCache, TLC

Pair == "r1" :> "api1" @@ "r2" :> "api1"
===============================================================================
