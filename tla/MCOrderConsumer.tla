--------------------------- MODULE MCOrderConsumer ---------------------------
(***************************************************************************)
(* A small instance of OrderConsumer: two members that take the partition  *)
(* from each other, and a poisoned record before a good one.               *)
(***************************************************************************)
EXTENDS OrderConsumer
===============================================================================
