------------------------------ MODULE MCBreaker ------------------------------
(***************************************************************************)
(* A small instance of Breaker: four goroutines against a threshold of two *)
(* failures and two probes; the configuration gives all constants.         *)
(***************************************************************************)
EXTENDS Breaker
===============================================================================
