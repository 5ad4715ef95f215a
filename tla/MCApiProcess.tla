---------------------------- MODULE MCApiProcess ----------------------------
(***************************************************************************)
(* A small instance of ApiProcess; the configuration gives all constants.  *)
(***************************************************************************)
EXTENDS ApiProcess
===============================================================================
