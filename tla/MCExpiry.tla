------------------------------- MODULE MCExpiry -------------------------------
(***************************************************************************)
(* A small instance of Expiry: two orders that ask for all of the stock,   *)
(* or for more than there is, and two scanners.                            *)
(***************************************************************************)
EXTENDS Expiry, TLC

SomeQty == [o \in Orders |-> IF o = "o2" THEN 2 ELSE 1]
===============================================================================
