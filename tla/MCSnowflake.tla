----------------------------- MODULE MCSnowflake -----------------------------
(***************************************************************************)
(* A small instance of Snowflake: two ids a millisecond, two processes     *)
(* with two node numbers or one, which may start again, and a clock of     *)
(* three milliseconds that may be set back.                                *)
(***************************************************************************)
EXTENDS Snowflake
=============================================================================
