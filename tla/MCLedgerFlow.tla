----------------------------- MODULE MCLedgerFlow -----------------------------
(***************************************************************************)
(* A small instance of LedgerFlow: a request with a retry and a request of *)
(* its own, which together ask for more than there is, and two workers.    *)
(***************************************************************************)
EXTENDS LedgerFlow, TLC

\* The first two calls carry one request id; the third is on its own.
RetriedRequest == "c1" :> "r1" @@ "c2" :> "r1" @@ "c3" :> "r2"

TwoQty == "r1" :> 1 @@ "r2" :> 2
===============================================================================
