---------------------------- MODULE MCDeductPaths ----------------------------
(***************************************************************************)
(* Small instances of DeductPaths: four calls, two of which carry the same *)
(* request, that compete for less stock than they ask for.                 *)
(***************************************************************************)
EXTENDS DeductPaths, TLC

OneDuplicate == "c1" :> "r1" @@ "c2" :> "r1" @@ "c3" :> "r2" @@ "c4" :> "r3"
SomeQty == "r1" :> 1 @@ "r2" :> 2 @@ "r3" :> 1

\* Each approach alone, the lock by three calls, one of them with a watchdog, the two
\* that agree on the row lock mixed, and four that agree on nothing.
Alone == {[c \in Calls |-> a] : a \in {"cas", "lua", "naive"}}
         \cup {[c \in Calls |-> CASE c = "c2" -> "none" [] c = "c3" -> "watched" [] OTHER -> "lock"]}
         \cup [Calls -> {"pessimistic", "conditional"}]
         \cup {"c1" :> "conditional" @@ "c2" :> "naive" @@ "c3" :> "cas" @@ "c4" :> "lua"}
===============================================================================
