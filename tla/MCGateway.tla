------------------------------- MODULE MCGateway -------------------------------
(***************************************************************************)
(* Small instances of Gateway: three calls each, that use one or both ways *)
(* to the stock, with a request sent on two routes or twice on one, a      *)
(* demand above the stock, a negative quantity, and what is refused.       *)
(***************************************************************************)
EXTENDS Gateway, TLC

MCInitialStock == "shoe" :> 2

Body(route, r, p, q) == [route |-> route, request |-> r, product |-> p, quantity |-> q]
Three(x, y, z) == "c1" :> x @@ "c2" :> y @@ "c3" :> z

Big == Body("ledger", "r1", "shoe", 2)
Small == Body("ledger", "r2", "shoe", 0)
Sync(route, q) == Body(route, "r1", "shoe", q)

One == Body("ledger", "r1", "shoe", 1)
Hat == Body("ledger", "r3", "hat", 1)

Absent == Body("warm", "r2", "hat", 0)

MCPosts ==
    \* one request on both routes
    {Three(Sync(route, 2), Big, Hat) : route \in {"orders"} \cup Approaches}
    \* a request repeated on the asynchronous route
    \cup {Three(One, One, Absent)}
    \* a negative quantity next to an order for all there is
    \cup {Three(Body("ledger", "r3", "shoe", -1), Big, Absent)}
    \* Redis is warmed again under way, next to both routes
    \cup {Three(Body("warm", "r3", "shoe", 0), Big, Body("conditional", "r2", "shoe", 1))}
    \* what is refused, next to orders
    \cup {Three(b, Hat, Small) :
             b \in {Sync("orders", 0), Sync("unknown", 1), Sync("orders", -1),
                    Body("conditional", "r1", "hat", 1), Body("orders", "r1", "hat", 1),
                    Body("warm", "r1", "hat", 0)}}

MCWorkload == {[c \in Calls |-> ArgOf(w[c])] : w \in MCPosts}
===============================================================================
