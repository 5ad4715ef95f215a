------------------------------ MODULE OrderStore ------------------------------
(***************************************************************************)
(* What order.PlaceOrderTx promises its callers: every call behaves as if  *)
(* it ran alone, in one step, against the tables products and orders.      *)
(* OrderTx.tla models the transaction statement by statement and           *)
(* implements StoreSpec.                                                   *)
(*                                                                         *)
(* A call is one execution of PlaceOrderTx.  A caller that retries, or a   *)
(* consumer that sees a Kafka record again, is another call with the same  *)
(* request id.                                                             *)
(***************************************************************************)
EXTENDS Integers, FiniteSets

CONSTANTS Calls,         \* executions of PlaceOrderTx
          Requests,      \* values of request_id
          Products,      \* product ids a caller may name
          OrderIDs,      \* values idgen.Node.NextID may return
          MaxQty,        \* largest quantity a caller asks for
          InitialStock,  \* products.stock before the first call, by product
          Workload,      \* the argument lists the calls may be given
          NoOrder        \* a nil *Order

Listed == DOMAIN InitialStock   \* the products that have a row

\* A quantity of 0 stands for every quantity the code refuses.
Args == [request: Requests, product: Products, qty: 0..MaxQty]

Order == [id: OrderIDs, request: Requests, product: Products, qty: 1..MaxQty]

Outcomes == {"pending", "ok", "invalid", "not_found", "insufficient", "error"}

ASSUME StoreAssumption ==
    /\ MaxQty \in Nat
    /\ Listed \subseteq Products
    /\ InitialStock \in [Listed -> Nat]
    /\ Workload \subseteq [Calls -> Args]
    /\ NoOrder \notin Order

VARIABLES arg,       \* the arguments of each call
          stock,     \* column products.stock
          orders,    \* rows of table orders
          outcome,   \* how each call ended
          returned   \* the *Order each call returned

storeVars == <<arg, stock, orders, outcome, returned>>

StoreInit ==
    /\ arg \in Workload
    /\ stock = InitialStock
    /\ orders = {}
    /\ outcome = [c \in Calls |-> "pending"]
    /\ returned = [c \in Calls |-> NoOrder]

Row(c, i) == [id |-> i, request |-> arg[c].request,
              product |-> arg[c].product, qty |-> arg[c].qty]

\* The unique keys of table orders: PRIMARY KEY (id) and uk_request_id.
SameKey(o1, o2) == o1.id = o2.id \/ o1.request = o2.request

Answer(c, how, o) ==
    /\ outcome[c] = "pending"
    /\ outcome' = [outcome EXCEPT ![c] = how]
    /\ returned' = [returned EXCEPT ![c] = o]

-------------------------------------------------------------------------------
(***************************************************************************)
(* The row is inserted and the stock taken together, or neither is; the    *)
(* caller may be told of an error after a commit whose reply is lost.      *)
(***************************************************************************)
PlaceAtomically(c) ==
    /\ arg[c].qty > 0
    /\ arg[c].product \in Listed
    /\ stock[arg[c].product] >= arg[c].qty
    /\ \E i \in OrderIDs :
         /\ \A o \in orders : ~SameKey(o, Row(c, i))
         /\ orders' = orders \cup {Row(c, i)}
         /\ \/ Answer(c, "ok", Row(c, i))
            \/ Answer(c, "error", NoOrder)
    /\ stock' = [stock EXCEPT ![arg[c].product] = @ - arg[c].qty]
    /\ UNCHANGED arg

\* A repeated request is answered with the order it already has.
ReturnExisting(c) ==
    /\ \E o \in orders : o.request = arg[c].request /\ Answer(c, "ok", o)
    /\ UNCHANGED <<arg, stock, orders>>

\* Every refusal has its reason in the tables and changes nothing.
Refuse(c) ==
    /\ \/ arg[c].qty <= 0 /\ Answer(c, "invalid", NoOrder)
       \/ arg[c].product \notin Listed /\ Answer(c, "not_found", NoOrder)
       \/ /\ arg[c].product \in Listed
          /\ stock[arg[c].product] < arg[c].qty
          /\ Answer(c, "insufficient", NoOrder)
       \/ Answer(c, "error", NoOrder)
    /\ UNCHANGED <<arg, stock, orders>>

StoreNext == \E c \in Calls : PlaceAtomically(c) \/ ReturnExisting(c) \/ Refuse(c)

StoreSpec == StoreInit /\ [][StoreNext]_storeVars
===============================================================================
