-------------------------------- MODULE Gateway --------------------------------
(***************************************************************************)
(* The write routes of the api process, composed: what a client of         *)
(*                                                                         *)
(*   POST /orders                        gateway.HTTP over the in-process  *)
(*                                       adapter and PlaceOrderTx          *)
(*   POST /debug/orders/:approach        "pessimistic" and "conditional"   *)
(*   POST /debug/orders/async-ledger     Redis, the ledger and Kafka       *)
(*   POST /debug/deduct/warm/:id         WarmStock                         *)
(*   GET  /orders/requests/:requestID    the lookup of an order            *)
(*                                                                         *)
(* is told, and what became of its order.  The routes of orders are behind *)
(* overloadGate.  MySQL is OrderStore, which OrderTx and, beside it, the   *)
(* conditional UPDATE of DeductPaths implement: a placement is one of its  *)
(* steps.  The other approaches are safe only alone (DeductPaths).  The    *)
(* ledger and its reconciler are LedgerFlow, the consumer OrderConsumer:   *)
(* here they take few steps, so that what they share with the synchronous  *)
(* routes shows.                                                           *)
(*                                                                         *)
(* outcome[c] is how the placement of call c ended, be it by its handler   *)
(* or, for an accepted record, by the consumer; status[c] is what its      *)
(* client was told.                                                        *)
(***************************************************************************)
EXTENDS OrderStore

CONSTANTS Posts,      \* the calls that are made: route, request, product, quantity
          Polled,     \* the requests a client looks up once they are accepted
          Capacity    \* of the admission slots

Approaches == {"pessimistic", "conditional"}
Routes == {"orders", "ledger", "unknown", "warm"} \cup Approaches

Post == [route : Routes, request : Requests, product : Products, quantity : Int]

\* The quantity a handler goes on with: 1 on the debug routes for a body without one.
Goods(b) == IF b.quantity = 0 /\ b.route # "orders" THEN 1 ELSE b.quantity

\* What PlaceOrderTx is given for it.
ArgOf(b) == [request |-> b.request, product |-> b.product,
             qty |-> IF Goods(b) > 0 THEN Goods(b) ELSE 0]

ASSUME GatewayAssumption ==
    /\ IsFiniteSet(Calls)
    /\ Posts \subseteq [Calls -> Post]
    /\ Polled \subseteq Requests
    /\ Capacity \in Nat \ {0}
    /\ Workload = {[c \in Calls |-> ArgOf(w[c])] : w \in Posts}

VARIABLES post,      \* the calls
          redis,     \* seckill:stock:<product>, warmed for the listed products
          warming,   \* the stock a call that warms has read
          topic,     \* the calls whose record is in Kafka
          dead,      \* the calls whose record is in the dead-letter topic
          entered,   \* the requests that have a ledger entry
          open,      \* the calls that made an entry which is pending
          counted,   \* ... and that a reconciler found old and without an order
          step,      \* where each call is in its handler
          status,    \* what its client was told
          seen,      \* the last answer to a lookup, by request
          abandoned, \* history: the calls whose record the consumer went past for good
          acted,     \* history: the calls that wrote to MySQL or took from Redis
          overdrawn  \* history: the units MySQL lost, or Redis got, past the other

ledger == <<entered, open, counted>>
records == <<topic, dead, abandoned>>
redisSide == <<redis, warming, records, ledger>>
http == <<post, step, status, seen>>
history == <<acted, overdrawn>>
vars == <<storeVars, redisSide, http, history>>

Init == /\ StoreInit
        /\ post \in Posts
        /\ arg = [c \in Calls |-> ArgOf(post[c])]
        /\ redis = InitialStock
        /\ warming = [c \in Calls |-> 0]
        /\ topic = {} /\ dead = {} /\ abandoned = {}
        /\ entered = {} /\ open = {} /\ counted = {}
        /\ step = [c \in Calls |-> "arrived"]
        /\ status = [c \in Calls |-> 0]
        /\ seen = [r \in Polled |-> 0]
        /\ acted = {}
        /\ overdrawn = [p \in Listed |-> 0]

P(c) == arg[c].product
Route(c) == post[c].route
Quantity(c) == Goods(post[c])
Goto(c, s) == step' = [step EXCEPT ![c] = s]
Tell(c, code) == /\ Goto(c, "answered")
                 /\ status' = [status EXCEPT ![c] = code]
                 /\ UNCHANGED <<post, seen>>

-------------------------------------------------------------------------------
(***************************************************************************)
(* From an error to a status.                                              *)
(***************************************************************************)

\* Faulty variant: what the adapter does not know it takes for a sold-out product.
PortErrorBroad(how) == IF how \in {"ok", "not_found", "invalid"} THEN how ELSE "insufficient"

\* The errors of the order port; the in-process adapter keeps the class of these.
PortErrors == {"insufficient", "not_found", "invalid"}
PortError(how) == IF how \in PortErrors \cup {"ok"} THEN how ELSE "error"

\* gateway.HTTP.PlaceOrder.
OrdersStatus(e) ==
    IF e = "ok" THEN 200
    ELSE IF e = "insufficient" THEN 409
    ELSE IF e \in PortErrors THEN 400 ELSE 500

\* The conditional UPDATE cannot tell a product that is not there from one sold out.
ApproachError(route, how) ==
    IF route = "conditional" /\ how = "not_found" THEN "insufficient" ELSE how

\* The handlers of the debug routes know only the stock.
DebugStatus(e) == IF e = "ok" THEN 200 ELSE IF e = "insufficient" THEN 409 ELSE 500
LedgerStatus(e) == IF e = "ok" THEN 202 ELSE IF e = "insufficient" THEN 409 ELSE 500

\* No row is "pending", which is not an error.
LookUpStatus(e) == IF e = "ok" THEN 200 ELSE IF e = "not_found" THEN 202 ELSE 500

\* What overloadGate makes of its two refusals (WritePathFailure).
GateStatus(e) == IF e = "rate_limited" THEN 429 ELSE 503

-------------------------------------------------------------------------------
Inside == {c \in Calls : step[c] \in {"inside", "deducted"}}

\* overloadGate: a token, then a slot, before the handler and all it does.
TurnAway(c) ==
    /\ step[c] = "arrived" /\ Route(c) # "warm"
    /\ \E e \in {"rate_limited", "full"} : Tell(c, GateStatus(e))
    /\ UNCHANGED <<storeVars, redisSide, history>>

Enter(c) ==
    /\ step[c] = "arrived" /\ Route(c) # "warm"
    /\ Cardinality(Inside) < Capacity
    /\ Goto(c, "inside")
    /\ UNCHANGED <<storeVars, redisSide, post, status, seen, history>>

\* The body does not bind (a missing quantity stands for all of it), the approach
\* is unknown, or a request id has to be made and NextID refuses.
Reject(c) ==
    /\ step[c] = "inside"
    /\ \/ Route(c) = "orders" /\ post[c].quantity = 0 /\ Tell(c, 400)
       \/ Route(c) = "unknown" /\ Tell(c, 400)
       \/ Route(c) # "orders" /\ \E code \in {400, 500} : Tell(c, code)
    /\ UNCHANGED <<storeVars, redisSide, history>>

\* A placement is a step of the store.
Placement(c) == PlaceAtomically(c) \/ ReturnExisting(c) \/ Refuse(c)
Placed == orders' # orders

\* What the synchronous routes sell they sell past Redis.
SellPast(c) ==
    /\ acted' = IF Placed THEN acted \cup {c} ELSE acted
    /\ overdrawn' = IF Placed THEN [overdrawn EXCEPT ![P(c)] = @ + arg[c].qty] ELSE overdrawn

PlaceOrder(c) ==
    /\ step[c] = "inside" /\ Route(c) = "orders" /\ post[c].quantity # 0
    /\ Placement(c)
    /\ Tell(c, OrdersStatus(PortError(outcome'[c])))
    /\ SellPast(c)
    /\ UNCHANGED redisSide

\* The conditional UPDATE has no answer for a repeated request but the duplicate key.
PlaceByApproach(c) ==
    /\ step[c] = "inside" /\ Route(c) \in Approaches
    /\ Placement(c)
    /\ Route(c) = "conditional" => Placed \/ outcome'[c] # "ok"
    /\ Tell(c, DebugStatus(ApproachError(Route(c), outcome'[c])))
    /\ SellPast(c)
    /\ UNCHANGED redisSide

-------------------------------------------------------------------------------
(***************************************************************************)
(* The asynchronous route.                                                 *)
(***************************************************************************)
Take(c) == redis' = [redis EXCEPT ![P(c)] = @ - Quantity(c)]
GiveBack(c) == redis' = [redis EXCEPT ![P(c)] = @ + Quantity(c)]

Request(c) == arg[c].request

\* RecordPreDeduct is a SETNX by request: a call that repeats a request makes no
\* entry of its own, and leaves the other's as it is.
MakeEntry(c) ==
    /\ entered' = entered \cup {Request(c)}
    /\ open' = IF Request(c) \in entered THEN open ELSE open \cup {c}

\* preDeductScript, then the ledger entry.  Nothing checks the quantity first: a negative
\* one adds stock.  When the reply of the script or of SETNX is lost, or an error comes
\* before, the call fails and nobody gives its units back but, with an entry, the reconciler.
PreDeduct(c) ==
    /\ step[c] = "inside" /\ Route(c) = "ledger"
    /\ \/ /\ P(c) \in Listed => redis[P(c)] < Quantity(c)
          /\ Tell(c, LedgerStatus("insufficient"))
          /\ UNCHANGED <<redis, ledger, history>>
       \/ /\ P(c) \in Listed
          /\ redis[P(c)] >= Quantity(c)
          /\ Take(c)
          /\ acted' = acted \cup {c}
          /\ overdrawn' = IF Quantity(c) < 0
                          THEN [overdrawn EXCEPT ![P(c)] = @ - Quantity(c)] ELSE overdrawn
          /\ counted' = counted
          /\ \/ /\ Goto(c, "deducted")
                /\ MakeEntry(c)
                /\ UNCHANGED <<post, status, seen>>
             \/ Tell(c, 500) /\ (MakeEntry(c) \/ UNCHANGED <<entered, open>>)
    /\ UNCHANGED <<storeVars, warming, records>>

Accept(c) == /\ topic' = topic \cup {c}
             /\ Tell(c, LedgerStatus("ok"))
             /\ UNCHANGED <<redis, open, counted, overdrawn>>

\* Faulty variant: a crash that was simulated "cleans up" and leaves its entry pending.
EnqueueTidy(c) ==
    /\ step[c] = "deducted"
    /\ \/ Accept(c)
       \/ Tell(c, 500) /\ GiveBack(c) /\ UNCHANGED <<topic, open, counted, overdrawn>>
    /\ UNCHANGED <<storeVars, warming, dead, abandoned, entered, acted>>

\* The rest of EnqueueWithLedger: accepted, or failed.  A failed ProduceSync may have
\* written the record, the rollback may fail, which is ignored, and so may the closing of
\* the entry that the request has, whichever call made it; at a crash, simulated or real,
\* the rest of this does not happen.
Enqueue(c) ==
    /\ step[c] = "deducted"
    /\ \/ Accept(c)
       \/ /\ Tell(c, 500)
          /\ \E written, back, stays \in BOOLEAN :
               /\ topic' = IF written THEN topic \cup {c} ELSE topic
               /\ IF back THEN GiveBack(c) ELSE UNCHANGED redis
               /\ open' = IF stays THEN open ELSE {d \in open : Request(d) # Request(c)}
               /\ counted' = counted \cap open'
               /\ overdrawn' = IF back /\ (written \/ c \in open')
                               THEN [overdrawn EXCEPT ![P(c)] = @ + arg[c].qty] ELSE overdrawn
    /\ UNCHANGED <<storeVars, warming, dead, abandoned, entered, acted>>

HasOrder(r) == \E o \in orders : o.request = r

-------------------------------------------------------------------------------
(***************************************************************************)
(* The consumer and the reconciler.                                        *)
(***************************************************************************)

\* Faulty variant: a record that cannot be placed stays where it is.
ConsumePlaceable(c) ==
    /\ c \in topic
    /\ Placement(c) /\ outcome'[c] = "ok"
    /\ topic' = topic \ {c}
    /\ acted' = IF Placed THEN acted \cup {c} ELSE acted
    /\ UNCHANGED <<redis, warming, dead, abandoned, ledger, http, overdrawn>>

\* ProcessWithRetry around PlaceRecord: placed, or dead-lettered, or neither, when the
\* order may be there and its answer was lost and so is the dead letter.
Consume(c) ==
    /\ c \in topic
    /\ Placement(c)
    /\ topic' = topic \ {c}
    /\ \/ outcome'[c] = "ok" /\ UNCHANGED <<dead, abandoned>>
       \/ outcome'[c] # "ok" /\ dead' = dead \cup {c} /\ UNCHANGED abandoned
       \/ outcome'[c] = "error" /\ abandoned' = abandoned \cup {c} /\ UNCHANGED dead
    /\ acted' = IF Placed THEN acted \cup {c} ELSE acted
    /\ UNCHANGED <<redis, warming, ledger, http, overdrawn>>

\* The loop goes past a record without an order: ProcessWithRetry returned an error, with
\* or without a dead letter, or PollBatch dropped the record with an error of its own.  It
\* is read again after a rebalance, unless the next record is committed before.
Skip(c) ==
    /\ c \in topic
    /\ dead' \in {dead, dead \cup {c}}
    /\ \/ UNCHANGED <<topic, abandoned>>
       \/ topic' = topic \ {c} /\ abandoned' = abandoned \cup {c}
    /\ UNCHANGED <<storeVars, redis, warming, ledger, http, history>>

\* ReconcileEntry reads the clock, and counts the orders of the request.  The window
\* is the caller's and may be 0: the call that made the entry may still be at work,
\* its record still in Kafka.
Count(c) ==
    /\ c \in open /\ ~HasOrder(Request(c))
    /\ counted' = counted \cup {c}
    /\ UNCHANGED <<storeVars, redis, warming, records, entered, open, http, history>>

\* settleScript, for an entry that had no order when they were counted and that nobody
\* closed meanwhile: its units go back, unless the quantity is not positive.  When the
\* call is at work, or has a record or by now an order, they are there twice.
Refund(c) ==
    /\ c \in counted
    /\ counted' = counted \ {c}
    /\ open' = open \ {c}
    /\ IF Quantity(c) > 0
         THEN /\ GiveBack(c)
              /\ overdrawn' =
                   IF c \in topic \/ step[c] = "deducted" \/ HasOrder(Request(c))
                     THEN [overdrawn EXCEPT ![P(c)] = @ + Quantity(c)] ELSE overdrawn
         ELSE UNCHANGED <<redis, overdrawn>>
    /\ UNCHANGED <<storeVars, warming, records, entered, http, acted>>

\* An entry whose request has an order is closed and nothing given back.
CloseSold(c) ==
    /\ c \in open /\ HasOrder(Request(c))
    /\ open' = open \ {c} /\ counted' = counted \ {c}
    /\ UNCHANGED <<storeVars, redis, warming, records, entered, http, history>>

Reconcile(c) == Count(c) \/ Refund(c) \/ CloseSold(c)

\* The calls whose units Redis has taken and MySQL has not, and may still take or see given
\* back: in Kafka, on the way there, or pending in the ledger for no order.
Outstanding(p) ==
    {c \in Calls : /\ P(c) = p
                   /\ \/ c \in topic \/ step[c] = "deducted"
                      \/ c \in open /\ ~HasOrder(arg[c].request)}
UnitsOutstanding(p) == UNION {{c} \X (1..Quantity(c)) : c \in Outstanding(p)}

\* POST /debug/deduct/warm/:id: WarmStock reads the stock ...
WarmRead(c) ==
    /\ step[c] = "arrived" /\ Route(c) = "warm"
    /\ \/ /\ P(c) \in Listed
          /\ warming' = [warming EXCEPT ![c] = stock[P(c)]]
          /\ Goto(c, "warming")
          /\ UNCHANGED <<post, status, seen>>
       \/ Tell(c, 500) /\ UNCHANGED warming
    /\ UNCHANGED <<storeVars, redis, records, ledger, history>>

\* ... and sets Redis to it, whatever was accepted or sold meanwhile: "not a
\* concurrent path" (deduct/model.go:51).  The last disjunct is a SET not executed.
WarmWrite(c) ==
    /\ step[c] = "warming"
    /\ \/ /\ redis' = [redis EXCEPT ![P(c)] = warming[c]]
          /\ overdrawn' = [overdrawn EXCEPT ![P(c)] =
                              warming[c] + Cardinality(UnitsOutstanding(P(c))) - stock[P(c)]]
          /\ \E code \in {200, 500} : Tell(c, code)
       \/ Tell(c, 500) /\ UNCHANGED <<redis, overdrawn>>
    /\ UNCHANGED <<storeVars, warming, records, ledger, acted>>

-------------------------------------------------------------------------------
\* What GetOrderByRequestID finds.
Found(r) == {IF HasOrder(r) THEN "ok" ELSE "not_found", "error"}

\* A client that was told 202 asks for its order.
LookUp(r) ==
    /\ \E c \in Calls : status[c] = 202 /\ arg[c].request = r
    /\ \E e \in Found(r) : seen' = [seen EXCEPT ![r] = LookUpStatus(e)]
    /\ UNCHANGED <<storeVars, redisSide, post, step, status, history>>

Serve(c) == \/ TurnAway(c) \/ Enter(c) \/ Reject(c) \/ PlaceOrder(c)
            \/ PlaceByApproach(c) \/ PreDeduct(c) \/ Enqueue(c)
            \/ WarmRead(c) \/ WarmWrite(c)

Next == \/ \E c \in Calls : Serve(c) \/ Consume(c) \/ Skip(c) \/ Reconcile(c)
        \/ \E r \in Polled : LookUp(r)

Spec == Init /\ [][Next]_vars

(***************************************************************************)
(* Handlers return and the consumer works through its partition; a client  *)
(* that wants to know its order asks again.                                *)
(***************************************************************************)
FairSpec ==
    /\ Spec
    /\ \A c \in Calls : WF_vars(Serve(c)) /\ WF_vars(Consume(c))
    /\ \A r \in Polled : WF_vars(LookUp(r))

-------------------------------------------------------------------------------
\* The shape of the state.  Only the rollback of a negative quantity, which takes units
\* that others have taken since, brings Redis below zero.
TypeOK ==
    /\ redis \in [Listed -> Int]
    /\ (\E p \in Listed : redis[p] < 0) => \E c \in Calls : Quantity(c) < 0
    /\ warming \in [Calls -> Nat]
    /\ topic \subseteq Calls /\ dead \subseteq Calls /\ abandoned \subseteq Calls
    /\ entered \subseteq Requests /\ open \subseteq Calls /\ counted \subseteq open
    /\ step \in [Calls -> {"arrived", "inside", "deducted", "warming", "answered"}]
    /\ status \in [Calls -> {0, 200, 202, 400, 409, 429, 500, 503}]
    /\ post \in Posts
    /\ seen \in [Polled -> {0, 200, 202, 500}]
    /\ acted \subseteq Calls
    /\ overdrawn \in [Listed -> Nat]

\* What a client is told is so, on every route and whatever was lost below it: 200
\* comes with a stored order of its own request, 202 with a record that is in Kafka until
\* the consumer handled it or went past it for good, and a call that was refused or
\* turned away has changed neither MySQL nor Redis (cmd/api/main.go:250-251,
\* inprocess/adapter.go:42).
AnswerIsTrue ==
    \A c \in Calls :
        /\ status[c] = 200 /\ Route(c) # "warm" =>
             returned[c] \in orders /\ returned[c].request = arg[c].request
        /\ status[c] = 202 => c \in topic \/ outcome[c] # "pending" \/ c \in abandoned
        /\ status[c] \in {400, 409, 429, 503} => c \notin acted

Inv == TypeOK /\ AnswerIsTrue

\* An order that was accepted is not refused by MySQL: what Redis offers and what it
\* has taken MySQL has, but for what was sold past Redis, or put into it by warming, by
\* negative quantities, by rollbacks of records that were written or of entries left
\* open, and by refunds of calls still on their way (prededuct.go:77, p1_async.go:42).
\* overdrawn counts each of these once, and no others.
AcceptedIsBacked ==
    \A p \in Listed :
        redis[p] + Cardinality(UnitsOutstanding(p)) <= stock[p] + overdrawn[p]

\* A client that was told 202 and asks for its order gets it in the end, and is never
\* told again that it is pending, unless its record went to the dead-letter topic or
\* the consumer went past it with an error.
PollingSettles ==
    \A c \in Calls, r \in Polled : (status[c] = 202 /\ arg[c].request = r) ~>
        \/ c \in dead \cup abandoned
        \/ [](seen[r] \in {200, 500})
===============================================================================
