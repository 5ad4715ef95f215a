----------------------------- MODULE GatewayProofs -----------------------------
(***************************************************************************)
(* What the write routes tell their clients is true, and what they accept  *)
(* MySQL can deliver, for every set of calls, requests and products, every *)
(* stock, and whatever is lost, crashes or is warmed again on the way.     *)
(*                                                                         *)
(* A step moves the books of one product and the place of one call.  What  *)
(* a call took from Redis it holds (UnitsOutstanding) until it is placed,  *)
(* given back or lost; whatever else puts Redis ahead of MySQL is counted  *)
(* in overdrawn.  Course says how far a call that is still at work can     *)
(* have got, and with it that no answer comes before its reason.           *)
(***************************************************************************)
EXTENDS Gateway, UnitCounting, TLAPS

\* The tables, and the arguments, which are those of the calls.
Tables ==
    /\ post \in Posts
    /\ arg = [c \in Calls |-> ArgOf(post[c])]
    /\ stock \in [Listed -> Nat]
    /\ outcome \in [Calls -> Outcomes]
    /\ DOMAIN returned = Calls

\* The rest of the state.
Shapes ==
    /\ redis \in [Listed -> Int]
    /\ (\E p \in Listed : redis[p] < 0) => \E c \in Calls : Quantity(c) < 0
    /\ warming \in [Calls -> Nat]
    /\ topic \subseteq Calls /\ dead \subseteq Calls /\ abandoned \subseteq Calls
    /\ entered \subseteq Requests /\ open \subseteq Calls /\ counted \subseteq open
    /\ step \in [Calls -> {"arrived", "inside", "deducted", "warming", "answered"}]
    /\ status \in [Calls -> {0, 200, 202, 400, 409, 429, 500, 503}]
    /\ seen \in [Polled -> {0, 200, 202, 500}]
    /\ acted \subseteq Calls
    /\ overdrawn \in [Listed -> Nat]

\* Where a call has got to tells what it may have done.
Course(c) ==
    /\ step[c] # "answered" => status[c] = 0
    /\ step[c] \in {"arrived", "inside", "warming"} => c \notin acted
    /\ step[c] = "warming" =>
         Route(c) = "warm" /\ P(c) \in Listed /\ warming[c] >= stock[P(c)]
    /\ c \in topic => step[c] = "answered" /\ status[c] \in {202, 500}
    /\ status[c] = 200 /\ Route(c) # "warm" => outcome[c] # "pending"

\* What AnswerIsTrue says of one call.
Told(c) ==
    /\ status[c] = 200 /\ Route(c) # "warm" =>
         returned[c] \in orders /\ returned[c].request = arg[c].request
    /\ status[c] = 202 => c \in topic \/ outcome[c] # "pending" \/ c \in abandoned
    /\ status[c] \in {400, 409, 429, 503} => c \notin acted

IndInv ==
    /\ Tables /\ Shapes
    /\ \A c \in Calls : Course(c) /\ Told(c)
    /\ AcceptedIsBacked

-------------------------------------------------------------------------------
(***************************************************************************)
(* The arguments of the calls, and the units they stand for.               *)
(***************************************************************************)
LEMMA CallsAreTyped ==
    ASSUME Tables, NEW c \in Calls
    PROVE  /\ arg[c].request = post[c].request /\ P(c) = post[c].product
           /\ Request(c) \in Requests
           /\ P(c) \in Products
           /\ Quantity(c) \in Int /\ Route(c) \in Routes
           /\ arg[c].qty \in Nat
           /\ arg[c].qty = IF Quantity(c) > 0 THEN Quantity(c) ELSE 0
<1>1. post \in [Calls -> Post]
  BY GatewayAssumption DEF Tables
<1>2. /\ post[c].product \in Products /\ post[c].quantity \in Int /\ post[c].route \in Routes
      /\ post[c].request \in Requests
  BY <1>1 DEF Post
<1>3. arg[c] = ArgOf(post[c])
  BY DEF Tables
<1>4. Quantity(c) \in Int
  BY <1>2 DEF Quantity, Goods
<1>5. /\ arg[c].request = post[c].request /\ arg[c].product = post[c].product
      /\ arg[c].qty = IF Quantity(c) > 0 THEN Quantity(c) ELSE 0
  BY <1>3 DEF ArgOf, Quantity
<1> QED BY <1>2, <1>4, <1>5 DEF P, Route, Request

Units(C) == UNION {{c} \X (1..Quantity(c)) : c \in C}

\* How the units of a set of calls change with the set.
LEMMA UnitsCount ==
    ASSUME Tables, NEW A \in SUBSET Calls, NEW B \in SUBSET Calls, NEW c \in Calls
    PROVE  /\ Cardinality(Units(A)) \in Nat /\ Cardinality(Units(B)) \in Nat
           /\ A \subseteq B => Cardinality(Units(A)) <= Cardinality(Units(B))
           /\ A \subseteq B \cup {c} =>
                Cardinality(Units(A)) <= Cardinality(Units(B)) + arg[c].qty
           /\ A \cup {c} \subseteq B /\ c \notin A =>
                Cardinality(Units(A)) + arg[c].qty <= Cardinality(Units(B))
<1> DEFINE f == [d \in Calls |-> arg[d].qty]
<1>1. f \in [Calls -> Nat] /\ f[c] = arg[c].qty
  BY CallsAreTyped
<1>2. \A d \in Calls : 1..f[d] = 1..Quantity(d)
  BY CallsAreTyped
<1>3. \A S \in SUBSET Calls : Units(S) = Cells(S, f)
  BY <1>2 DEF Units, Cells
<1> HIDE DEF f
<1>4. IsFiniteSet(Calls)
  BY GatewayAssumption
<1>5. A \subseteq B => Cardinality(Cells(A, f)) <= Cardinality(Cells(B, f))
  BY <1>1, <1>4, CellsGrow
<1>6. Cardinality(Cells(A, f)) \in Nat /\ Cardinality(Cells(B, f)) \in Nat
  BY <1>1, <1>4, CellsAreFinite
<1>7. /\ A \subseteq B \cup {c} =>
           Cardinality(Cells(A, f)) <= Cardinality(Cells(B, f)) + f[c]
      /\ A \cup {c} \subseteq B /\ c \notin A =>
           Cardinality(Cells(A, f)) + f[c] <= Cardinality(Cells(B, f))
  BY <1>1, <1>4, CellsCount
<1> QED BY <1>1, <1>3, <1>5, <1>6, <1>7

\* The units that are outstanding, before a step and after it.
LEMMA OutstandingUnits ==
    ASSUME Tables, post' = post, NEW p
    PROVE  /\ Outstanding(p) \in SUBSET Calls /\ Outstanding(p)' \in SUBSET Calls
           /\ UnitsOutstanding(p) = Units(Outstanding(p))
           /\ UnitsOutstanding(p)' = Units(Outstanding(p)')
<1>1. \A c \in Calls : Quantity(c)' = Quantity(c)
  BY DEF Quantity
<1>2. Outstanding(p) \in SUBSET Calls /\ Outstanding(p)' \in SUBSET Calls
  BY DEF Outstanding
<1>3. UnitsOutstanding(p)' = UNION {{c} \X (1..Quantity(c)') : c \in Outstanding(p)'}
  BY DEF UnitsOutstanding
<1>4. UnitsOutstanding(p)' = Units(Outstanding(p)')
  BY <1>1, <1>2, <1>3 DEF Units
<1> QED BY <1>2, <1>4 DEF UnitsOutstanding, Units

\* The three ways in which a step of a call c leaves a product backed: nothing new is
\* outstanding and Redis gains on MySQL nothing; the units of c are new and Redis lost
\* as many; or they are gone, and Redis gained no more.
Gain(p) == (redis'[p] - stock'[p] - overdrawn'[p]) - (redis[p] - stock[p] - overdrawn[p])

LEMMA StaysBacked ==
    ASSUME Tables, Shapes, AcceptedIsBacked, post' = post, NEW c \in Calls, NEW p \in Listed,
           redis'[p] \in Int, stock'[p] \in Int, overdrawn'[p] \in Int,
           \/ Outstanding(p)' \subseteq Outstanding(p) /\ Gain(p) <= 0
           \/ Outstanding(p)' \subseteq Outstanding(p) \cup {c} /\ Gain(p) <= 0 - arg[c].qty
           \/ /\ Outstanding(p)' \cup {c} \subseteq Outstanding(p) /\ c \notin Outstanding(p)'
              /\ Gain(p) <= arg[c].qty
    PROVE  redis'[p] + Cardinality(UnitsOutstanding(p)') <= stock'[p] + overdrawn'[p]
<1> DEFINE m == Cardinality(UnitsOutstanding(p))
           n == Cardinality(UnitsOutstanding(p)')
<1>1. /\ m \in Nat /\ n \in Nat /\ arg[c].qty \in Nat
      /\ Outstanding(p)' \subseteq Outstanding(p) => n <= m
      /\ Outstanding(p)' \subseteq Outstanding(p) \cup {c} => n <= m + arg[c].qty
      /\ Outstanding(p)' \cup {c} \subseteq Outstanding(p) /\ c \notin Outstanding(p)' =>
           n + arg[c].qty <= m
  BY OutstandingUnits, UnitsCount, CallsAreTyped
<1>2. redis[p] + m <= stock[p] + overdrawn[p]
  BY DEF AcceptedIsBacked
<1>3. redis[p] \in Int /\ stock[p] \in Int /\ overdrawn[p] \in Int
  BY DEF Tables, Shapes
<1> HIDE DEF m, n
<1>4. \/ n <= m /\ Gain(p) <= 0
      \/ n <= m + arg[c].qty /\ Gain(p) <= 0 - arg[c].qty
      \/ n + arg[c].qty <= m /\ Gain(p) <= arg[c].qty
  BY <1>1
<1>5. redis'[p] + n <= stock'[p] + overdrawn'[p]
  BY <1>1, <1>2, <1>3, <1>4 DEF Gain
<1> QED BY <1>5 DEF n

-------------------------------------------------------------------------------
(***************************************************************************)
(* What a step leaves alone.                                               *)
(***************************************************************************)
Acts(c) == Serve(c) \/ Consume(c) \/ Skip(c) \/ Reconcile(c)

\* What a placement does, however it ends.
LEMMA PlacementActs ==
    ASSUME Tables, NEW c \in Calls, Placement(c)
    PROVE  /\ arg' = arg /\ orders \subseteq orders'
           /\ outcome[c] = "pending"
           /\ outcome' \in [Calls -> Outcomes] /\ DOMAIN returned' = Calls
           /\ outcome'[c] \in {"ok", "invalid", "not_found", "insufficient", "error"}
           /\ \A d \in Calls \ {c} : outcome'[d] = outcome[d] /\ returned'[d] = returned[d]
           /\ outcome'[c] = "ok" =>
                returned'[c] \in orders' /\ returned'[c].request = arg[c].request
           /\ ~Placed => stock' = stock
           /\ Placed => /\ P(c) \in Listed /\ stock[P(c)] >= arg[c].qty
                        /\ stock' = [stock EXCEPT ![P(c)] = @ - arg[c].qty]
                        /\ outcome'[c] \in {"ok", "error"}
                        /\ \E o \in orders' : o.request = arg[c].request
<1>1. \A how \in Outcomes : \A o : Answer(c, how, o) =>
          /\ outcome[c] = "pending" /\ outcome' \in [Calls -> Outcomes] /\ DOMAIN returned' = Calls
          /\ outcome'[c] = how /\ returned'[c] = o
          /\ \A d \in Calls \ {c} : outcome'[d] = outcome[d] /\ returned'[d] = returned[d]
  BY DEF Answer, Tables
<1>2. {"ok", "invalid", "not_found", "insufficient", "error"} \subseteq Outcomes
  BY DEF Outcomes
<1>3. CASE PlaceAtomically(c)
  <2>1. PICK i \in OrderIDs : /\ orders' = orders \cup {Row(c, i)}
                              /\ \/ Answer(c, "ok", Row(c, i))
                                 \/ Answer(c, "error", NoOrder)
    BY <1>3 DEF PlaceAtomically
  <2>2. Row(c, i).request = arg[c].request
    BY DEF Row
  <2>3. \E o \in orders' : o.request = arg[c].request
    BY <2>1, <2>2
  <2>4. Placed
    BY <1>3 DEF PlaceAtomically, Placed, SameKey
  <2> QED BY <1>1, <1>2, <1>3, <2>1, <2>2, <2>3, <2>4 DEF PlaceAtomically, P
<1>4. CASE ReturnExisting(c)
  <2>1. PICK o \in orders : o.request = arg[c].request /\ Answer(c, "ok", o)
    BY <1>4 DEF ReturnExisting
  <2> QED BY <1>1, <1>2, <1>4, <2>1 DEF ReturnExisting, Placed
<1>5. CASE Refuse(c)
  <2>1. PICK how \in {"invalid", "not_found", "insufficient", "error"} : Answer(c, how, NoOrder)
    BY <1>5 DEF Refuse
  <2> QED BY <1>1, <1>2, <1>5, <2>1 DEF Refuse, Placed
<1> QED BY <1>3, <1>4, <1>5 DEF Placement

\* A placement takes from the stock at most what it has.
LEMMA PlacementStock ==
    ASSUME Tables, NEW c \in Calls, Placement(c)
    PROVE  /\ stock' \in [Listed -> Nat]
           /\ \A p \in Listed : /\ stock'[p] <= stock[p]
                                /\ p # P(c) => stock'[p] = stock[p]
                                /\ Placed /\ p = P(c) => stock'[p] = stock[p] - arg[c].qty
<1>1. arg[c].qty \in Nat /\ stock \in [Listed -> Nat]
  BY CallsAreTyped DEF Tables
<1>2. CASE Placed
  <2>1. /\ P(c) \in Listed /\ stock[P(c)] >= arg[c].qty
        /\ stock' = [stock EXCEPT ![P(c)] = @ - arg[c].qty]
    BY <1>2, PlacementActs
  <2> QED BY <1>1, <1>2, <2>1
<1>3. CASE ~Placed
  <2>1. stock' = stock
    BY <1>3, PlacementActs
  <2> QED BY <1>1, <1>3, <2>1
<1> QED BY <1>2, <1>3

\* Every step keeps the tables in shape.
LEMMA TablesKept == ASSUME Tables, NEW c \in Calls, Acts(c) PROVE Tables'
<1>1. CASE UNCHANGED storeVars /\ post' = post
  BY <1>1 DEF storeVars, Tables
<1>2. CASE Placement(c) /\ post' = post
  BY <1>2, PlacementActs, PlacementStock DEF Tables
<1>3. UNCHANGED storeVars \/ Placement(c)
  BY DEF Acts, Serve, TurnAway, Enter, Reject, PlaceOrder, PlaceByApproach, PreDeduct,
         Enqueue, WarmRead, WarmWrite, Consume, Skip, Reconcile, Count, Refund, CloseSold
<1>4. post' = post
  BY DEF Acts, Serve, TurnAway, Enter, Reject, PlaceOrder, PlaceByApproach, PreDeduct,
         Enqueue, Accept, WarmRead, WarmWrite, Consume, Skip, Reconcile, Count, Refund,
         CloseSold, Tell, http
<1> QED BY <1>1, <1>2, <1>3, <1>4

\* A step of a call moves no other call, and the tables only grow in orders.
LEMMA OthersStand ==
    ASSUME Tables, Shapes, NEW c \in Calls, Acts(c)
    PROVE  /\ post' = post /\ arg' = arg /\ seen' = seen /\ orders \subseteq orders'
           /\ \A p \in Listed : stock'[p] <= stock[p]
           /\ \A d \in Calls \ {c} :
                /\ step'[d] = step[d] /\ status'[d] = status[d] /\ warming'[d] = warming[d]
                /\ outcome'[d] = outcome[d] /\ returned'[d] = returned[d]
                /\ (d \in topic' <=> d \in topic) /\ (d \in open' => d \in open)
                /\ (d \in acted' <=> d \in acted) /\ (d \in abandoned => d \in abandoned')
<1> USE DEF Shapes, Goto, Tell
<1>0. stock' = stock => \A p \in Listed : stock'[p] <= stock[p]
  BY DEF Tables
<1>1. CASE TurnAway(c) \/ Enter(c) \/ Reject(c)
  BY <1>0, <1>1 DEF TurnAway, Enter, Reject, storeVars, redisSide, records, ledger, history
<1>2. CASE PlaceOrder(c) \/ PlaceByApproach(c)
  <2>1. Placement(c) /\ SellPast(c) /\ UNCHANGED redisSide
    BY <1>2 DEF PlaceOrder, PlaceByApproach
  <2>2. step' = [step EXCEPT ![c] = "answered"] /\ UNCHANGED <<post, seen>>
        /\ \E code : status' = [status EXCEPT ![c] = code]
    BY <1>2 DEF PlaceOrder, PlaceByApproach
  <2> QED BY <2>1, <2>2, PlacementActs, PlacementStock DEF SellPast, redisSide, records, ledger
<1>3. CASE PreDeduct(c)
  BY <1>0, <1>3 DEF PreDeduct, MakeEntry, Take, storeVars, records, ledger, history
<1>4. CASE Enqueue(c)
  BY <1>0, <1>4 DEF Enqueue, Accept, storeVars
<1>5. CASE WarmRead(c) \/ WarmWrite(c)
  BY <1>0, <1>5 DEF WarmRead, WarmWrite, storeVars, records, ledger, history
<1>6. CASE Consume(c)
  BY <1>6, PlacementActs, PlacementStock DEF Consume, ledger, http
<1>7. CASE Reconcile(c)
  BY <1>0, <1>7 DEF Reconcile, Count, Refund, CloseSold, storeVars, records, http, history
<1>8. CASE Skip(c)
  BY <1>0, <1>8 DEF Skip, storeVars, ledger, http, history
<1> QED BY <1>1, <1>2, <1>3, <1>4, <1>5, <1>6, <1>7, <1>8 DEF Acts, Serve

\* So it neither changes what may be said of them ...
LEMMA OthersKeep ==
    ASSUME IndInv, NEW c \in Calls, Acts(c), NEW d \in Calls, d # c
    PROVE  Course(d)' /\ Told(d)'
<1>1. Course(d) /\ Told(d) /\ Tables /\ Shapes
  BY DEF IndInv
<1>2. /\ post' = post /\ arg' = arg /\ orders \subseteq orders'
      /\ \A p \in Listed : stock'[p] <= stock[p]
      /\ step'[d] = step[d] /\ status'[d] = status[d] /\ warming'[d] = warming[d]
      /\ outcome'[d] = outcome[d] /\ returned'[d] = returned[d]
      /\ (d \in topic' <=> d \in topic) /\ (d \in acted' <=> d \in acted)
      /\ (d \in abandoned => d \in abandoned')
  BY <1>1, OthersStand
<1>3. P(d)' = P(d) /\ Route(d)' = Route(d)
  BY <1>2 DEF P, Route
<1>4. Told(d)'
  BY <1>1, <1>2, <1>3 DEF Told
<1>5. step'[d] = "warming" => warming'[d] >= stock'[P(d)]
  <2>1. SUFFICES ASSUME step'[d] = "warming" PROVE warming'[d] >= stock'[P(d)]
    OBVIOUS
  <2>2. P(d) \in Listed /\ warming[d] >= stock[P(d)]
    BY <1>1, <1>2, <2>1 DEF Course
  <2>3. stock[P(d)] \in Nat /\ warming[d] \in Nat
    BY <1>1, <2>2 DEF Tables, Shapes
  <2>4. stock'[P(d)] <= stock[P(d)] /\ stock'[P(d)] \in Nat
    BY <1>1, <1>2, <2>2, TablesKept DEF Tables
  <2> QED BY <1>2, <2>2, <2>3, <2>4
<1>6. Course(d)'
  BY <1>1, <1>2, <1>3, <1>5 DEF Course
<1> QED BY <1>4, <1>6

\* ... nor what they have outstanding.
LEMMA OthersOutstanding ==
    ASSUME Tables, Shapes, NEW c \in Calls, Acts(c), NEW p
    PROVE  Outstanding(p)' \subseteq Outstanding(p) \cup {c}
<1> SUFFICES ASSUME NEW d \in Calls, d # c, d \in Outstanding(p)' PROVE d \in Outstanding(p)
  BY DEF Outstanding
<1>1. /\ arg' = arg /\ orders \subseteq orders' /\ step'[d] = step[d]
      /\ (d \in topic' <=> d \in topic) /\ (d \in open' => d \in open)
  BY OthersStand
<1>2. HasOrder(arg[d].request) => HasOrder(arg[d].request)'
  BY <1>1 DEF HasOrder
<1> QED BY <1>1, <1>2 DEF Outstanding, P

-------------------------------------------------------------------------------
(***************************************************************************)
(* The shape of the state.                                                 *)
(***************************************************************************)
Codes == {200, 202, 400, 409, 429, 500, 503}

\* Every status comes from one of the tables.
LEMMA StatusesAreCodes ==
    /\ \A e : OrdersStatus(e) \in {200, 400, 409, 500}
    /\ \A e : DebugStatus(e) \in {200, 409, 500}
    /\ \A e : LookUpStatus(e) \in {200, 202, 500}
    /\ \A e : GateStatus(e) \in {429, 503}
    /\ LedgerStatus("ok") = 202 /\ LedgerStatus("insufficient") = 409
  BY DEF OrdersStatus, DebugStatus, LookUpStatus, GateStatus, LedgerStatus

\* An answer, or a move within the handler.
LEMMA TellKeeps ==
    ASSUME Shapes, NEW c \in Calls
    PROVE  /\ \A code \in Codes : Tell(c, code) =>
                /\ step' \in [Calls -> {"arrived", "inside", "deducted", "warming", "answered"}]
                /\ status' \in [Calls -> {0} \cup Codes]
                /\ step'[c] = "answered" /\ status'[c] = code
           /\ \A s \in {"inside", "deducted", "warming"} : Goto(c, s) =>
                /\ step' \in [Calls -> {"arrived", "inside", "deducted", "warming", "answered"}]
                /\ step'[c] = s
  BY DEF Shapes, Tell, Goto, Codes

\* What every step does to the place of its call and to its answer.
LEMMA PlacesKept ==
    ASSUME Tables, Shapes, NEW c \in Calls, Acts(c)
    PROVE  /\ step' \in [Calls -> {"arrived", "inside", "deducted", "warming", "answered"}]
           /\ status' \in [Calls -> {0, 200, 202, 400, 409, 429, 500, 503}]
           /\ topic' \subseteq Calls /\ dead' \subseteq Calls /\ abandoned' \subseteq Calls
           /\ entered' \subseteq Requests /\ open' \subseteq Calls /\ counted' \subseteq open'
           /\ acted' \subseteq Calls
<1> DEFINE Kept == /\ step' \in [Calls -> {"arrived", "inside", "deducted", "warming", "answered"}]
                   /\ status' \in [Calls -> {0} \cup Codes]
<1>1. /\ \A code \in Codes : Tell(c, code) => Kept
      /\ \A s \in {"inside", "deducted", "warming"} : Goto(c, s) /\ status' = status => Kept
      /\ step' = step /\ status' = status => Kept
  BY TellKeeps DEF Shapes, Codes
<1>2. Kept
  <2> HIDE DEF Kept
  <2>1. CASE TurnAway(c) \/ Enter(c) \/ Reject(c)
    BY <1>1, <2>1, StatusesAreCodes DEF TurnAway, Enter, Reject, Codes
  <2>2. CASE PlaceOrder(c) \/ PlaceByApproach(c)
    BY <1>1, <2>2, StatusesAreCodes DEF PlaceOrder, PlaceByApproach, Codes
  <2>3. CASE PreDeduct(c)
    BY <1>1, <2>3, StatusesAreCodes DEF PreDeduct, Codes
  <2>4. CASE Enqueue(c)
    BY <1>1, <2>4, StatusesAreCodes DEF Enqueue, Accept, Codes
  <2>5. CASE WarmRead(c) \/ WarmWrite(c)
    BY <1>1, <2>5 DEF WarmRead, WarmWrite, Codes
  <2>6. CASE Consume(c) \/ Skip(c) \/ Reconcile(c)
    BY <1>1, <2>6 DEF Consume, Skip, Reconcile, Count, Refund, CloseSold, http
  <2> QED BY <2>1, <2>2, <2>3, <2>4, <2>5, <2>6 DEF Acts, Serve
<1>3. /\ topic' \subseteq Calls /\ dead' \subseteq Calls /\ abandoned' \subseteq Calls
      /\ entered' \subseteq Requests /\ open' \subseteq Calls /\ counted' \subseteq open'
      /\ acted' \subseteq Calls
  <2> USE DEF Shapes, records, ledger
  <2>1. CASE TurnAway(c) \/ Enter(c) \/ Reject(c) \/ WarmRead(c) \/ WarmWrite(c)
    BY <2>1 DEF TurnAway, Enter, Reject, WarmRead, WarmWrite, redisSide, history
  <2>2. CASE PlaceOrder(c) \/ PlaceByApproach(c)
    BY <2>2 DEF PlaceOrder, PlaceByApproach, SellPast, redisSide
  <2>3. CASE PreDeduct(c)
    <3>1. Request(c) \in Requests
      BY CallsAreTyped
    <3> QED BY <2>3, <3>1 DEF PreDeduct, MakeEntry, history
  <2>4. CASE Enqueue(c)
    BY <2>4 DEF Enqueue, Accept
  <2>5. CASE Consume(c)
    BY <2>5 DEF Consume
  <2>6. CASE Reconcile(c)
    BY <2>6 DEF Reconcile, Count, Refund, CloseSold, history
  <2>7. CASE Skip(c)
    BY <2>7 DEF Skip, history
  <2> QED BY <2>1, <2>2, <2>3, <2>4, <2>5, <2>6, <2>7 DEF Acts, Serve
<1> QED BY <1>2, <1>3 DEF Codes

\* The number of units outstanding is a number, before a step and after it.
LEMMA UnitsAreNumbers ==
    ASSUME Tables, NEW p PROVE Cardinality(UnitsOutstanding(p)) \in Nat
<1>1. Outstanding(p) \in SUBSET Calls /\ UnitsOutstanding(p) = Units(Outstanding(p))
  BY DEF Outstanding, UnitsOutstanding, Units
<1>2. CASE Calls = {}
  BY <1>1, <1>2, FS_EmptySet DEF Units
<1>3. CASE Calls # {}
  BY <1>1, <1>3, UnitsCount
<1> QED BY <1>2, <1>3

\* Redis goes below zero only after a negative quantity, and what puts it ahead of MySQL
\* is never counted below zero: a stock that was read before it was set was no smaller.
LEMMA RedisKept ==
    ASSUME Tables, Shapes, NEW c \in Calls, Course(c), Acts(c)
    PROVE  /\ redis' \in [Listed -> Int]
           /\ (\E p \in Listed : redis'[p] < 0) => \E d \in Calls : Quantity(d) < 0
           /\ overdrawn' \in [Listed -> Nat]
           /\ warming' \in [Calls -> Nat]
<1> USE DEF Shapes
<1>q. Quantity(c) \in Int /\ arg[c].qty \in Nat
  BY CallsAreTyped
<1>1. CASE UNCHANGED <<redis, overdrawn, warming>>
  BY <1>1
<1>2. CASE PlaceOrder(c) \/ PlaceByApproach(c)
  <2>1. UNCHANGED <<redis, warming>>
    BY <1>2 DEF PlaceOrder, PlaceByApproach, redisSide
  <2>2. overdrawn' \in [Listed -> Nat]
    BY <1>q, <1>2 DEF PlaceOrder, PlaceByApproach, SellPast
  <2> QED BY <2>1, <2>2
<1>3. CASE PreDeduct(c)
  <2>1. UNCHANGED redis \/ (Take(c) /\ redis[P(c)] >= Quantity(c))
    BY <1>3 DEF PreDeduct
  <2>2. redis' \in [Listed -> Int]
    BY <1>q, <2>1 DEF Take
  <2>3. \A p \in Listed : redis'[p] >= 0 \/ redis'[p] = redis[p]
    BY <1>q, <2>1 DEF Take
  <2>4. overdrawn' \in [Listed -> Nat]
    BY <1>q, <1>3 DEF PreDeduct, history
  <2> QED BY <1>3, <2>2, <2>3, <2>4 DEF PreDeduct
<1>4. CASE Enqueue(c)
  <2>1. UNCHANGED redis \/ GiveBack(c)
    BY <1>4 DEF Enqueue, Accept
  <2>2. redis' \in [Listed -> Int]
    BY <1>q, <2>1 DEF GiveBack
  <2>3. \A p \in Listed : Quantity(c) >= 0 => redis'[p] >= redis[p]
    BY <1>q, <2>1 DEF GiveBack
  <2>4. overdrawn' \in [Listed -> Nat]
    BY <1>q, <1>4 DEF Enqueue, Accept
  <2> QED BY <1>q, <1>4, <2>2, <2>3, <2>4 DEF Enqueue
<1>5. CASE Refund(c)
  <2>1. UNCHANGED redis \/ (GiveBack(c) /\ Quantity(c) > 0)
    BY <1>5, <1>q DEF Refund
  <2>2. redis' \in [Listed -> Int] /\ \A p \in Listed : redis'[p] >= redis[p]
    BY <1>q, <2>1 DEF GiveBack
  <2>3. overdrawn' \in [Listed -> Nat]
    BY <1>q, <1>5 DEF Refund
  <2> QED BY <1>5, <2>2, <2>3 DEF Refund
<1>6. CASE WarmRead(c)
  <2>1. P(c) \in Listed => stock[P(c)] \in Nat
    BY DEF Tables
  <2> QED BY <1>6, <2>1 DEF WarmRead, history
<1>7. CASE WarmWrite(c)
  <2>1. P(c) \in Listed /\ warming[c] \in Nat /\ stock[P(c)] \in Nat /\ warming[c] >= stock[P(c)]
    BY <1>7 DEF WarmWrite, Course, Tables
  <2>2. Cardinality(UnitsOutstanding(P(c))) \in Nat
    BY UnitsAreNumbers
  <2>3. warming[c] + Cardinality(UnitsOutstanding(P(c))) - stock[P(c)] \in Nat
    BY <2>1, <2>2
  <2> QED BY <1>7, <2>1, <2>3 DEF WarmWrite
<1>8. CASE \/ TurnAway(c) \/ Enter(c) \/ Reject(c) \/ Consume(c) \/ Skip(c) \/ Count(c)
           \/ CloseSold(c)
  BY <1>1, <1>8 DEF TurnAway, Enter, Reject, Consume, Skip, Count, CloseSold, redisSide, history
<1> QED BY <1>2, <1>3, <1>4, <1>5, <1>6, <1>7, <1>8 DEF Acts, Serve, Reconcile

LEMMA ShapesKept == ASSUME IndInv, NEW c \in Calls, Acts(c) PROVE Shapes'
<1>1. Tables /\ Shapes /\ Course(c)
  BY DEF IndInv
<1>2. post' = post /\ seen' = seen
  BY <1>1, OthersStand
<1>3. \A d \in Calls : Quantity(d)' = Quantity(d)
  BY <1>2 DEF Quantity
<1> QED BY <1>1, <1>2, <1>3, PlacesKept, RedisKept DEF Shapes

-------------------------------------------------------------------------------
(***************************************************************************)
(* What the call is told.                                                  *)
(***************************************************************************)

\* Until its answer, a call has none.
LEMMA NotToldYet ==
    ASSUME IndInv, NEW c \in Calls, step[c] # "answered"
    PROVE  /\ status[c] = 0 /\ c \notin topic
           /\ step[c] # "deducted" => c \notin acted
  BY DEF IndInv, Shapes, Course

\* A call that goes on within its handler.
LEMMA GoingOn ==
    ASSUME IndInv, NEW c \in Calls, Acts(c), step[c] # "answered",
           NEW s \in {"inside", "deducted", "warming"}, Goto(c, s),
           status' = status, topic' = topic, c \in acted' => s = "deducted" \/ c \in acted,
           step[c] = "deducted" => s = "deducted",
           s = "warming" => /\ Route(c) = "warm" /\ P(c) \in Listed
                            /\ warming'[c] = stock[P(c)] /\ stock' = stock
    PROVE  Course(c)' /\ Told(c)'
<1>1. step'[c] = s
  BY TellKeeps DEF IndInv
<1>2. status'[c] = 0 /\ c \notin topic'
  BY NotToldYet
<1>3. s # "deducted" => c \notin acted'
  BY NotToldYet
<1>4. P(c)' = P(c) /\ Route(c)' = Route(c)
  BY OthersStand DEF IndInv, P, Route
<1>5. s = "warming" => warming'[c] >= stock'[P(c)]
  BY DEF IndInv, Tables
<1> QED BY <1>1, <1>2, <1>3, <1>4, <1>5 DEF Course, Told

\* A call that gets its answer.
LEMMA Answering ==
    ASSUME IndInv, NEW c \in Calls, Acts(c), NEW code \in Codes, Tell(c, code),
           c \in topic' => code \in {202, 500},
           code = 202 => c \in topic',
           code = 200 /\ Route(c) # "warm" =>
               /\ outcome'[c] # "pending"
               /\ returned'[c] \in orders' /\ returned'[c].request = arg[c].request,
           code \in {400, 409, 429, 503} => c \notin acted'
    PROVE  Course(c)' /\ Told(c)'
<1>1. step'[c] = "answered" /\ status'[c] = code /\ code # 0
  BY TellKeeps DEF IndInv, Codes
<1>2. Route(c)' = Route(c) /\ arg' = arg
  BY OthersStand DEF IndInv, Route
<1> QED BY <1>1, <1>2 DEF Course, Told

\* An order that is placed is told to be; an error that is not of its class is a 500.
LEMMA PlacementTold ==
    ASSUME Tables, NEW c \in Calls, Placement(c), NEW code,
           \/ code = OrdersStatus(PortError(outcome'[c]))
           \/ code = DebugStatus(ApproachError(Route(c), outcome'[c]))
    PROVE  /\ code \in Codes /\ code # 202
           /\ code = 200 <=> outcome'[c] = "ok"
           /\ Placed => code \in {200, 500}
<1>1. /\ outcome'[c] \in {"ok", "invalid", "not_found", "insufficient", "error"}
      /\ Placed => outcome'[c] \in {"ok", "error"}
  BY PlacementActs
<1> QED BY <1>1 DEF OrdersStatus, PortError, PortErrors, DebugStatus, ApproachError, Codes

LEMMA CallKeeps == ASSUME IndInv, NEW c \in Calls, Acts(c) PROVE Course(c)' /\ Told(c)'
<1>t. Tables /\ Shapes /\ Course(c) /\ Told(c)
  BY DEF IndInv
<1>1. CASE TurnAway(c) \/ Reject(c)
  <2>1. PICK code \in {400, 429, 500, 503} : Tell(c, code)
    BY <1>1, StatusesAreCodes DEF TurnAway, Reject
  <2>2. step[c] \in {"arrived", "inside"} /\ UNCHANGED <<topic, acted>>
    BY <1>1 DEF TurnAway, Reject, redisSide, records, history
  <2>3. c \notin topic' /\ c \notin acted'
    BY <2>2, NotToldYet
  <2> QED BY <2>1, <2>3, Answering DEF Codes
<1>2. CASE Enter(c)
  BY <1>2, GoingOn DEF Enter, redisSide, records, history
<1>3. CASE PlaceOrder(c) \/ PlaceByApproach(c)
  <2>1. PICK code : /\ Tell(c, code)
                    /\ \/ code = OrdersStatus(PortError(outcome'[c]))
                       \/ code = DebugStatus(ApproachError(Route(c), outcome'[c]))
    BY <1>3 DEF PlaceOrder, PlaceByApproach
  <2>2. Placement(c) /\ SellPast(c) /\ topic' = topic /\ step[c] = "inside"
    BY <1>3 DEF PlaceOrder, PlaceByApproach, redisSide, records
  <2>3. /\ code \in Codes /\ code # 202
        /\ code = 200 <=> outcome'[c] = "ok"
        /\ Placed => code \in {200, 500}
    BY <1>t, <2>1, <2>2, PlacementTold
  <2>4. c \notin topic' /\ c \notin acted
    BY <2>2, NotToldYet
  <2>5. ~Placed => c \notin acted'
    BY <2>2, <2>4 DEF SellPast
  <2>6. outcome'[c] = "ok" => returned'[c] \in orders' /\ returned'[c].request = arg[c].request
    BY <1>t, <2>2, PlacementActs
  <2> QED BY <2>1, <2>3, <2>4, <2>5, <2>6, Answering
<1>4. CASE PreDeduct(c)
  <2>1. step[c] = "inside" /\ topic' = topic
    BY <1>4 DEF PreDeduct, records
  <2>2. c \notin topic' /\ c \notin acted
    BY <2>1, NotToldYet
  <2>3. \/ Tell(c, 409) /\ acted' = acted
        \/ Goto(c, "deducted") /\ status' = status
        \/ Tell(c, 500)
    BY <1>4, StatusesAreCodes DEF PreDeduct, history
  <2> QED BY <2>1, <2>2, <2>3, Answering, GoingOn DEF Codes
<1>5. CASE Enqueue(c)
  <2>1. \/ Tell(c, 202) /\ c \in topic'
        \/ Tell(c, 500)
    BY <1>5, StatusesAreCodes DEF Enqueue, Accept
  <2> QED BY <2>1, Answering DEF Codes
<1>6. CASE WarmRead(c)
  <2>1. /\ step[c] = "arrived" /\ Route(c) = "warm"
        /\ topic' = topic /\ acted' = acted /\ stock' = stock
    BY <1>6 DEF WarmRead, storeVars, records, history
  <2>2. c \notin topic' /\ c \notin acted'
    BY <2>1, NotToldYet
  <2>3. CASE Tell(c, 500)
    BY <2>2, <2>3, Answering DEF Codes
  <2>4. CASE /\ P(c) \in Listed /\ Goto(c, "warming") /\ status' = status
             /\ warming' = [warming EXCEPT ![c] = stock[P(c)]]
    <3>1. warming'[c] = stock[P(c)]
      BY <1>t, <2>4 DEF Shapes
    <3> QED BY <2>1, <2>2, <2>4, <3>1, GoingOn
  <2> QED BY <1>6, <2>3, <2>4 DEF WarmRead
<1>7. CASE WarmWrite(c)
  <2>1. /\ step[c] = "warming" /\ topic' = topic
        /\ \E code \in {200, 500} : Tell(c, code)
    BY <1>7 DEF WarmWrite, records
  <2>2. c \notin topic' /\ Route(c) = "warm"
    BY <1>t, <2>1, NotToldYet DEF Course
  <2> QED BY <2>1, <2>2, Answering DEF Codes
<1>8. CASE Consume(c)
  <2>1. /\ c \in topic /\ c \notin topic' /\ Placement(c)
        /\ step' = step /\ status' = status
    BY <1>8 DEF Consume, http
  <2>2. outcome'[c] # "pending" /\ outcome[c] = "pending"
    BY <1>t, <2>1, PlacementActs
  <2>3. step[c] = "answered" /\ status[c] \in {202, 500}
    BY <1>t, <2>1 DEF Course
  <2> QED BY <2>1, <2>2, <2>3 DEF Course, Told
<1>9. CASE Reconcile(c)
  <2>1. UNCHANGED <<storeVars, topic, abandoned, acted, step, status, warming>>
    BY <1>9 DEF Reconcile, Count, Refund, CloseSold, records, http, history
  <2>2. Route(c)' = Route(c) /\ P(c)' = P(c)
    BY <1>t, OthersStand DEF Route, P
  <2> QED BY <1>t, <2>1, <2>2 DEF Course, Told, storeVars
<1>10. CASE Skip(c)
  <2>1. /\ UNCHANGED <<storeVars, acted, step, status, warming>> /\ c \in topic
        /\ c \in topic' \/ c \in abandoned'
    BY <1>10 DEF Skip, http, history
  <2>2. Route(c)' = Route(c) /\ P(c)' = P(c)
    BY <1>t, OthersStand DEF Route, P
  <2> QED BY <1>t, <2>1, <2>2 DEF Course, Told, storeVars
<1> QED BY <1>1, <1>2, <1>3, <1>4, <1>5, <1>6, <1>7, <1>8, <1>9, <1>10 DEF Acts, Serve

-------------------------------------------------------------------------------
(***************************************************************************)
(* What was accepted is backed.                                            *)
(***************************************************************************)

\* A step that changes neither of the books.
LEMMA BooksStand ==
    ASSUME IndInv, NEW c \in Calls, Acts(c), NEW p \in Listed,
           redis'[p] = redis[p], stock'[p] = stock[p], overdrawn'[p] = overdrawn[p],
           c \in Outstanding(p)' => c \in Outstanding(p)
    PROVE  redis'[p] + Cardinality(UnitsOutstanding(p)') <= stock'[p] + overdrawn'[p]
<1>1. Tables /\ Shapes /\ AcceptedIsBacked /\ post' = post
  BY OthersStand DEF IndInv
<1>2. redis[p] \in Int /\ stock[p] \in Int /\ overdrawn[p] \in Int
  BY <1>1 DEF Tables, Shapes
<1>3. Outstanding(p)' \subseteq Outstanding(p)
  BY <1>1, OthersOutstanding
<1>4. Gain(p) <= 0
  BY <1>2 DEF Gain
<1> QED BY <1>1, <1>2, <1>3, <1>4, StaysBacked

\* What Outstanding says of one call.
LEMMA OutstandingOne ==
    ASSUME NEW c \in Calls, NEW p, arg' = arg
    PROVE  /\ c \in Outstanding(p) <=>
                /\ P(c) = p
                /\ c \in topic \/ step[c] = "deducted" \/ (c \in open /\ ~HasOrder(arg[c].request))
           /\ c \in Outstanding(p)' <=>
                /\ P(c) = p
                /\ c \in topic' \/ step'[c] = "deducted" \/ (c \in open' /\ ~HasOrder(arg[c].request)')
           /\ orders \subseteq orders' /\ HasOrder(arg[c].request) => HasOrder(arg[c].request)'
  BY DEF Outstanding, P, HasOrder

\* What is sold past Redis is counted as far as it is sold.
LEMMA SoldPastBacked ==
    ASSUME IndInv, NEW c \in Calls, Acts(c), PlaceOrder(c) \/ PlaceByApproach(c), NEW p \in Listed
    PROVE  redis'[p] + Cardinality(UnitsOutstanding(p)') <= stock'[p] + overdrawn'[p]
<1>1. /\ Placement(c) /\ SellPast(c) /\ UNCHANGED redisSide /\ step[c] = "inside"
      /\ \E code : Tell(c, code)
  BY DEF PlaceOrder, PlaceByApproach
<1>2. Tables /\ Shapes /\ AcceptedIsBacked /\ post' = post /\ arg' = arg /\ orders \subseteq orders'
  BY OthersStand DEF IndInv
<1>3. /\ redis' = redis /\ topic' = topic /\ open' = open /\ step'[c] = "answered"
  BY <1>1, <1>2 DEF redisSide, records, ledger, Tell, Goto, Shapes
<1>4. Outstanding(p)' \subseteq Outstanding(p)
  BY <1>2, <1>3, OthersOutstanding, OutstandingOne
<1>5. /\ stock[p] \in Int /\ redis[p] \in Int /\ overdrawn[p] \in Int /\ arg[c].qty \in Int
  BY <1>2, CallsAreTyped DEF Tables, Shapes
<1>6. Gain(p) = 0 /\ stock'[p] \in Int /\ overdrawn'[p] \in Int
  <2>1. CASE Placed /\ p = P(c)
    <3>1. stock'[p] = stock[p] - arg[c].qty
      BY <1>1, <1>2, <2>1, PlacementStock
    <3>2. overdrawn'[p] = overdrawn[p] + arg[c].qty
      BY <1>1, <1>2, <2>1 DEF SellPast, Shapes
    <3> QED BY <1>3, <1>5, <3>1, <3>2 DEF Gain
  <2>2. CASE ~(Placed /\ p = P(c))
    <3>1. stock'[p] = stock[p]
      BY <1>1, <1>2, <2>2, PlacementStock, PlacementActs
    <3>2. overdrawn'[p] = overdrawn[p]
      BY <1>1, <1>2, <2>2 DEF SellPast, Shapes
    <3> QED BY <1>3, <1>5, <3>1, <3>2 DEF Gain
  <2> QED BY <2>1, <2>2
<1> QED BY <1>2, <1>3, <1>4, <1>5, <1>6, StaysBacked

\* The deduction: the units leave Redis and are outstanding.
LEMMA PreDeductBacked ==
    ASSUME IndInv, NEW c \in Calls, Acts(c), PreDeduct(c), NEW p \in Listed
    PROVE  redis'[p] + Cardinality(UnitsOutstanding(p)') <= stock'[p] + overdrawn'[p]
<1>1. Tables /\ Shapes /\ AcceptedIsBacked /\ post' = post /\ arg' = arg
  BY OthersStand DEF IndInv
<1>2. /\ step[c] = "inside" /\ UNCHANGED <<stock, orders, topic>>
  BY DEF PreDeduct, storeVars, records
<1>3. /\ stock[p] \in Int /\ redis[p] \in Int /\ overdrawn[p] \in Int
      /\ Quantity(c) \in Int /\ arg[c].qty \in Nat
      /\ arg[c].qty = IF Quantity(c) > 0 THEN Quantity(c) ELSE 0
  BY <1>1, CallsAreTyped DEF Tables, Shapes
<1>4. CASE \E code : Tell(c, code) /\ UNCHANGED <<redis, open, overdrawn>>
  <2>1. step'[c] = "answered"
    BY <1>1, <1>4 DEF Tell, Goto, Shapes
  <2>2. HasOrder(arg[c].request)' = HasOrder(arg[c].request)
    BY <1>1, <1>2 DEF HasOrder
  <2>3. c \in Outstanding(p)' => c \in Outstanding(p)
    BY <1>1, <1>2, <1>4, <2>1, <2>2, OutstandingOne
  <2> QED BY <1>2, <1>4, <2>3, BooksStand
<1>5. CASE /\ Take(c)
           /\ overdrawn' = IF Quantity(c) < 0
                           THEN [overdrawn EXCEPT ![P(c)] = @ - Quantity(c)] ELSE overdrawn
  <2>1. CASE p = P(c)
    <3>1. redis'[p] = redis[p] - Quantity(c)
      BY <1>1, <1>5, <2>1 DEF Take, Shapes
    <3>2. overdrawn'[p] = IF Quantity(c) < 0 THEN overdrawn[p] - Quantity(c) ELSE overdrawn[p]
      BY <1>1, <1>5, <2>1 DEF Shapes
    <3>3. Gain(p) = 0 - arg[c].qty /\ redis'[p] \in Int /\ overdrawn'[p] \in Int
      BY <1>2, <1>3, <3>1, <3>2 DEF Gain
    <3>4. Outstanding(p)' \subseteq Outstanding(p) \cup {c}
      BY <1>1, OthersOutstanding
    <3> QED BY <1>1, <1>2, <1>3, <3>3, <3>4, StaysBacked
  <2>2. CASE p # P(c)
    <3>1. redis'[p] = redis[p] /\ overdrawn'[p] = overdrawn[p]
      BY <1>1, <1>5, <2>2 DEF Take, Shapes
    <3>2. c \notin Outstanding(p)'
      BY <1>1, <2>2, OutstandingOne
    <3> QED BY <1>2, <3>1, <3>2, BooksStand
  <2> QED BY <2>1, <2>2
<1> QED BY <1>4, <1>5 DEF PreDeduct, ledger, history

\* The rest of the route: the units stay outstanding, or go back to Redis, and what may be
\* found in two places after that is counted.
LEMMA EnqueueBacked ==
    ASSUME IndInv, NEW c \in Calls, Acts(c), Enqueue(c), NEW p \in Listed
    PROVE  redis'[p] + Cardinality(UnitsOutstanding(p)') <= stock'[p] + overdrawn'[p]
<1>1. /\ Tables /\ Shapes /\ AcceptedIsBacked /\ post' = post /\ arg' = arg
      /\ orders \subseteq orders'
  BY OthersStand DEF IndInv
<1>2. /\ step[c] = "deducted" /\ UNCHANGED stock /\ c \notin topic
  BY NotToldYet DEF Enqueue, storeVars
<1>3. /\ stock[p] \in Int /\ redis[p] \in Int /\ overdrawn[p] \in Int
      /\ Quantity(c) \in Int /\ arg[c].qty \in Nat
      /\ arg[c].qty = IF Quantity(c) > 0 THEN Quantity(c) ELSE 0
  BY <1>1, CallsAreTyped DEF Tables, Shapes
<1>4. c \in Outstanding(p) <=> P(c) = p
  BY <1>1, <1>2, OutstandingOne
<1>5. c \in Outstanding(p)' => c \in Outstanding(p)
  BY <1>1, <1>4, OutstandingOne
<1>6. CASE UNCHANGED <<redis, overdrawn>>
  BY <1>2, <1>5, <1>6, BooksStand
<1>7. CASE p # P(c)
  <2>1. redis'[p] = redis[p] /\ overdrawn'[p] = overdrawn[p]
    BY <1>1, <1>7 DEF Enqueue, Accept, GiveBack, Shapes
  <2> QED BY <1>2, <1>5, <2>1, BooksStand
<1>8. ASSUME p = P(c), NEW written \in BOOLEAN, GiveBack(c),
             \E code : Tell(c, code),
             topic' = IF written THEN topic \cup {c} ELSE topic,
             overdrawn' = IF written \/ c \in open'
                          THEN [overdrawn EXCEPT ![P(c)] = @ + arg[c].qty] ELSE overdrawn
      PROVE  redis'[p] + Cardinality(UnitsOutstanding(p)') <= stock'[p] + overdrawn'[p]
  <2>1. redis'[p] = redis[p] + Quantity(c)
    BY <1>1, <1>8 DEF GiveBack, Shapes
  <2>2. CASE written \/ c \in open'
    <3>1. overdrawn'[p] = overdrawn[p] + arg[c].qty
      BY <1>1, <1>8, <2>2 DEF Shapes
    <3>2. Gain(p) <= 0 /\ redis'[p] \in Int /\ overdrawn'[p] \in Int
      BY <1>2, <1>3, <2>1, <3>1 DEF Gain
    <3>3. Outstanding(p)' \subseteq Outstanding(p)
      BY <1>1, <1>5, OthersOutstanding
    <3> QED BY <1>1, <1>2, <1>3, <3>2, <3>3, StaysBacked
  <2>3. CASE ~written /\ c \notin open'
    <3>1. step'[c] = "answered" /\ topic' = topic /\ c \notin open' /\ overdrawn' = overdrawn
      BY <1>1, <1>8, <2>3 DEF Tell, Goto, Shapes
    <3>2. c \notin Outstanding(p)' /\ c \in Outstanding(p)
      BY <1>1, <1>2, <1>4, <1>8, <3>1, OutstandingOne
    <3>3. Outstanding(p)' \cup {c} \subseteq Outstanding(p)
      BY <1>1, <3>2, OthersOutstanding
    <3>4. Gain(p) <= arg[c].qty /\ redis'[p] \in Int /\ overdrawn'[p] \in Int
      BY <1>2, <1>3, <2>1, <3>1 DEF Gain
    <3> QED BY <1>1, <1>2, <1>3, <3>2, <3>3, <3>4, StaysBacked
  <2> QED BY <2>2, <2>3
<1>9. \/ UNCHANGED <<redis, overdrawn>>
      \/ \E code : Tell(c, code) /\ \E written \in BOOLEAN :
            /\ GiveBack(c)
            /\ topic' = IF written THEN topic \cup {c} ELSE topic
            /\ overdrawn' = IF written \/ c \in open'
                            THEN [overdrawn EXCEPT ![P(c)] = @ + arg[c].qty] ELSE overdrawn
  BY DEF Enqueue, Accept
<1> QED BY <1>6, <1>7, <1>8, <1>9

\* The consumer takes from MySQL what was outstanding.
LEMMA ConsumeBacked ==
    ASSUME IndInv, NEW c \in Calls, Acts(c), Consume(c), NEW p \in Listed
    PROVE  redis'[p] + Cardinality(UnitsOutstanding(p)') <= stock'[p] + overdrawn'[p]
<1>1. /\ Tables /\ Shapes /\ AcceptedIsBacked /\ post' = post /\ arg' = arg
      /\ orders \subseteq orders' /\ Course(c)
  BY OthersStand DEF IndInv
<1>2. /\ c \in topic /\ c \notin topic' /\ Placement(c) /\ UNCHANGED <<redis, open, step, overdrawn>>
  BY DEF Consume, ledger, http
<1>3. /\ stock[p] \in Int /\ redis[p] \in Int /\ overdrawn[p] \in Int /\ arg[c].qty \in Nat
  BY <1>1, CallsAreTyped DEF Tables, Shapes
<1>4. step'[c] = "answered" /\ (c \in Outstanding(p) <=> P(c) = p)
  BY <1>1, <1>2, OutstandingOne DEF Course
<1>5. CASE Placed /\ p = P(c)
  <2>1. stock'[p] = stock[p] - arg[c].qty
    BY <1>1, <1>2, <1>5, PlacementStock
  <2>2. HasOrder(arg[c].request)'
    BY <1>1, <1>2, <1>5, PlacementActs DEF HasOrder
  <2>3. c \notin Outstanding(p)' /\ c \in Outstanding(p)
    BY <1>1, <1>2, <1>4, <1>5, <2>2, OutstandingOne
  <2>4. Outstanding(p)' \cup {c} \subseteq Outstanding(p)
    BY <1>1, <2>3, OthersOutstanding
  <2>5. Gain(p) <= arg[c].qty /\ stock'[p] \in Int
    BY <1>2, <1>3, <2>1 DEF Gain
  <2> QED BY <1>1, <1>2, <1>3, <2>3, <2>4, <2>5, StaysBacked
<1>6. CASE ~(Placed /\ p = P(c))
  <2>1. stock'[p] = stock[p]
    BY <1>1, <1>2, <1>6, PlacementStock, PlacementActs
  <2>2. c \in Outstanding(p)' => c \in Outstanding(p)
    BY <1>1, <1>4, OutstandingOne
  <2> QED BY <1>2, <2>1, <2>2, BooksStand
<1> QED BY <1>5, <1>6

\* A refund gives back what was outstanding in the ledger alone, or it is counted.
LEMMA RefundBacked ==
    ASSUME IndInv, NEW c \in Calls, Acts(c), Refund(c), NEW p \in Listed
    PROVE  redis'[p] + Cardinality(UnitsOutstanding(p)') <= stock'[p] + overdrawn'[p]
<1>1. /\ Tables /\ Shapes /\ AcceptedIsBacked /\ post' = post /\ arg' = arg
      /\ orders \subseteq orders'
  BY OthersStand DEF IndInv
<1>2. /\ c \in open /\ c \notin open' /\ UNCHANGED <<stock, orders, topic, step>>
  BY <1>1 DEF Refund, Shapes, storeVars, records, http
<1>3. /\ stock[p] \in Int /\ redis[p] \in Int /\ overdrawn[p] \in Int
      /\ Quantity(c) \in Int /\ arg[c].qty = IF Quantity(c) > 0 THEN Quantity(c) ELSE 0
  BY <1>1, CallsAreTyped DEF Tables, Shapes
<1>4. HasOrder(arg[c].request)' = HasOrder(arg[c].request)
  BY <1>1, <1>2 DEF HasOrder
<1>5. c \in Outstanding(p)' => c \in Outstanding(p)
  BY <1>1, <1>2, <1>4, OutstandingOne
<1>6. CASE p # P(c) \/ Quantity(c) <= 0
  <2>1. redis'[p] = redis[p] /\ overdrawn'[p] = overdrawn[p]
    BY <1>1, <1>3, <1>6 DEF Refund, GiveBack, Shapes
  <2> QED BY <1>2, <1>5, <2>1, BooksStand
<1>7. CASE p = P(c) /\ Quantity(c) > 0
  <2>1. redis'[p] = redis[p] + Quantity(c)
    BY <1>1, <1>3, <1>7 DEF Refund, GiveBack, Shapes
  <2>2. CASE c \in topic \/ step[c] = "deducted" \/ HasOrder(Request(c))
    <3>1. overdrawn'[p] = overdrawn[p] + Quantity(c)
      BY <1>1, <1>3, <1>7, <2>2 DEF Refund, Shapes
    <3>2. Gain(p) <= 0 /\ redis'[p] \in Int /\ overdrawn'[p] \in Int
      BY <1>2, <1>3, <2>1, <3>1 DEF Gain
    <3>3. Outstanding(p)' \subseteq Outstanding(p)
      BY <1>1, <1>5, OthersOutstanding
    <3> QED BY <1>1, <1>2, <1>3, <3>2, <3>3, StaysBacked
  <2>3. CASE ~(c \in topic \/ step[c] = "deducted" \/ HasOrder(Request(c)))
    <3>1. overdrawn' = overdrawn
      BY <1>3, <1>7, <2>3 DEF Refund
    <3>2. c \notin Outstanding(p)' /\ c \in Outstanding(p)
      BY <1>1, <1>2, <1>7, <2>3, OutstandingOne DEF Request
    <3>3. Outstanding(p)' \cup {c} \subseteq Outstanding(p)
      BY <1>1, <3>2, OthersOutstanding
    <3>4. Gain(p) <= arg[c].qty /\ redis'[p] \in Int /\ overdrawn'[p] \in Int
      BY <1>2, <1>3, <1>7, <2>1, <3>1 DEF Gain
    <3> QED BY <1>1, <1>2, <1>3, <3>2, <3>3, <3>4, StaysBacked
  <2> QED BY <2>2, <2>3
<1> QED BY <1>3, <1>6, <1>7

\* Warming sets Redis, and with it what Redis is ahead by.
LEMMA WarmWriteBacked ==
    ASSUME IndInv, NEW c \in Calls, Acts(c), WarmWrite(c), NEW p \in Listed
    PROVE  redis'[p] + Cardinality(UnitsOutstanding(p)') <= stock'[p] + overdrawn'[p]
<1>1. /\ Tables /\ Shapes /\ AcceptedIsBacked /\ post' = post /\ arg' = arg
      /\ orders \subseteq orders' /\ Course(c)
  BY OthersStand DEF IndInv
<1>2. /\ step[c] = "warming" /\ UNCHANGED <<stock, orders, topic, open>>
      /\ \E code : Tell(c, code)
  BY DEF WarmWrite, storeVars, records, ledger
<1>3. step'[c] = "answered"
  BY <1>1, <1>2 DEF Tell, Goto, Shapes
<1>4. HasOrder(arg[c].request)' = HasOrder(arg[c].request)
  BY <1>1, <1>2 DEF HasOrder
<1>5. c \in Outstanding(p)' => c \in Outstanding(p)
  BY <1>1, <1>2, <1>3, <1>4, OutstandingOne
<1>6. CASE redis'[p] = redis[p] /\ overdrawn'[p] = overdrawn[p]
  BY <1>2, <1>5, <1>6, BooksStand
<1>7. CASE /\ p = P(c)
           /\ redis' = [redis EXCEPT ![P(c)] = warming[c]]
           /\ overdrawn' = [overdrawn EXCEPT ![P(c)] =
                               warming[c] + Cardinality(UnitsOutstanding(P(c))) - stock[P(c)]]
  <2> DEFINE m == Cardinality(UnitsOutstanding(p))
             n == Cardinality(UnitsOutstanding(p)')
  <2>1. redis'[p] = warming[c] /\ overdrawn'[p] = warming[c] + m - stock[p]
    BY <1>1, <1>7 DEF Shapes
  <2>2. warming[c] \in Nat /\ stock[p] \in Nat
    BY <1>1 DEF Shapes, Tables
  <2>3. Outstanding(p)' \subseteq Outstanding(p)
    BY <1>1, <1>5, OthersOutstanding
  <2>4. n <= m /\ m \in Nat /\ n \in Nat
    BY <1>1, <2>3, OutstandingUnits, UnitsCount
  <2> HIDE DEF m, n
  <2>5. redis'[p] + n <= stock'[p] + overdrawn'[p]
    BY <1>2, <2>1, <2>2, <2>4
  <2> QED BY <2>5 DEF n
<1> QED BY <1>1, <1>6, <1>7 DEF WarmWrite, Shapes

LEMMA BackedKept == ASSUME IndInv, NEW c \in Calls, Acts(c) PROVE AcceptedIsBacked'
<1> SUFFICES ASSUME NEW p \in Listed
             PROVE  redis'[p] + Cardinality(UnitsOutstanding(p)') <= stock'[p] + overdrawn'[p]
  BY DEF AcceptedIsBacked
<1>1. CASE TurnAway(c) \/ Enter(c) \/ Reject(c) \/ WarmRead(c)
  <2>1. /\ UNCHANGED <<storeVars, redis, topic, open, overdrawn>>
        /\ step[c] # "deducted"
        /\ (\E code : Tell(c, code)) \/ (\E s \in {"inside", "warming"} : Goto(c, s))
    BY <1>1 DEF TurnAway, Enter, Reject, WarmRead, redisSide, records, ledger, history
  <2>2. arg' = arg /\ step'[c] # "deducted"
    BY <2>1, OthersStand DEF IndInv, Tell, Goto, Shapes
  <2>3. HasOrder(arg[c].request)' = HasOrder(arg[c].request)
    BY <2>1 DEF HasOrder, storeVars
  <2>4. c \in Outstanding(p)' => c \in Outstanding(p)
    BY <2>1, <2>2, <2>3, OutstandingOne
  <2> QED BY <2>1, <2>4, BooksStand DEF storeVars
<1>2. CASE Skip(c) \/ Count(c) \/ CloseSold(c)
  <2>1. /\ UNCHANGED <<storeVars, redis, overdrawn, step>>
        /\ c \in topic' => c \in topic
        /\ c \in open' => c \in open
    BY <1>2 DEF Skip, Count, CloseSold, records, ledger, http, history
  <2>2. arg' = arg /\ HasOrder(arg[c].request)' = HasOrder(arg[c].request)
    BY <2>1 DEF HasOrder, storeVars
  <2>3. c \in Outstanding(p)' => c \in Outstanding(p)
    BY <2>1, <2>2, OutstandingOne
  <2> QED BY <2>1, <2>3, BooksStand DEF storeVars
<1> QED BY <1>1, <1>2, SoldPastBacked, PreDeductBacked, EnqueueBacked, ConsumeBacked, RefundBacked,
           WarmWriteBacked DEF Acts, Serve, Reconcile

-------------------------------------------------------------------------------
LEMMA InitEstablishes == Init => IndInv
<1> SUFFICES ASSUME Init PROVE IndInv
  OBVIOUS
<1>1. Tables
  BY StoreAssumption DEF Init, StoreInit, Tables, Outcomes
<1>2. Shapes
  BY StoreAssumption DEF Init, StoreInit, Shapes
<1>3. \A c \in Calls : Course(c) /\ Told(c)
  BY DEF Init, Course, Told
<1>4. AcceptedIsBacked
  <2> SUFFICES ASSUME NEW p \in Listed
               PROVE  redis[p] + Cardinality(UnitsOutstanding(p)) <= stock[p] + overdrawn[p]
    BY DEF AcceptedIsBacked
  <2>1. UnitsOutstanding(p) = {}
    BY DEF Init, UnitsOutstanding, Outstanding
  <2>2. Cardinality(UnitsOutstanding(p)) = 0
    BY <2>1, FS_EmptySet
  <2>3. redis[p] = stock[p] /\ stock[p] \in Nat /\ overdrawn[p] = 0
    BY <1>1 DEF Init, StoreInit, Tables
  <2> QED BY <2>2, <2>3
<1> QED BY <1>1, <1>2, <1>3, <1>4 DEF IndInv

\* A lookup changes nothing but the answer to it.
LEMMA NothingElseMoves ==
    ASSUME IndInv, UNCHANGED <<storeVars, redisSide, post, step, status, history>>,
           seen' \in [Polled -> {0, 200, 202, 500}]
    PROVE  IndInv'
<1>1. /\ UNCHANGED <<arg, stock, orders, outcome, returned>>
      /\ UNCHANGED <<redis, warming, topic, dead, abandoned, entered, open, counted>>
      /\ UNCHANGED <<post, step, status, acted, overdrawn>>
  BY DEF storeVars, redisSide, records, ledger, history
<1>2. Tables'
  BY <1>1 DEF IndInv, Tables
<1>3. Shapes'
  <2>1. \A c \in Calls : Quantity(c)' = Quantity(c)
    BY <1>1 DEF Quantity
  <2> QED BY <1>1, <2>1 DEF IndInv, Shapes
<1>4. \A c \in Calls : Course(c)' /\ Told(c)'
  BY <1>1 DEF IndInv, Course, Told, P, Route
<1>5. AcceptedIsBacked'
  <2> SUFFICES ASSUME NEW p \in Listed
               PROVE  redis'[p] + Cardinality(UnitsOutstanding(p)') <= stock'[p] + overdrawn'[p]
    BY DEF AcceptedIsBacked
  <2>1. Outstanding(p)' = Outstanding(p)
    BY <1>1 DEF Outstanding, P, HasOrder
  <2>2. UnitsOutstanding(p)' = UnitsOutstanding(p)
    BY <1>1, <2>1, OutstandingUnits DEF IndInv
  <2> QED BY <1>1, <2>2 DEF IndInv, AcceptedIsBacked
<1> QED BY <1>2, <1>3, <1>4, <1>5 DEF IndInv

\* Every reachable state satisfies the inductive invariant.
THEOREM Invariance == Spec => []IndInv
<1>1. IndInv /\ [Next]_vars => IndInv'
  <2> SUFFICES ASSUME IndInv, [Next]_vars PROVE IndInv'
    OBVIOUS
  <2>1. ASSUME NEW c \in Calls, Acts(c) PROVE IndInv'
    <3>1. Tables' /\ Shapes' /\ AcceptedIsBacked'
      BY <2>1, TablesKept, ShapesKept, BackedKept DEF IndInv
    <3>2. ASSUME NEW d \in Calls PROVE Course(d)' /\ Told(d)'
      BY <2>1, CallKeeps, OthersKeep
    <3> QED BY <3>1, <3>2 DEF IndInv
  <2>2. ASSUME NEW r \in Polled, LookUp(r) PROVE IndInv'
    <3>1. seen' \in [Polled -> {0, 200, 202, 500}]
      BY <2>2, StatusesAreCodes DEF LookUp, IndInv, Shapes
    <3> QED BY <2>2, <3>1, NothingElseMoves DEF LookUp
  <2>3. CASE UNCHANGED vars
    <3>1. seen' \in [Polled -> {0, 200, 202, 500}]
      BY <2>3 DEF vars, http, IndInv, Shapes
    <3> QED BY <2>3, <3>1, NothingElseMoves DEF vars, http
  <2> QED BY <2>1, <2>2, <2>3 DEF Next, Acts
<1> QED BY <1>1, InitEstablishes, PTL DEF Spec

\* What a client is told is so, on every route and whatever was lost below it
\* (cmd/api/main.go:250-251, inprocess/adapter.go:42), and Redis goes below zero only
\* after a negative quantity.
THEOREM AnswersAreTrue == Spec => []Inv
<1>1. IndInv => Inv
  BY DEF IndInv, Tables, Shapes, Told, Inv, TypeOK, AnswerIsTrue
<1> QED BY <1>1, Invariance, PTL

\* MySQL has what Redis offers and what it has taken for calls that are still under way,
\* but for what was sold past Redis or put into it (prededuct.go:77, p1_async.go:42).
THEOREM AcceptedCanBePlaced == Spec => []AcceptedIsBacked
<1>1. IndInv => AcceptedIsBacked
  BY DEF IndInv
<1> QED BY <1>1, Invariance, PTL
===============================================================================
