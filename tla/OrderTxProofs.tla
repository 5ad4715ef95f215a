----------------------------- MODULE OrderTxProofs -----------------------------
(***************************************************************************)
(* Theorems about OrderTx for every set of calls, every workload and every *)
(* initial stock, and about the generator that its orders have their ids   *)
(* from (Snowflake), for any widths of the fields, any processes with any  *)
(* node numbers and any clock.                                             *)
(*                                                                         *)
(* IndInv is inductive.  The row lock (LockExclusive) is what keeps        *)
(* NoOversell: only the lock's holder commits a change of its product's    *)
(* stock, so what it read still covers its debit.  The freshness of an     *)
(* inserted key (CallsOwnTheirWork) keeps OneOrderPerRequest, and makes a  *)
(* commit add exactly the draft's units to SoldUnits.                      *)
(*                                                                         *)
(* An id is a number in mixed radix, so it grows with its timestamp and    *)
(* then with its sequence number; Behind says that what a process holds is *)
(* ahead of all the ids of its life.                                       *)
(***************************************************************************)
EXTENDS OrderTx, Snowflake, UnitCounting, SequenceTheorems, TLAPS

(***************************************************************************)
(* Counting units.  A committed row adds its quantity to the units of its  *)
(* product and nothing to those of the others.                             *)
(***************************************************************************)

\* The units of a finite table are finitely many.
LEMMA SoldUnitsFinite ==
    ASSUME IsFiniteSet(orders), MaxQty \in Nat, NEW p
    PROVE  IsFiniteSet(SoldUnits(p))
<1>1. IsFiniteSet(orders \X (1..MaxQty))
  <2>1. IsFiniteSet(1..MaxQty)
    BY FS_Interval
  <2> QED
    BY <2>1, FS_Product
<1>2. SoldUnits(p) \in SUBSET (orders \X (1..MaxQty))
  BY DEF SoldUnits
<1> QED
  BY <1>1, <1>2, FS_Subset

\* Inserting a new row o grows the units of its product by o.qty.
LEMMA SoldUnitsGrow ==
    ASSUME IsFiniteSet(orders), MaxQty \in Nat,
           orders \subseteq Order, NEW o \in Order, o \notin orders,
           orders' = orders \cup {o}, NEW p
    PROVE  Cardinality(SoldUnits(p)') =
             Cardinality(SoldUnits(p)) + (IF o.product = p THEN o.qty ELSE 0)
<1>1. o.qty \in 1..MaxQty
  BY DEF Order
<1>2. CASE o.product # p
  <2>1. SoldUnits(p)' = SoldUnits(p)
    BY <1>2 DEF SoldUnits
  <2>2. Cardinality(SoldUnits(p)) \in Nat
    BY SoldUnitsFinite, FS_CardinalityType
  <2> QED
    BY <1>2, <2>1, <2>2
<1>3. CASE o.product = p
  <2> DEFINE New == {o} \X (1..o.qty)
  <2>1. SoldUnits(p)' = SoldUnits(p) \cup New
    BY <1>1, <1>3 DEF SoldUnits
  <2>2. SoldUnits(p) \cap New = {}
    BY DEF SoldUnits
  <2>3. IsFiniteSet(New) /\ Cardinality(New) = o.qty
    <3>1. o.qty \in Nat
      BY <1>1
    <3> QED
      BY <3>1, CellsOfOne
  <2>4. IsFiniteSet(SoldUnits(p)) /\ Cardinality(SoldUnits(p)) \in Nat
    BY SoldUnitsFinite, FS_CardinalityType
  <2>5. Cardinality(SoldUnits(p)') =
          Cardinality(SoldUnits(p)) + Cardinality(New)
            - Cardinality(SoldUnits(p) \cap New)
    BY <2>1, <2>3, <2>4, FS_Union
  <2>6. Cardinality(SoldUnits(p) \cap New) = 0
    BY <2>2, FS_EmptySet
  <2> HIDE DEF New
  <2> QED
    BY <1>1, <1>3, <2>3, <2>4, <2>5, <2>6
<1> QED
  BY <1>2, <1>3

-------------------------------------------------------------------------------
(***************************************************************************)
(* Steps that write neither table.                                         *)
(***************************************************************************)

\* What the invariant says of the tables alone survives.
LEMMA TablesKept ==
    ASSUME IndInv, UNCHANGED <<arg, stock, orders>>
    PROVE  /\ NoOversell' /\ OneOrderPerRequest' /\ StockMatchesOrders'
           /\ IsFiniteSet(orders')
<1>1. NoOversell'
  BY DEF IndInv, NoOversell
<1>2. OneOrderPerRequest'
  BY DEF IndInv, OneOrderPerRequest, SameKey
<1>3. StockMatchesOrders'
  <2>1. \A p \in Listed : SoldUnits(p)' = SoldUnits(p)
    BY DEF SoldUnits
  <2> QED
    BY <2>1 DEF IndInv, StockMatchesOrders
<1> QED
  BY <1>1, <1>2, <1>3 DEF IndInv

\* A call that does not take the row lock leaves LockExclusive as it is.
LEMMA LocksKept ==
    ASSUME IndInv, UNCHANGED <<arg, stock>>, NEW c \in Calls, NEW s,
           Goto(c, s), s \in Locking => step[c] \in Locking
    PROVE  LockExclusive'
BY DEF IndInv, TypeOK, LockExclusive, Goto

\* A call that returns without having written: the early returns and Fail.
LEMMA ReturnKeeps ==
    ASSUME IndInv, UNCHANGED <<arg, stock, orders>>, NEW c \in Calls,
           NEW how \in Outcomes, NEW o \in Order \cup {NoOrder},
           how = "ok" => o \in orders /\ o.request = arg[c].request,
           Return(c, how, o)
    PROVE  IndInv'
<1>1. /\ outcome' = [outcome EXCEPT ![c] = how]
      /\ returned' = [returned EXCEPT ![c] = o]
      /\ step' = [step EXCEPT ![c] = "returned"]
      /\ draft' = [draft EXCEPT ![c] = NoOrder]
      /\ debit' = [debit EXCEPT ![c] = 0]
  BY DEF Return, Answer, Goto
<1>2. TypeOK'
  BY <1>1, StoreAssumption DEF IndInv, TypeOK, Steps
<1>3. CallsOwnTheirWork'
  BY <1>1 DEF IndInv, TypeOK, CallsOwnTheirWork, Inserted, Row, KeyTaken, KeyHeld, SameKey
<1>4. LockExclusive'
  BY <1>1, LocksKept DEF Goto, Locking
<1>5. AnswerIsCommitted'
  BY <1>1 DEF IndInv, TypeOK, AnswerIsCommitted
<1> QED
  BY <1>2, <1>3, <1>4, <1>5, TablesKept DEF IndInv

-------------------------------------------------------------------------------
(***************************************************************************)
(* One lemma per statement of PlaceOrderTx.                                *)
(***************************************************************************)

LEMMA BeginKeeps ==
    ASSUME IndInv, NEW c \in Calls, Begin(c)
    PROVE  IndInv'
<1>1. step[c] = "start" /\ UNCHANGED <<arg, stock, orders>>
  BY DEF Begin
<1>2. CASE Return(c, "invalid", NoOrder)
  BY <1>1, <1>2, ReturnKeeps DEF Outcomes
<1>3. CASE arg[c].qty > 0 /\ Goto(c, "snapshot") /\ UNCHANGED <<outcome, returned, draft, debit>>
  <2>1. TypeOK'
    BY <1>1, <1>3 DEF IndInv, TypeOK, Goto, Steps
  <2>2. CallsOwnTheirWork'
    BY <1>1, <1>3 DEF IndInv, TypeOK, CallsOwnTheirWork, Inserted, Row, KeyTaken,
                      KeyHeld, SameKey, Goto
  <2>3. LockExclusive'
    BY <1>1, <1>3, LocksKept DEF Locking
  <2>4. AnswerIsCommitted'
    BY <1>1, <1>3 DEF IndInv, AnswerIsCommitted
  <2> QED
    BY <1>1, <2>1, <2>2, <2>3, <2>4, TablesKept DEF IndInv
<1> QED
  BY <1>2, <1>3 DEF Begin

LEMMA ReadExistingKeeps ==
    ASSUME IndInv, NEW c \in Calls, ReadExisting(c)
    PROVE  IndInv'
<1>1. step[c] = "snapshot" /\ UNCHANGED <<arg, stock, orders>>
  BY DEF ReadExisting
<1>2. CASE \E o \in orders : o.request = arg[c].request /\ Return(c, "ok", o)
  BY <1>1, <1>2, ReturnKeeps DEF IndInv, TypeOK, Outcomes
<1>3. CASE Goto(c, "lock") /\ UNCHANGED <<outcome, returned, draft, debit>>
  <2>1. TypeOK'
    BY <1>1, <1>3 DEF IndInv, TypeOK, Goto, Steps
  <2>2. CallsOwnTheirWork'
    BY <1>1, <1>3 DEF IndInv, TypeOK, CallsOwnTheirWork, Inserted, Row, KeyTaken,
                      KeyHeld, SameKey, Goto
  <2>3. LockExclusive'
    BY <1>1, <1>3, LocksKept DEF Locking
  <2>4. AnswerIsCommitted'
    BY <1>1, <1>3 DEF IndInv, AnswerIsCommitted
  <2> QED
    BY <1>1, <2>1, <2>2, <2>3, <2>4, TablesKept DEF IndInv
<1> QED
  BY <1>2, <1>3 DEF ReadExisting

\* The only step that takes the row lock: nobody held it, and the stock read
\* covers the quantity.
LEMMA LockStockKeeps ==
    ASSUME IndInv, NEW c \in Calls, LockStock(c)
    PROVE  IndInv'
<1>1. step[c] = "lock" /\ UNCHANGED <<arg, stock, orders>>
  BY DEF LockStock
<1>2. CASE Return(c, "not_found", NoOrder)
  BY <1>1, <1>2, ReturnKeeps DEF Outcomes
<1>3. CASE Return(c, "insufficient", NoOrder)
  BY <1>1, <1>3, ReturnKeeps DEF Outcomes
<1>4. CASE /\ arg[c].product \in Listed
           /\ ~RowLocked(arg[c].product)
           /\ stock[arg[c].product] >= arg[c].qty
           /\ Goto(c, "numbering")
           /\ UNCHANGED <<outcome, returned, draft, debit>>
  <2>1. TypeOK'
    BY <1>1, <1>4 DEF IndInv, TypeOK, Goto, Steps, Locking
  <2>2. CallsOwnTheirWork'
    BY <1>1, <1>4 DEF IndInv, TypeOK, CallsOwnTheirWork, Inserted, Row, KeyTaken,
                      KeyHeld, SameKey, Goto
  <2>3. LockExclusive'
    BY <1>1, <1>4 DEF IndInv, TypeOK, LockExclusive, RowLocked, Goto
  <2>4. AnswerIsCommitted'
    BY <1>1, <1>4 DEF IndInv, AnswerIsCommitted
  <2> QED
    BY <1>1, <2>1, <2>2, <2>3, <2>4, TablesKept DEF IndInv
<1> QED
  BY <1>2, <1>3, <1>4 DEF LockStock

LEMMA NextIDKeeps ==
    ASSUME IndInv, NEW c \in Calls, NextID(c)
    PROVE  IndInv'
<1>1. /\ step[c] = "numbering" /\ Goto(c, "inserting")
      /\ UNCHANGED <<arg, stock, orders, outcome, returned, debit>>
  BY DEF NextID, storeVars
<1>2. PICK i \in OrderIDs : draft' = [draft EXCEPT ![c] = Row(c, i)]
  BY DEF NextID
<1>3. Row(c, i) \in Order
  BY <1>1 DEF IndInv, TypeOK, CallsOwnTheirWork, Args, Order, Row
<1>4. TypeOK'
  BY <1>1, <1>2, <1>3 DEF IndInv, TypeOK, Goto, Steps, Locking
<1>5. CallsOwnTheirWork'
  BY <1>1, <1>2, <1>3 DEF IndInv, TypeOK, CallsOwnTheirWork, Inserted, Row, KeyTaken,
                          KeyHeld, SameKey, Goto
<1>6. LockExclusive'
  BY <1>1, LocksKept DEF Locking
<1>7. AnswerIsCommitted'
  BY <1>1 DEF IndInv, AnswerIsCommitted
<1> QED
  BY <1>1, <1>4, <1>5, <1>6, <1>7, TablesKept DEF IndInv

\* The unique keys: the row goes in only when no committed row and no open
\* insert has one of its keys.
LEMMA InsertOrderKeeps ==
    ASSUME IndInv, NEW c \in Calls, InsertOrder(c)
    PROVE  IndInv'
<1>1. /\ step[c] = "inserting" /\ ~KeyHeld(c)
      /\ UNCHANGED <<arg, stock, orders, outcome, returned, debit>>
  BY DEF InsertOrder, storeVars
<1>2. LockExclusive' /\ AnswerIsCommitted'
  <2>1. \E s \in {"rolled_back", "debiting"} : Goto(c, s)
    BY DEF InsertOrder
  <2>2. LockExclusive'
    BY <1>1, <2>1, LocksKept DEF Locking
  <2> QED
    BY <1>1, <2>2 DEF IndInv, AnswerIsCommitted
<1>3. CASE Goto(c, "rolled_back") /\ draft' = [draft EXCEPT ![c] = NoOrder]
  <2>1. TypeOK'
    BY <1>1, <1>3 DEF IndInv, TypeOK, Goto, Steps
  <2>2. CallsOwnTheirWork'
    BY <1>1, <1>3 DEF IndInv, TypeOK, CallsOwnTheirWork, Inserted, Row, KeyTaken,
                      KeyHeld, SameKey, Goto
  <2> QED
    BY <1>1, <1>2, <2>1, <2>2, TablesKept DEF IndInv
<1>4. CASE ~KeyTaken(c) /\ Goto(c, "debiting") /\ UNCHANGED draft
  <2>1. TypeOK'
    BY <1>1, <1>4 DEF IndInv, TypeOK, Goto, Steps, Locking
  <2>2. CallsOwnTheirWork'
    BY <1>1, <1>4 DEF IndInv, TypeOK, CallsOwnTheirWork, Inserted, Row, KeyTaken,
                      KeyHeld, SameKey, Goto
  <2> QED
    BY <1>1, <1>2, <2>1, <2>2, TablesKept DEF IndInv
<1> QED
  BY <1>3, <1>4 DEF InsertOrder

LEMMA UpdateStockKeeps ==
    ASSUME IndInv, NEW c \in Calls, UpdateStock(c)
    PROVE  IndInv'
<1>1. /\ step[c] = "debiting" /\ Goto(c, "committing")
      /\ debit' = [debit EXCEPT ![c] = arg[c].qty]
      /\ UNCHANGED <<arg, stock, orders, outcome, returned, draft>>
  BY DEF UpdateStock, storeVars
<1>2. TypeOK'
  BY <1>1 DEF IndInv, TypeOK, Goto, Steps, Locking, Args
<1>3. CallsOwnTheirWork'
  BY <1>1 DEF IndInv, TypeOK, CallsOwnTheirWork, Inserted, Row, KeyTaken,
              KeyHeld, SameKey, Goto
<1>4. LockExclusive'
  BY <1>1, LocksKept DEF Locking
<1>5. AnswerIsCommitted'
  BY <1>1 DEF IndInv, AnswerIsCommitted
<1> QED
  BY <1>1, <1>2, <1>3, <1>4, <1>5, TablesKept DEF IndInv

LEMMA ReadWinnerKeeps ==
    ASSUME IndInv, NEW c \in Calls, ReadWinner(c)
    PROVE  IndInv'
BY ReturnKeeps DEF IndInv, TypeOK, ReadWinner, Outcomes

LEMMA FailKeeps ==
    ASSUME IndInv, NEW c \in Calls, Fail(c)
    PROVE  IndInv'
BY ReturnKeeps DEF Fail, Outcomes

\* The step that writes both tables.  The holder's debit is covered by the stock
\* it locked, and its row is new under both unique keys.
LEMMA CommitKeeps ==
    ASSUME IndInv, NEW c \in Calls, Commit(c)
    PROVE  IndInv'
<1> DEFINE o == draft[c]
           p == arg[c].product
<1>1. /\ step[c] = "committing"
      /\ orders' = orders \cup {o}
      /\ stock' = [stock EXCEPT ![p] = @ - debit[c]]
      /\ UNCHANGED arg
  BY DEF Commit
<1>2. /\ o \in Order /\ o = Row(c, o.id)
      /\ debit[c] = o.qty /\ o.product = p /\ o.request = arg[c].request
      /\ o.qty \in 1..MaxQty
      /\ ~KeyTaken(c) /\ ~KeyHeld(c)
  BY <1>1 DEF IndInv, CallsOwnTheirWork, Inserted, Row, Order
<1>3. o \notin orders
  BY <1>2 DEF KeyTaken, SameKey
<1>4. p \in Listed /\ stock[p] >= o.qty
  BY <1>1, <1>2 DEF IndInv, LockExclusive, Locking, Row
<1>5. PICK how \in {"ok", "error"}, r \in {o, NoOrder} :
        /\ how = "ok" => r = o
        /\ outcome' = [outcome EXCEPT ![c] = how]
        /\ returned' = [returned EXCEPT ![c] = r]
        /\ step' = [step EXCEPT ![c] = "returned"]
        /\ draft' = [draft EXCEPT ![c] = NoOrder]
        /\ debit' = [debit EXCEPT ![c] = 0]
  BY DEF Commit, Return, Answer, Goto
<1> HIDE DEF o, p
<1>6. TypeOK'
  BY <1>1, <1>2, <1>4, <1>5, StoreAssumption DEF IndInv, TypeOK, Outcomes, Steps
<1>7. IsFiniteSet(orders')
  BY <1>1, FS_AddElement DEF IndInv
<1>8. NoOversell'
  BY <1>1, <1>2, <1>4 DEF IndInv, TypeOK, NoOversell
<1>9. OneOrderPerRequest'
  BY <1>1, <1>2 DEF IndInv, OneOrderPerRequest, KeyTaken, SameKey, o
<1>10. AnswerIsCommitted'
  BY <1>1, <1>2, <1>5 DEF IndInv, TypeOK, AnswerIsCommitted
<1>11. CallsOwnTheirWork'
  \* Another open insert differs from the row that is now committed.
  <2>1. ASSUME NEW d \in Calls, d # c, step[d] \in Inserted
        PROVE  ~SameKey(o, draft[d])
    BY <1>1, <2>1 DEF IndInv, CallsOwnTheirWork, KeyHeld, Inserted, SameKey, o
  <2> QED
    BY <1>1, <1>5, <2>1 DEF IndInv, TypeOK, CallsOwnTheirWork, Inserted, Row,
                            KeyTaken, KeyHeld, SameKey
<1>12. LockExclusive'
  \* The other holders hold other rows, whose stock is unchanged.
  BY <1>1, <1>5 DEF IndInv, TypeOK, LockExclusive, Locking, p
<1>13. StockMatchesOrders'
  <2>1. ASSUME NEW x \in Listed
        PROVE  stock'[x] + Cardinality(SoldUnits(x)') = InitialStock[x]
    <3>1. Cardinality(SoldUnits(x)') =
            Cardinality(SoldUnits(x)) + (IF o.product = x THEN o.qty ELSE 0)
      BY <1>1, <1>2, <1>3, SoldUnitsGrow, StoreAssumption DEF IndInv, TypeOK
    <3>2. Cardinality(SoldUnits(x)) \in Nat
      BY SoldUnitsFinite, FS_CardinalityType, StoreAssumption DEF IndInv
    <3>3. stock[x] + Cardinality(SoldUnits(x)) = InitialStock[x]
      BY DEF IndInv, StockMatchesOrders
    <3>4. stock[x] \in Int /\ stock'[x] = stock[x] - (IF o.product = x THEN o.qty ELSE 0)
      BY <1>1, <1>2, <1>4 DEF IndInv, TypeOK
    <3> QED
      BY <1>2, <3>1, <3>2, <3>3, <3>4
  <2> QED
    BY <2>1 DEF StockMatchesOrders
<1> QED
  BY <1>6, <1>7, <1>8, <1>9, <1>10, <1>11, <1>12, <1>13 DEF IndInv

-------------------------------------------------------------------------------
LEMMA InitEstablishes == Init => IndInv
<1> SUFFICES ASSUME Init PROVE IndInv
  OBVIOUS
<1>1. TypeOK
  BY StoreAssumption DEF Init, StoreInit, TypeOK, Outcomes, Steps
<1>2. IsFiniteSet(orders) /\ StockMatchesOrders
  <2>1. \A p : SoldUnits(p) = {}
    BY DEF Init, StoreInit, SoldUnits
  <2>2. \A p \in Listed : stock[p] = InitialStock[p] /\ InitialStock[p] \in Nat
    BY StoreAssumption DEF Init, StoreInit
  <2> QED
    BY <2>1, <2>2, FS_EmptySet DEF Init, StoreInit, StockMatchesOrders
<1>3. CallsOwnTheirWork /\ LockExclusive /\ OneOrderPerRequest /\ AnswerIsCommitted
  BY DEF Init, StoreInit, CallsOwnTheirWork, LockExclusive, OneOrderPerRequest,
         AnswerIsCommitted, Inserted, Locking
<1>4. NoOversell
  BY StoreAssumption DEF Init, StoreInit, NoOversell
<1> QED
  BY <1>1, <1>2, <1>3, <1>4 DEF IndInv

LEMMA NextKeeps == IndInv /\ [Next]_vars => IndInv'
<1> SUFFICES ASSUME IndInv, [Next]_vars PROVE IndInv'
  OBVIOUS
<1>1. ASSUME NEW c \in Calls, Proceed(c) PROVE IndInv'
  BY <1>1, BeginKeeps, ReadExistingKeeps, LockStockKeeps, NextIDKeeps,
     InsertOrderKeeps, UpdateStockKeeps, CommitKeeps, ReadWinnerKeeps DEF Proceed
<1>2. ASSUME NEW c \in Calls, Fail(c) PROVE IndInv'
  BY <1>2, FailKeeps
<1>3. CASE UNCHANGED vars
  <2>1. TypeOK' /\ CallsOwnTheirWork' /\ LockExclusive' /\ AnswerIsCommitted'
    BY <1>3 DEF IndInv, vars, storeVars, TypeOK, CallsOwnTheirWork, LockExclusive,
                AnswerIsCommitted, Row, KeyTaken, KeyHeld, SameKey
  <2> QED
    BY <1>3, <2>1, TablesKept DEF IndInv, vars, storeVars
<1> QED
  BY <1>1, <1>2, <1>3 DEF Next, Finished

\* IndInv holds in every reachable state, for every value of the constants.
THEOREM Invariance == Spec => []IndInv
BY InitEstablishes, NextKeeps, PTL DEF Spec

\* The tables and the calls keep their shapes: no row of a refused quantity.
THEOREM TypeCorrect == Spec => []TypeOK
<1>1. IndInv => TypeOK
  BY DEF IndInv
<1> QED
  BY <1>1, Invariance, PTL

\* FOR UPDATE works: no interleaving of calls sells a unit that is not there.
THEOREM NeverOversells == Spec => []NoOversell
<1>1. IndInv => NoOversell
  BY DEF IndInv
<1> QED
  BY <1>1, Invariance, PTL

\* The transaction is all or nothing: stock handed out equals quantity ordered.
THEOREM StockIdentity == Spec => []StockMatchesOrders
<1>1. IndInv => StockMatchesOrders
  BY DEF IndInv
<1> QED
  BY <1>1, Invariance, PTL

\* Duplicates, retries and redeliveries of a request leave one row.
THEOREM IdempotentPlacement == Spec => []OneOrderPerRequest
<1>1. IndInv => OneOrderPerRequest
  BY DEF IndInv
<1> QED
  BY <1>1, Invariance, PTL

\* Whoever was given an order was given a committed one of its own request.
THEOREM AnswersAreDurable == Spec => []AnswerIsCommitted
<1>1. IndInv => AnswerIsCommitted
  BY DEF IndInv
<1> QED
  BY <1>1, Invariance, PTL

-------------------------------------------------------------------------------
(***************************************************************************)
(* Refinement: every statement either changes nothing a caller can see or  *)
(* is the one atomic step its call takes in OrderStore.                    *)
(***************************************************************************)

\* A commit is the atomic placement.
LEMMA CommitPlaces ==
    ASSUME IndInv, NEW c \in Calls, Commit(c)
    PROVE  PlaceAtomically(c)
<1>1. step[c] = "committing"
  BY DEF Commit
<1>2. /\ draft[c] \in Order /\ draft[c] = Row(c, draft[c].id)
      /\ debit[c] = arg[c].qty /\ arg[c].qty > 0 /\ ~KeyTaken(c)
      /\ arg[c].product \in Listed /\ stock[arg[c].product] >= arg[c].qty
  BY <1>1 DEF IndInv, CallsOwnTheirWork, LockExclusive, Inserted, Locking
<1>3. PICK i \in OrderIDs : draft[c] = Row(c, i)
  BY <1>2 DEF Order
<1>4. \A o \in orders : ~SameKey(o, Row(c, i))
  BY <1>2, <1>3 DEF KeyTaken
<1>5. Answer(c, "ok", Row(c, i)) \/ Answer(c, "error", NoOrder)
  BY <1>3 DEF Commit, Return
<1> QED
  BY <1>2, <1>3, <1>4, <1>5 DEF PlaceAtomically, Commit

\* The statements before a commit are invisible, the answers without one are
\* the refusals and the repeated answers of OrderStore.
LEMMA StepSimulation == IndInv /\ [Next]_vars => [StoreNext]_storeVars
<1> SUFFICES ASSUME IndInv, [Next]_vars PROVE [StoreNext]_storeVars
  OBVIOUS
<1>1. ASSUME NEW c \in Calls, Begin(c) PROVE [StoreNext]_storeVars
  BY <1>1 DEF Begin, Return, StoreNext, Refuse, storeVars
<1>2. ASSUME NEW c \in Calls, ReadExisting(c) PROVE [StoreNext]_storeVars
  BY <1>2 DEF ReadExisting, Return, StoreNext, ReturnExisting, storeVars
<1>3. ASSUME NEW c \in Calls, LockStock(c) PROVE [StoreNext]_storeVars
  BY <1>3 DEF LockStock, Return, StoreNext, Refuse, storeVars
<1>4. ASSUME NEW c \in Calls, NextID(c) \/ InsertOrder(c) \/ UpdateStock(c)
      PROVE  [StoreNext]_storeVars
  BY <1>4 DEF NextID, InsertOrder, UpdateStock
<1>5. ASSUME NEW c \in Calls, Commit(c) PROVE [StoreNext]_storeVars
  BY <1>5, CommitPlaces DEF StoreNext
<1>6. ASSUME NEW c \in Calls, ReadWinner(c) PROVE [StoreNext]_storeVars
  BY <1>6 DEF ReadWinner, Return, StoreNext, ReturnExisting, Refuse, storeVars
<1>7. ASSUME NEW c \in Calls, Fail(c) PROVE [StoreNext]_storeVars
  BY <1>7 DEF Fail, Return, StoreNext, Refuse, storeVars
<1>8. CASE UNCHANGED vars
  BY <1>8 DEF vars
<1> QED
  BY <1>1, <1>2, <1>3, <1>4, <1>5, <1>6, <1>7, <1>8 DEF Next, Proceed, Finished

\* PlaceOrderTx implements the atomic store: to its callers, concurrent calls,
\* failures and lost replies included, each call happens in one step.
THEOREM ImplementsStore == Spec => StoreSpec
<1>1. Init => StoreInit
  BY DEF Init
<1> QED
  BY <1>1, Invariance, StepSimulation, PTL DEF Spec, StoreSpec

-------------------------------------------------------------------------------
(* A repeated request.                                                     *)

\* A call's way past the stock check: a step leaves the arguments and the rows there are,
\* and a call that finds its order on the fast path is answered.
LEMMA StepsOfACall ==
    ASSUME TypeOK, [Next]_vars, NEW c \in Calls
    PROVE  /\ arg'[c] = arg[c] /\ orders \subseteq orders'
           /\ step'[c] = "start" => step[c] = "start" /\ outcome'[c] = outcome[c]
           /\ step[c] = "start" => /\ step'[c] \in {"start", "snapshot", "returned"}
                                   /\ outcome'[c] \in {outcome[c], "invalid"}
           /\ step[c] = "snapshot" /\ HasOrder(c) => /\ step'[c] \in {"snapshot", "returned"}
                                                     /\ outcome'[c] \in {outcome[c], "ok", "error"}
           /\ step[c] = "returned" => step'[c] = "returned" /\ outcome'[c] = outcome[c]
<1> DEFINE Goal ==
             /\ arg'[c] = arg[c] /\ orders \subseteq orders'
             /\ step'[c] = "start" => step[c] = "start" /\ outcome'[c] = outcome[c]
             /\ step[c] = "start" => /\ step'[c] \in {"start", "snapshot", "returned"}
                                     /\ outcome'[c] \in {outcome[c], "invalid"}
             /\ step[c] = "snapshot" /\ HasOrder(c) => /\ step'[c] \in {"snapshot", "returned"}
                                                       /\ outcome'[c] \in {outcome[c], "ok", "error"}
             /\ step[c] = "returned" => step'[c] = "returned" /\ outcome'[c] = outcome[c]
<1>0. step \in [Calls -> Steps] /\ outcome \in [Calls -> Outcomes]
  BY DEF TypeOK
<1>1. ASSUME NEW d \in Calls, Begin(d) PROVE Goal
  BY <1>0, <1>1 DEF Begin, Return, Answer, Goto
<1>2. ASSUME NEW d \in Calls, ReadExisting(d) PROVE Goal
  BY <1>0, <1>2 DEF ReadExisting, Return, Answer, Goto, HasOrder
<1>3. ASSUME NEW d \in Calls, LockStock(d) PROVE Goal
  BY <1>0, <1>3 DEF LockStock, Return, Answer, Goto
<1>4. ASSUME NEW d \in Calls, NextID(d) PROVE Goal
  BY <1>0, <1>4 DEF NextID, Goto, storeVars
<1>5. ASSUME NEW d \in Calls, InsertOrder(d) PROVE Goal
  BY <1>0, <1>5 DEF InsertOrder, Goto, storeVars
<1>6. ASSUME NEW d \in Calls, UpdateStock(d) PROVE Goal
  BY <1>0, <1>6 DEF UpdateStock, Goto, storeVars
<1>7. ASSUME NEW d \in Calls, Commit(d) PROVE Goal
  BY <1>0, <1>7 DEF Commit, Return, Answer, Goto
<1>8. ASSUME NEW d \in Calls, ReadWinner(d) PROVE Goal
  BY <1>0, <1>8 DEF ReadWinner, Return, Answer, Goto
<1>9. ASSUME NEW d \in Calls, Fail(d) PROVE Goal
  BY <1>0, <1>9 DEF Fail, Return, Answer, Goto, Steps
<1>10. ASSUME UNCHANGED vars PROVE Goal
  BY <1>10 DEF vars, storeVars
<1> HIDE DEF Goal
<1>11. ASSUME Next PROVE Goal
  <2>1. (\E d \in Calls : Proceed(d) \/ Fail(d)) \/ UNCHANGED vars
    BY <1>11 DEF Next, Finished
  <2>2. ASSUME NEW d \in Calls, Proceed(d) PROVE Goal
    BY <2>2, <1>1, <1>2, <1>3, <1>4, <1>5, <1>6, <1>7, <1>8 DEF Proceed
  <2> QED BY <2>1, <2>2, <1>9, <1>10
<1>a. Next \/ UNCHANGED vars
  OBVIOUS
<1>12. Goal
  BY <1>a, <1>10, <1>11
<1> QED BY <1>12 DEF Goal

\* A call that begins when its request has an order never reaches the stock check.
Replaying(c) ==
    HasOrder(c) /\ step[c] \in {"start", "snapshot", "returned"} /\ outcome[c] # "insufficient"

Unanswered == \A c \in Calls : step[c] = "start" => outcome[c] # "insufficient"

\* A caller that repeats a request which has its order is never told that the product is
\* sold out: the fast path of PlaceOrderTx comes before the stock check (order.go:30-31).
THEOREM ReplaysAreNotRefused == Spec => ReplayNeverRefused
<1>1. Spec => []TypeOK
  BY TypeCorrect
<1>2. Init => Unanswered
  BY DEF Init, StoreInit, Unanswered
<1>3. TypeOK /\ Unanswered /\ [Next]_vars => Unanswered'
  BY StepsOfACall DEF Unanswered
<1>4. Spec => []Unanswered
  BY <1>1, <1>2, <1>3, PTL DEF Spec
<1>5. ASSUME NEW c \in Calls
      PROVE  Spec => [](step[c] = "start" /\ HasOrder(c) => [](outcome[c] # "insufficient"))
  <2>1. Unanswered /\ step[c] = "start" /\ HasOrder(c) => Replaying(c)
    BY DEF Unanswered, Replaying
  <2>2. TypeOK /\ Replaying(c) /\ [Next]_vars => Replaying(c)'
    BY StepsOfACall DEF Replaying, HasOrder
  <2>3. Replaying(c) => outcome[c] # "insufficient"
    BY DEF Replaying
  <2> QED BY <1>1, <1>4, <2>1, <2>2, <2>3, PTL DEF Spec
<1> QED BY <1>5 DEF ReplayNeverRefused

-------------------------------------------------------------------------------
(* The ids                                                                 *)

\* A digit in base r below a greater one: the lower digit does not matter.
LEMMA HigherDigitDecides ==
  ASSUME NEW a \in Int, NEW b \in Int, a < b,
         NEW r \in Nat, NEW x \in 0..r, NEW y \in 0..r
  PROVE  a * (r + 1) + x < b * (r + 1) + y
  <1>. DEFINE d == b - a - 1
  <1>1. d \in Nat /\ b = a + 1 + d  OBVIOUS
  <1>2. d * (r + 1) >= 0  BY <1>1
  <1>3. b * (r + 1) = a * (r + 1) + (r + 1) + d * (r + 1)  BY <1>1
  <1>. HIDE DEF d
  <1>4. d * (r + 1) \in Int /\ a * (r + 1) \in Int /\ b * (r + 1) \in Int  BY <1>1
  <1>. QED  BY <1>2, <1>3, <1>4

\* A number has one pair of digits.
LEMMA DigitsUnique ==
  ASSUME NEW a \in Int, NEW b \in Int, NEW r \in Nat, NEW x \in 0..r, NEW y \in 0..r,
         a * (r + 1) + x = b * (r + 1) + y
  PROVE  a = b /\ x = y
  <1>1. CASE a < b
    <2>1. a * (r + 1) + x < b * (r + 1) + y  BY <1>1, HigherDigitDecides
    <2>2. a * (r + 1) \in Int /\ b * (r + 1) \in Int  OBVIOUS
    <2>. QED  BY <2>1, <2>2
  <1>2. CASE b < a
    <2>1. b * (r + 1) + y < a * (r + 1) + x  BY <1>2, HigherDigitDecides
    <2>2. a * (r + 1) \in Int /\ b * (r + 1) \in Int  OBVIOUS
    <2>. QED  BY <2>1, <2>2
  <1>3. CASE a = b
    <2>1. a * (r + 1) \in Int /\ a * (r + 1) + x = a * (r + 1) + y  BY <1>3
    <2>. QED  BY <1>3, <2>1
  <1>. QED  BY <1>1, <1>2, <1>3

\* The part of an id above the sequence number.
Upper(ts, node) == (ts - Epoch) * (MaxNodeID + 1) + node

LEMMA UpperType == ASSUME NEW t \in Nat, NEW n \in NodeIDs PROVE Upper(t, n) \in Int
  BY SnowflakeAssumption DEF Upper, NodeIDs

\* One id stands for one timestamp, node and sequence number.
LEMMA PackInjective ==
  ASSUME NEW t \in Nat, NEW u \in Nat, NEW m \in NodeIDs, NEW n \in NodeIDs,
         NEW x \in Seqs, NEW y \in Seqs, Pack(t, m, x) = Pack(u, n, y)
  PROVE  t = u /\ m = n /\ x = y
  <1>1. Upper(t, m) * (MaxSeq + 1) + x = Upper(u, n) * (MaxSeq + 1) + y  BY DEF Pack, Upper
  <1>a. MaxSeq \in Nat /\ x \in 0..MaxSeq /\ y \in 0..MaxSeq  BY SnowflakeAssumption DEF Seqs
  <1>b. Upper(t, m) \in Int /\ Upper(u, n) \in Int  BY UpperType
  <1>2. Upper(t, m) = Upper(u, n) /\ x = y  BY <1>1, <1>a, <1>b, DigitsUnique
  <1>3. t - Epoch \in Int /\ u - Epoch \in Int  BY SnowflakeAssumption
  <1>4. t - Epoch = u - Epoch /\ m = n
    BY <1>2, <1>3, DigitsUnique, SnowflakeAssumption DEF Upper, NodeIDs
  <1>. QED  BY <1>2, <1>4, SnowflakeAssumption

\* The ids of one node are ordered by timestamp, then by sequence number.
LEMMA PackGrows ==
  ASSUME NEW t \in Nat, NEW u \in Nat, NEW n \in NodeIDs, NEW x \in Seqs, NEW y \in Seqs,
         t < u \/ (t = u /\ x < y)
  PROVE  Pack(t, n, x) < Pack(u, n, y)
  <1>1. CASE t < u
    <2>1. t - Epoch \in Int /\ u - Epoch \in Int /\ t - Epoch < u - Epoch
      BY <1>1, SnowflakeAssumption
    <2>2. Upper(t, n) < Upper(u, n)
      BY <2>1, HigherDigitDecides, SnowflakeAssumption DEF Upper, NodeIDs
    <2>3. Upper(t, n) * (MaxSeq + 1) + x < Upper(u, n) * (MaxSeq + 1) + y
      BY <2>2, UpperType, HigherDigitDecides, SnowflakeAssumption DEF Seqs
    <2>. QED  BY <2>3 DEF Pack, Upper
  <1>2. CASE t = u /\ x < y
    <2>1. Upper(t, n) * (MaxSeq + 1) \in Int  BY UpperType, SnowflakeAssumption
    <2>2. Upper(t, n) * (MaxSeq + 1) + x < Upper(t, n) * (MaxSeq + 1) + y
      BY <1>2, <2>1 DEF Seqs
    <2>. QED  BY <1>2, <2>2 DEF Pack, Upper
  <1>. QED  BY <1>1, <1>2

-----------------------------------------------------------------------------
\* The fields of an id that was made.
LEMMA Made ==
  ASSUME IdTypeOK, NEW i \in DOMAIN issued
  PROVE  /\ issued[i].proc \in Processes /\ issued[i].life \in Nat
         /\ issued[i].node \in NodeIDs
         /\ issued[i].ts \in Nat /\ issued[i].seq \in Seqs /\ issued[i].seq \in Nat
  <1>a. issued \in Seq(Ids)  BY DEF IdTypeOK
  <1>b. i \in 1..Len(issued)  BY <1>a
  <1>1. issued[i] \in Ids  BY <1>a, <1>b, ElementOfSeq
  <1>. QED  BY <1>1, SnowflakeAssumption DEF Ids, Seqs

LEMMA IdsStart == IdInit => IdInv
  <1>. SUFFICES ASSUME IdInit PROVE IdInv  OBVIOUS
  <1>1. IdTypeOK  BY SnowflakeAssumption DEF IdInit, IdTypeOK, Seqs
  <1>2. GrowingIds /\ Behind  BY DEF IdInit, GrowingIds, Behind
  <1>. QED  BY <1>1, <1>2 DEF IdInv

\* An id that is ahead of all that its process holds keeps the invariant.
LEMMA IssueInv ==
  ASSUME IdInv, NEW p \in Processes, NEW s \in Seqs, Issue(p, s),
         waiting' = waiting \ {p},
         clock > lastTs[p] \/ (clock = lastTs[p] /\ s > seq[p] /\ p \notin waiting)
  PROVE  IdInv'
  <1>. DEFINE new == [proc |-> p, life |-> life[p], node |-> number[p], ts |-> clock, seq |-> s]
  <1>. USE DEF IdInv
  <1>l. /\ lastTs'[p] = clock /\ seq'[p] = s /\ clock' = clock
        /\ number' = number /\ life' = life /\ life[p] \in Nat /\ number[p] \in NodeIDs
        /\ clock \in Nat /\ lastTs[p] \in Nat \cup {-1} /\ seq[p] \in Nat /\ s \in Nat
        /\ \A m \in Processes \ {p} : lastTs'[m] = lastTs[m] /\ seq'[m] = seq[m]
    BY SnowflakeAssumption DEF Issue, IdTypeOK, Seqs
  <1>a. issued' = Append(issued, new) /\ new \in Ids
    BY <1>l DEF Issue, Ids
  <1>i. issued \in Seq(Ids)  BY DEF IdTypeOK
  <1>t. IdTypeOK'
    <2>1. issued' \in Seq(Ids)  BY <1>a, <1>i
    <2>. QED  BY <2>1, <1>l DEF IdTypeOK, Issue
  <1>b. /\ DOMAIN issued' = 1..(Len(issued) + 1)
        /\ DOMAIN issued = 1..Len(issued) /\ Len(issued) \in Nat
        /\ issued'[Len(issued) + 1] = new
        /\ \A i \in 1..Len(issued) : issued'[i] = issued[i]
    BY <1>a, <1>i
  \* The ids that the process made before in this life are smaller.
  <1>1. ASSUME NEW i \in DOMAIN issued, issued[i].proc = p, issued[i].life = life[p]
        PROVE  /\ issued[i].node = number[p]
               /\ issued[i].ts < clock \/ (issued[i].ts = clock /\ issued[i].seq < s)
    <2>1. issued[i].ts \in Nat /\ issued[i].seq \in Nat
      BY Made
    <2>. QED  BY <1>1, <1>l, <2>1 DEF Behind
  <1>g. GrowingIds'
    <2>. SUFFICES ASSUME NEW i \in DOMAIN issued', NEW j \in DOMAIN issued', i < j,
                         issued'[i].proc = issued'[j].proc, issued'[i].life = issued'[j].life
                  PROVE  Id(issued'[i]) < Id(issued'[j])
      BY DEF GrowingIds, SameLife, Id, Pack
    <2>1. CASE j \in DOMAIN issued
      <3>1. i \in DOMAIN issued  BY <1>b, <2>1
      <3>. QED  BY <1>b, <2>1, <3>1 DEF GrowingIds, SameLife
    <2>2. CASE j = Len(issued) + 1
      <3>1. i \in DOMAIN issued /\ issued'[i] = issued[i] /\ issued'[j] = new  BY <1>b, <2>2
      <3>2. issued[i].proc = p /\ issued[i].life = life[p]  BY <3>1
      <3>3. issued[i].ts \in Nat /\ issued[i].seq \in Seqs  BY <3>1, Made
      <3>4. /\ issued[i].node = number[p]
            /\ issued[i].ts < clock \/ (issued[i].ts = clock /\ issued[i].seq < s)
        BY <1>1, <3>1, <3>2
      <3>5. Pack(issued[i].ts, number[p], issued[i].seq) < Pack(clock, number[p], s)
        BY <1>l, <3>3, <3>4, PackGrows
      <3>. QED  BY <3>1, <3>4, <3>5 DEF Id
    <2>. QED  BY <1>b, <2>1, <2>2
  <1>h. Behind'
    <2>. SUFFICES ASSUME NEW i \in DOMAIN issued'
                  PROVE  LET made == issued'[i]
                             q == made.proc
                         IN  \/ made.life < life'[q]
                             \/ /\ made.life = life'[q] /\ made.node = number'[q]
                                /\ \/ made.ts < lastTs'[q]
                                   \/ made.ts = lastTs'[q] /\ (q \in waiting' \/ made.seq <= seq'[q])
      BY DEF Behind
    <2>1. CASE i \in DOMAIN issued /\ issued[i].proc = p
      <3>1. issued[i].ts \in Nat /\ issued[i].seq \in Nat
        BY <2>1, Made
      <3>2. issued[i].life < life[p] \/ issued[i].life = life[p]
        BY <2>1 DEF Behind
      <3>3. issued'[i] = issued[i]  BY <1>b, <2>1
      <3>. QED  BY <1>1, <1>l, <2>1, <3>1, <3>2, <3>3
    <2>2. CASE i \in DOMAIN issued /\ issued[i].proc # p
      <3>1. issued[i].proc \in Processes \ {p}  BY <2>2, Made
      <3>. QED  BY <1>b, <1>l, <2>2, <3>1 DEF Behind
    <2>3. CASE i = Len(issued) + 1
      BY <1>b, <1>l, <2>3
    <2>. QED  BY <1>b, <2>1, <2>2, <2>3
  <1>. QED  BY <1>t, <1>g, <1>h

\* A new life starts behind nothing.
LEMMA RestartInv ==
  ASSUME IdInv, NEW p \in Processes, Restart(p)
  PROVE  IdInv'
  <1>. USE DEF IdInv
  <1>s. 0 \in Seqs  BY SnowflakeAssumption DEF Seqs
  <1>1. IdTypeOK'  BY <1>s DEF Restart, IdTypeOK
  <1>2. GrowingIds'  BY DEF Restart, GrowingIds, SameLife, Id, Pack
  <1>3. Behind'
    <2>. SUFFICES ASSUME NEW i \in DOMAIN issued
                  PROVE  LET made == issued[i]
                             q == made.proc
                         IN  \/ made.life < life'[q]
                             \/ /\ made.life = life'[q] /\ made.node = number'[q]
                                /\ \/ made.ts < lastTs'[q]
                                   \/ made.ts = lastTs'[q] /\ (q \in waiting' \/ made.seq <= seq'[q])
      BY DEF Behind, Restart
    <2>1. issued[i].proc \in Processes /\ issued[i].life \in Nat  BY Made
    <2>2. CASE issued[i].proc = p
      <3>1. life'[p] = life[p] + 1 /\ life[p] \in Nat  BY DEF Restart, IdTypeOK
      <3>2. issued[i].life <= life[p]  BY <2>1, <2>2, <3>1 DEF Behind
      <3>. QED  BY <2>1, <2>2, <3>1, <3>2
    <2>3. CASE issued[i].proc # p
      <3>1. LET q == issued[i].proc
            IN  /\ life'[q] = life[q] /\ number'[q] = number[q] /\ lastTs'[q] = lastTs[q]
                /\ seq'[q] = seq[q] /\ (q \in waiting' <=> q \in waiting)
        BY <2>1, <2>3 DEF Restart, IdTypeOK
      <3>. QED  BY <2>1, <2>3, <3>1 DEF Behind
    <2>. QED  BY <2>2, <2>3
  <1>. QED  BY <1>1, <1>2, <1>3

\* One step per action.
LEMMA IdsKeep == IdInv /\ [IdNext]_idVars => IdInv'
  <1>. SUFFICES ASSUME IdInv, [IdNext]_idVars PROVE IdInv'  OBVIOUS
  <1>. USE DEF IdInv
  <1>s. MaxSeq \in Nat /\ 0 \in Seqs  BY SnowflakeAssumption DEF Seqs
  <1>1. ASSUME NEW p \in Processes, NewMillisecond(p) PROVE IdInv'
    <2>1. Issue(p, 0) /\ clock > lastTs[p] /\ waiting' = waiting \ {p}
      BY <1>1 DEF NewMillisecond, Enters
    <2>. QED  BY <2>1, <1>s, IssueInv
  <1>2. ASSUME NEW p \in Processes, SameMillisecond(p) PROVE IdInv'
    <2>1. /\ Issue(p, NextSeq(seq[p])) /\ clock = lastTs[p]
          /\ p \notin waiting /\ waiting' = waiting \ {p}
      BY <1>2 DEF SameMillisecond, Enters
    <2>2. seq[p] \in 0..MaxSeq /\ (seq[p] + 1) % (MaxSeq + 1) # 0
      BY <1>2 DEF SameMillisecond, NextSeq, IdTypeOK, Seqs
    <2>3. seq[p] # MaxSeq  BY <2>2, <1>s
    <2>4. NextSeq(seq[p]) = seq[p] + 1  BY <2>2, <2>3, <1>s DEF NextSeq
    <2>5. NextSeq(seq[p]) \in Seqs /\ NextSeq(seq[p]) > seq[p]
      BY <2>2, <2>3, <2>4, <1>s DEF Seqs
    <2>. QED  BY <2>1, <2>5, IssueInv
  <1>3. ASSUME NEW p \in Processes, UsedUp(p) PROVE IdInv'
    <2>1. IdTypeOK'  BY <1>3, <1>s DEF UsedUp, IdTypeOK
    <2>2. GrowingIds'  BY <1>3 DEF UsedUp, GrowingIds, SameLife, Id, Pack
    <2>3. Behind'  BY <1>3, Made DEF UsedUp, Behind, IdTypeOK
    <2>. QED  BY <2>1, <2>2, <2>3
  <1>4. ASSUME NEW p \in Processes, WaitOver(p) PROVE IdInv'
    <2>1. Issue(p, seq[p]) /\ clock > lastTs[p] /\ waiting' = waiting \ {p}
      BY <1>4 DEF WaitOver
    <2>2. seq[p] \in Seqs  BY DEF IdTypeOK
    <2>. QED  BY <2>1, <2>2, IssueInv
  <1>5. ASSUME NEW p \in Processes, Restart(p) PROVE IdInv'
    BY <1>5, RestartInv
  <1>6. ASSUME Tick PROVE IdInv'
    <2>1. IdTypeOK'  BY <1>6 DEF Tick, IdTypeOK
    <2>2. GrowingIds'  BY <1>6 DEF Tick, GrowingIds, SameLife, Id, Pack
    <2>3. Behind'  BY <1>6 DEF Tick, Behind
    <2>. QED  BY <2>1, <2>2, <2>3
  <1>7. ASSUME StepBack PROVE IdInv'
    <2>1. IdTypeOK'  BY <1>7 DEF StepBack, IdTypeOK
    <2>2. GrowingIds'  BY <1>7 DEF StepBack, GrowingIds, SameLife, Id, Pack
    <2>3. Behind'  BY <1>7 DEF StepBack, Behind
    <2>. QED  BY <2>1, <2>2, <2>3
  <1>8. ASSUME UNCHANGED idVars PROVE IdInv'
    BY <1>8 DEF idVars, IdTypeOK, GrowingIds, SameLife, Behind, Id, Pack
  <1>. QED  BY <1>1, <1>2, <1>3, <1>4, <1>5, <1>6, <1>7, <1>8 DEF IdNext

\* What every process holds is ahead of every id it made in this life, and the
\* state has its type, after any calls, clock steps and restarts.
THEOREM IdInvariance == IdSpec => []IdInv
  BY IdsStart, IdsKeep, PTL DEF IdSpec

\* The ids of one life of a process grow (snowflake.go:43), whatever the clock
\* does; between two lives nothing is promised.
THEOREM Growth == IdSpec => []GrowingIds
  <1>1. IdInv => GrowingIds  BY DEF IdInv
  <1>. QED  BY <1>1, IdInvariance, PTL

\* An id that was made twice was made by two lives with one node number, in
\* the same millisecond of their clocks (snowflake.go:43): the ids of one life
\* grow, and those of different node numbers differ in that field.
THEOREM Uniqueness == IdSpec => []UniqueIds
  <1>1. IdInv => UniqueIds
    <2>. SUFFICES ASSUME IdInv, NEW i \in DOMAIN issued, NEW j \in DOMAIN issued,
                         Id(issued[i]) = Id(issued[j]), i # j
                  PROVE  /\ issued[i].node = issued[j].node /\ issued[i].ts = issued[j].ts
                         /\ ~SameLife(i, j)
      BY DEF UniqueIds
    <2>1. issued \in Seq(Ids)  BY DEF IdInv, IdTypeOK
    <2>2. /\ issued[i].ts \in Nat /\ issued[j].ts \in Nat
          /\ issued[i].node \in NodeIDs /\ issued[j].node \in NodeIDs
          /\ issued[i].seq \in Seqs /\ issued[j].seq \in Seqs
      BY Made DEF IdInv
    <2>3. issued[i].node = issued[j].node /\ issued[i].ts = issued[j].ts
      BY <2>2, PackInjective DEF Id
    <2>4. Id(issued[i]) \in Int
      <3>1. Upper(issued[i].ts, issued[i].node) \in Int  BY <2>2, UpperType
      <3>. QED  BY <2>2, <3>1, SnowflakeAssumption DEF Id, Pack, Upper, Seqs
    <2>5. ASSUME SameLife(i, j) PROVE FALSE
      <3>1. Id(issued[i]) < Id(issued[j]) \/ Id(issued[j]) < Id(issued[i])
        BY <2>1, <2>5 DEF IdInv, GrowingIds, SameLife
      <3>. QED  BY <2>4, <3>1
    <2>. QED  BY <2>3, <2>5
  <1>. QED  BY <1>1, IdInvariance, PTL
===============================================================================
