--------------------------- MODULE DeductPathsProofs ---------------------------
(***************************************************************************)
(* What the deduction approaches promise, for every number of calls and    *)
(* requests, every quantity, and every assignment of approaches to calls.  *)
(*                                                                         *)
(* Stock is taken for each order and for nothing else, however approaches  *)
(* are mixed.  Stock that is not there is not sold as long as the calls    *)
(* agree on what guards it: what a call saw before its UPDATE still covers *)
(* its quantity when it commits (Guards), because of the row lock, of the  *)
(* version, of the Redis lock, or of what was taken from Redis before      *)
(* (GateBalances).  Until then each step is one of the atomic store.       *)
(***************************************************************************)
EXTENDS DeductPaths, UnitCounting, TLAPS

Statements == {"insert", "commit"}

\* Where a call can be, by its approach: it has told its caller nothing before its
\* transaction ended, and it has the row from its UPDATE to the end.
Shape(c) ==
    /\ step[c] \in {"start", "read", "update", "insert", "commit"} => outcome[c] = "pending"
    /\ approach[c] = "none" => step[c] = "done" /\ c \notin sold
    /\ approach[c] = "pessimistic" => step[c] \in {"start", "done"}
    /\ step[c] = "restore" => approach[c] = "lua" /\ outcome[c] \in {"error", "unknown"}
    /\ step[c] = "read" => approach[c] # "lua"
    /\ step[c] = "release" => Locking(c)
    /\ outcome[c] = "taken" => approach[c] = "naive"
    /\ rowHolder = c <=> approach[c] # "naive" /\ step[c] \in Statements
    /\ step[c] = "commit" => approach[c] # "naive"
    /\ lockKey = c => Locking(c) /\ step[c] # "start"
    /\ step[c] \in {"start", "read", "update"} => c \notin sold
    /\ step[c] \in Statements /\ approach[c] # "naive" => c \notin sold
    /\ step[c] = "restore" => (c \in sold <=> outcome[c] = "unknown")
    /\ outcome[c] = "kept" => approach[c] = "lua" /\ step[c] = "done"
Shapes == TypeOK /\ \A c \in Calls : Shape(c)

\* A request that is about to be committed has no order.
Fresh(c) == step[c] = "commit" => RequestOf[c] \notin ordered

\* A CAS call tries again only when the version moved on since it read it.
Overtaken(c) ==
    /\ seen[c].version <= version
    /\ approach[c] = "cas" /\ step[c] = "read" => version >= attempts[c] - 1
    /\ approach[c] = "cas" /\ step[c] = "update" => seen[c].version >= attempts[c] - 1

\* A pre-deduction given back although its order was committed.
Returned(c) == approach[c] = "lua" /\ step[c] = "done" /\ outcome[c] = "unknown"

Safe == Alike /\ overrun = {} /\ (\A c \in Calls : ~Returned(c))

\* What keeps the stock a call was satisfied with from going before it commits.
Guarded(c) ==
    /\ step[c] \in Statements => stock >= Q(c)
    /\ Locking(c) /\ step[c] = "update" => stock >= Q(c)
    /\ approach[c] = "cas" /\ step[c] = "update" =>
           seen[c].stock >= Q(c) /\ (seen[c].version = version => seen[c].stock = stock)
Guards == Safe => stock >= 0 /\ \A c \in Calls : Guarded(c)

\* What Redis offers and what calls have of it is what MySQL has and what was sold past
\* Redis: the two differ by no other unit.
Pledged == Taken \cup Kept
GateBalances ==
    redis + Cardinality(UnitsOf(Pledged)) = stock + Cardinality(UnitsOf(SoldPast))

IndInv ==
    /\ Shapes
    /\ \A c \in Calls : Fresh(c) /\ Overtaken(c)
    /\ StockMatchesOrders
    /\ LockLostOnlyByExpiry
    /\ ExhaustedWasOvertaken
    /\ Guards
    /\ GateBalances

-------------------------------------------------------------------------------
LEMMA QuantitiesAreTyped == ASSUME NEW c \in Calls PROVE Q(c) \in Nat \ {0} /\ RequestOf[c] \in Requests
  BY PathsAssumption DEF PathsAssumption, Q

\* The steps of a call.
Acts(c) == Proceed(c) \/ Fail(c) \/ Crash(c) \/ WatchdogStops(c)

\* A step of a call changes nothing of another's, and no call its approach.
LEMMA OthersStand ==
    ASSUME Shapes, NEW c \in Calls, Acts(c)
    PROVE  /\ approach' = approach
           /\ \A d \in Calls \ {c} : /\ step'[d] = step[d] /\ outcome'[d] = outcome[d]
                                     /\ seen'[d] = seen[d] /\ attempts'[d] = attempts[d]
           /\ \A d \in Calls \ {c} : d \in sold' <=> d \in sold
           /\ \A d \in overrun : d \in overrun'
<1>1. CASE PlaceOrderTx(c)
  BY <1>1 DEF PlaceOrderTx, Shapes, TypeOK, Goto, locks, private
<1>2. CASE Start(c)
  BY <1>2 DEF Start, Acquire, PreDeduct, Shapes, TypeOK, Goto, locks
<1>3. CASE Read(c) \/ Insert(c) \/ Update(c)
  BY <1>3 DEF Read, Insert, Update, Leave, Shapes, TypeOK, Goto, locks, private
<1>4. CASE Commit(c) \/ Fail(c) \/ Crash(c)
  BY <1>4 DEF Commit, Place, Fail, Crash, Leave, Shapes, TypeOK, Goto, locks, private
<1>5. CASE UpdateNaive(c) \/ InsertNaive(c)
  BY <1>5 DEF UpdateNaive, InsertNaive, Leave, Shapes, TypeOK, Goto, locks, private
<1>6. CASE Restore(c) \/ Release(c) \/ WatchdogStops(c)
  BY <1>6 DEF Restore, Release, WatchdogStops, Shapes, TypeOK, Goto, private
<1> QED BY <1>1, <1>2, <1>3, <1>4, <1>5, <1>6 DEF Acts, Proceed

LEMMA TypesStand == ASSUME Shapes, NEW c \in Calls, Acts(c) PROVE TypeOK'
<1> USE DEF Shapes
<1> USE QuantitiesAreTyped
<1>0. Leaving(c, "x") \in Steps /\ \A how : Leaving(c, how) \in Steps
  BY DEF Leaving, Steps
<1>1. CASE PlaceOrderTx(c)
  BY <1>1 DEF PlaceOrderTx, TypeOK, Goto, locks, private, row, Steps, Outcomes
<1>2. CASE Start(c)
  <2>1. 1 \in 0..MaxCASRetries
    BY PathsAssumption DEF PathsAssumption
  <2>2. redis' \in Nat /\ lockKey' \in Calls \cup {NoCall}
    BY <1>2 DEF Start, Acquire, PreDeduct, TypeOK, locks
  <2>3. step' \in [Calls -> Steps] /\ outcome' \in [Calls -> Outcomes]
    BY <1>2 DEF Start, Acquire, PreDeduct, TypeOK, Goto, Steps, Outcomes
  <2> QED BY <1>2, <2>1, <2>2, <2>3 DEF Start, Acquire, PreDeduct, TypeOK, locks, row
<1>3. CASE Read(c)
  BY <1>0, <1>3 DEF Read, TypeOK, Leave, Goto, locks, row, Steps, Outcomes
<1>4. CASE Update(c)
  <2>1. attempts' \in [Calls -> 0..MaxCASRetries]
    BY <1>4, PathsAssumption DEF Update, TypeOK, Retriable, PathsAssumption
  <2> QED BY <1>0, <1>4, <2>1 DEF Update, TypeOK, Leave, Goto, locks, row, Steps, Outcomes
<1>5. CASE Insert(c)
  BY <1>0, <1>5 DEF Insert, TypeOK, Leave, Unlock, Goto, locks, row, private, Steps, Outcomes
<1>6. CASE Commit(c)
  <2>1. stock' \in Int /\ version' \in Nat /\ ordered' \subseteq Requests /\ sold' \subseteq Calls
    BY <1>6 DEF Commit, Place, TypeOK
  <2> QED BY <1>0, <1>6, <2>1 DEF Commit, TypeOK, Leave, Unlock, Goto, locks, private, Steps, Outcomes
<1>7. CASE Fail(c) \/ Crash(c)
  BY <1>0, <1>7
  DEF Fail, Crash, TypeOK, Leave, Unlock, Goto, locks, row, private, Steps, Outcomes
<1>8. CASE UpdateNaive(c) \/ InsertNaive(c)
  BY <1>0, <1>8
  DEF UpdateNaive, InsertNaive, TypeOK, Leave, Goto, locks, private, Steps, Outcomes
<1>9. CASE Restore(c) \/ Release(c) \/ WatchdogStops(c)
  BY <1>9 DEF Restore, Release, WatchdogStops, TypeOK, Goto, row, private, Steps, Outcomes
<1> QED BY <1>1, <1>2, <1>3, <1>4, <1>5, <1>6, <1>7, <1>8, <1>9 DEF Acts, Proceed

\* Nobody but its own call takes the row or gives it back, or sets the lock.
LEMMA HoldersStand ==
    ASSUME Shapes, NEW c \in Calls, Acts(c), NEW d \in Calls \ {c}
    PROVE  /\ rowHolder' = d <=> rowHolder = d
           /\ lockKey' = d <=> lockKey = d
<1> USE PathsAssumption DEF PathsAssumption, Shapes, TypeOK
<1>1. CASE PlaceOrderTx(c) \/ UpdateNaive(c) \/ InsertNaive(c)
  BY <1>1 DEF PlaceOrderTx, UpdateNaive, InsertNaive, locks
<1>2. CASE Start(c)
  BY <1>2 DEF Start, Acquire, PreDeduct, locks
<1>3. CASE Read(c) \/ Insert(c) \/ Update(c)
  BY <1>3 DEF Read, Insert, Update, Unlock, locks
<1>4. CASE Commit(c) \/ Fail(c) \/ Crash(c)
  BY <1>4 DEF Commit, Fail, Crash, Unlock, locks
<1>5. CASE Restore(c) \/ Release(c) \/ WatchdogStops(c)
  BY <1>5 DEF Restore, Release, WatchdogStops
<1> QED BY <1>1, <1>2, <1>3, <1>4, <1>5 DEF Acts, Proceed

LEMMA ShapeStands ==
    ASSUME Shapes, NEW c \in Calls, Acts(c) PROVE Shapes'
<1>1. Shape(c) /\ TypeOK /\ NoCall # c
  BY PathsAssumption DEF Shapes, PathsAssumption
<1>2. Shape(c)'
  <2> USE DEF TypeOK, Shape, Goto, Statements, Locking
  <2>1. CASE PlaceOrderTx(c)
    BY <1>1, <2>1 DEF PlaceOrderTx, locks
  <2>2. CASE Start(c)
    BY <1>1, <2>2 DEF Start, Acquire, PreDeduct, locks
  <2>3. CASE Read(c) \/ Insert(c)
    BY <1>1, <2>3 DEF Read, Insert, Leave, Leaving, Unlock, locks
  <2>4. CASE Update(c)
    BY <1>1, <2>4 DEF Update, Updated, Retriable, Leave, Leaving, locks
  <2>5. CASE Commit(c) \/ Fail(c) \/ Crash(c)
    BY <1>1, <2>5 DEF Commit, Place, Fail, Crash, Leave, Leaving, Unlock, locks
  <2>6. CASE UpdateNaive(c) \/ InsertNaive(c)
    BY <1>1, <2>6 DEF UpdateNaive, InsertNaive, Leave, Leaving, locks
  <2>7. CASE Restore(c) \/ Release(c) \/ WatchdogStops(c)
    BY <1>1, <2>7 DEF Restore, Release, WatchdogStops, Watched
  <2> QED BY <2>1, <2>2, <2>3, <2>4, <2>5, <2>6, <2>7 DEF Acts, Proceed
<1>3. ASSUME NEW d \in Calls \ {c} PROVE Shape(d)'
  BY OthersStand, HoldersStand DEF Shapes, Shape, Locking
<1> QED BY <1>2, <1>3, TypesStand DEF Shapes

-------------------------------------------------------------------------------
\* The steps that write a table, and how.
LEMMA TablesStand ==
    ASSUME Shapes, NEW c \in Calls, Acts(c)
    PROVE  \/ UNCHANGED row
           \/ PlaceOrderTx(c) \/ Commit(c) \/ UpdateNaive(c) \/ InsertNaive(c)
<1>1. CASE Start(c)
  BY <1>1 DEF Start
<1>2. CASE Read(c) \/ Insert(c) \/ Update(c)
  BY <1>2 DEF Read, Insert, Update
<1>3. CASE Fail(c) \/ Crash(c)
  BY <1>3 DEF Fail, Crash
<1>4. CASE Restore(c) \/ Release(c) \/ WatchdogStops(c)
  BY <1>4 DEF Restore, Release, WatchdogStops
<1> QED BY <1>1, <1>2, <1>3, <1>4 DEF Acts, Proceed

\* The version only grows, by one and by a CAS call.
LEMMA VersionGrows ==
    ASSUME Shapes, NEW c \in Calls, Acts(c)
    PROVE  /\ version \in Nat /\ version' \in Nat
           /\ \/ version' = version
              \/ version' = version + 1 /\ approach[c] = "cas"
<1>1. version \in Nat /\ version' \in Nat
  BY TypesStand DEF Shapes, TypeOK
<1>2. version' = version \/ (version' = version + 1 /\ approach[c] = "cas")
  BY TablesStand DEF row, PlaceOrderTx, Commit, Place, UpdateNaive, InsertNaive
<1> QED BY <1>1, <1>2

LEMMA FreshStands ==
    ASSUME Shapes, \A e \in Calls : Fresh(e), NEW c \in Calls, Acts(c), NEW d \in Calls
    PROVE  Fresh(d)'
<1>0. Shape(c) /\ Shape(d) /\ Fresh(c) /\ Fresh(d) /\ TypeOK /\ Shapes'
  BY ShapeStands DEF Shapes
<1>1. SUFFICES ASSUME step'[d] = "commit" PROVE RequestOf[d] \notin ordered'
  BY DEF Fresh
<1>2. CASE d = c
  <2>1. (Insert(c) /\ ~Duplicate(c)) \/ (WatchdogStops(c) /\ step[c] = "commit")
    <3>1. ~(PlaceOrderTx(c) \/ Start(c) \/ Read(c) \/ Commit(c) \/ Fail(c) \/ Crash(c))
      BY <1>0, <1>1, <1>2
      DEF PlaceOrderTx, Start, Acquire, PreDeduct, Read, Commit, Fail, Crash, Leave, Leaving, Goto, TypeOK
    <3>2. ~(Update(c) \/ UpdateNaive(c) \/ InsertNaive(c) \/ Restore(c) \/ Release(c))
      BY <1>0, <1>1, <1>2
      DEF Update, UpdateNaive, InsertNaive, Restore, Release, Leave, Leaving, Goto, TypeOK
    <3>3. Insert(c) => ~Duplicate(c)
      BY <1>0, <1>1, <1>2 DEF Insert, Leave, Leaving, Goto, TypeOK
    <3>4. WatchdogStops(c) => step[c] = "commit"
      BY <1>1, <1>2 DEF WatchdogStops
    <3> QED BY <3>1, <3>2, <3>3, <3>4 DEF Acts, Proceed
  <2> QED BY <1>0, <1>2, <2>1 DEF Insert, Duplicate, WatchdogStops, row, Fresh
<1>3. CASE d # c
  <2>1. step[d] = "commit" /\ RequestOf[d] \notin ordered /\ rowHolder = d
    BY <1>0, <1>1, <1>3, OthersStand DEF Fresh, Shape, Statements
  <2>2. ~PlaceOrderTx(c) /\ ~Commit(c) /\ ~UpdateNaive(c)
    BY <1>0, <1>3, <2>1, PathsAssumption
    DEF PlaceOrderTx, Commit, UpdateNaive, Shape, Statements, PathsAssumption
  <2>3. InsertNaive(c) => RequestOf[d] \notin ordered'
    BY <2>1 DEF InsertNaive, Awaited
  <2> QED BY <2>1, <2>2, <2>3, TablesStand DEF row
<1> QED BY <1>2, <1>3

LEMMA OvertakenStands ==
    ASSUME Shapes, \A e \in Calls : Overtaken(e), NEW c \in Calls, Acts(c), NEW d \in Calls
    PROVE  Overtaken(d)'
<1>0. Shape(c) /\ Overtaken(c) /\ Overtaken(d) /\ TypeOK /\ Shapes' /\ approach' = approach
  BY ShapeStands, OthersStand DEF Shapes
<1>a. /\ version \in Nat /\ version' \in Nat /\ version' >= version
      /\ \A e \in Calls : seen[e].version \in Nat /\ attempts[e] \in Nat
  BY <1>0, VersionGrows DEF TypeOK
<1>1. CASE d # c
  <2>1. seen'[d] = seen[d] /\ attempts'[d] = attempts[d] /\ step'[d] = step[d]
    BY <1>1, OthersStand
  <2> QED BY <1>0, <1>a, <2>1 DEF Overtaken
<1>2. CASE d = c
  <2>1. CASE Read(c)
    BY <1>0, <1>a, <1>2, <2>1 DEF Read, Leave, Leaving, Goto, Overtaken, TypeOK, row
  <2>2. CASE Update(c)
    <3>1. /\ seen'[c] = seen[c] /\ version' = version
          /\ approach[c] = "cas" => step'[c] # "update"
          /\ approach[c] = "cas" /\ step'[c] = "read" =>
                 attempts'[c] = attempts[c] + 1 /\ version # seen[c].version
          /\ step[c] = "update"
      BY <1>0, <2>2 DEF Update, Updated, Leave, Leaving, Goto, TypeOK, row
    <3> QED BY <1>0, <1>a, <1>2, <3>1 DEF Overtaken
  <2>3. CASE Start(c)
    BY <1>0, <1>a, <1>2, <2>3 DEF Start, Acquire, PreDeduct, Goto, Overtaken, TypeOK, row, Locking
  <2>4. CASE WatchdogStops(c)
    BY <1>0, <1>a, <1>2, <2>4 DEF WatchdogStops, Overtaken, row, private
  <2>5. CASE ~(Read(c) \/ Update(c) \/ Start(c) \/ WatchdogStops(c))
    <3>1. seen'[c] = seen[c] /\ (approach[c] = "cas" => step'[c] \notin {"read", "update"})
      <4>1. CASE PlaceOrderTx(c) \/ Insert(c)
        BY <1>0, <4>1 DEF PlaceOrderTx, Insert, Leave, Leaving, Goto, TypeOK, private
      <4>2. CASE Commit(c) \/ Fail(c) \/ Crash(c)
        BY <1>0, <4>2 DEF Commit, Fail, Crash, Leave, Leaving, Goto, TypeOK, private
      <4>3. CASE UpdateNaive(c) \/ InsertNaive(c) \/ Restore(c) \/ Release(c)
        BY <1>0, <4>3
        DEF UpdateNaive, InsertNaive, Restore, Release, Leave, Leaving, Goto, TypeOK, private
      <4> QED BY <2>5, <4>1, <4>2, <4>3 DEF Acts, Proceed
    <3> QED BY <1>0, <1>a, <1>2, <3>1 DEF Overtaken
  <2> QED BY <2>1, <2>2, <2>3, <2>4, <2>5
<1> QED BY <1>1, <1>2

LEMMA ExhaustedStands ==
    ASSUME Shapes, \A e \in Calls : Overtaken(e), ExhaustedWasOvertaken,
           NEW c \in Calls, Acts(c)
    PROVE  ExhaustedWasOvertaken'
<1>0. Shape(c) /\ Overtaken(c) /\ TypeOK
  BY DEF Shapes
<1>a. /\ version \in Nat /\ version' \in Nat /\ version' >= version /\ MaxCASRetries \in Nat
      /\ \A e \in Calls : seen[e].version \in Nat /\ attempts[e] \in Nat
  BY <1>0, VersionGrows, PathsAssumption DEF TypeOK, PathsAssumption
<1> SUFFICES ASSUME NEW d \in Calls, outcome'[d] = "exhausted" PROVE version' >= MaxCASRetries
  BY DEF ExhaustedWasOvertaken
<1>1. CASE outcome[d] = "exhausted"
  BY <1>a, <1>1 DEF ExhaustedWasOvertaken
<1>2. CASE outcome[d] # "exhausted"
  <2>1. d = c
    BY <1>2, OthersStand
  <2>2. Update(c)
    <3>1. ~(PlaceOrderTx(c) \/ Start(c) \/ Read(c) \/ Insert(c))
      BY <1>0, <1>2, <2>1 DEF PlaceOrderTx, Start, Acquire, PreDeduct, Read, Insert, Leave, TypeOK
    <3>2. ~(Commit(c) \/ Fail(c) \/ Crash(c))
      BY <1>0, <1>2, <2>1 DEF Commit, Fail, Crash, Leave, TypeOK
    <3>3. ~(UpdateNaive(c) \/ InsertNaive(c) \/ Restore(c) \/ Release(c) \/ WatchdogStops(c))
      BY <1>0, <1>2, <2>1
      DEF UpdateNaive, InsertNaive, Restore, Release, WatchdogStops, Leave, TypeOK, private
    <3> QED BY <3>1, <3>2, <3>3 DEF Acts, Proceed
  <2>3. approach[c] = "cas" /\ ~(attempts[c] < MaxCASRetries) /\ version # seen[c].version
    BY <1>0, <1>2, <2>1, <2>2 DEF Update, Updated, Retriable, Leave, TypeOK
  <2>4. step[c] = "update" /\ version' = version
    BY <2>2 DEF Update, row
  <2> QED BY <1>0, <1>a, <2>3, <2>4 DEF Overtaken
<1> QED BY <1>1, <1>2

LEMMA LockStands ==
    ASSUME Shapes, LockLostOnlyByExpiry, NEW c \in Calls, Acts(c)
    PROVE  LockLostOnlyByExpiry'
<1>0. Shape(c) /\ TypeOK
  BY DEF Shapes
<1> SUFFICES ASSUME NEW d \in Inside' PROVE lockKey' = d \/ d \in overrun'
  BY DEF LockLostOnlyByExpiry
<1>a. d \in Calls
  BY DEF Inside
<1>1. CASE d # c
  BY <1>a, <1>1, OthersStand, HoldersStand DEF LockLostOnlyByExpiry, Inside, Locking
<1>2. CASE d = c
  <2>0. /\ Locking(c) /\ approach[c] \in {"lock", "watched"}
        /\ step'[c] \in {"read", "update", "insert", "commit", "release"}
    BY <1>2, OthersStand DEF Inside, Locking
  <2>1. CASE Start(c)
    BY <1>0, <1>2, <2>0, <2>1 DEF Start, Acquire, PreDeduct, Goto, TypeOK
  <2>2. CASE ~Start(c)
    <3>1. lockKey' = lockKey /\ c \in Inside
      <4>1. CASE PlaceOrderTx(c) \/ UpdateNaive(c) \/ InsertNaive(c) \/ Crash(c)
        BY <1>0, <2>0, <4>1 DEF PlaceOrderTx, UpdateNaive, InsertNaive, Crash, Goto, TypeOK
      <4>2. CASE Read(c) \/ Update(c) \/ Insert(c) \/ Commit(c) \/ Fail(c)
        BY <2>0, <4>2 DEF Read, Update, Insert, Commit, Fail, locks, Inside
      <4>3. CASE Restore(c) \/ Release(c)
        BY <1>0, <2>0, <4>3 DEF Restore, Release, Goto, TypeOK
      <4>4. CASE WatchdogStops(c)
        BY <2>0, <4>4 DEF WatchdogStops, Inside
      <4> QED BY <2>2, <4>1, <4>2, <4>3, <4>4 DEF Acts, Proceed
    <3> QED BY <1>2, <3>1, OthersStand DEF LockLostOnlyByExpiry
  <2> QED BY <2>1, <2>2
<1> QED BY <1>1, <1>2
-------------------------------------------------------------------------------
\* The quantity of each call.
CallQty == [c \in Calls |-> Q(c)]

LEMMA CallCells ==
    ASSUME NEW A \in SUBSET Calls, NEW B \in SUBSET Calls, NEW c \in Calls
    PROVE  /\ Cardinality(Cells(A, CallQty)) \in Nat /\ Cardinality(Cells(B, CallQty)) \in Nat
           /\ c \notin A /\ B = A \cup {c} =>
                Cardinality(Cells(B, CallQty)) = Cardinality(Cells(A, CallQty)) + Q(c)
<1>1. IsFiniteSet(Calls) /\ CallQty \in [Calls -> Nat] /\ CallQty[c] = Q(c) /\ Q(c) \in Nat
  BY QuantitiesAreTyped, PathsAssumption DEF CallQty, PathsAssumption
<1> HIDE DEF CallQty
<1>2. Cardinality(Cells(A, CallQty)) \in Nat /\ Cardinality(Cells(B, CallQty)) \in Nat
  BY <1>1, CellsAreFinite
<1>3. ASSUME c \notin A, B = A \cup {c}
      PROVE  Cardinality(Cells(B, CallQty)) = Cardinality(Cells(A, CallQty)) + Q(c)
  <2>1. B \subseteq A \cup {c} /\ A \cup {c} \subseteq B
    BY <1>3
  <2>2. Cardinality(Cells(B, CallQty)) <= Cardinality(Cells(A, CallQty)) + CallQty[c]
    BY <1>1, <2>1, CellsCount
  <2>3. Cardinality(Cells(A, CallQty)) + CallQty[c] <= Cardinality(Cells(B, CallQty))
    BY <1>1, <1>3, <2>1, CellsCount
  <2> QED BY <1>1, <1>2, <2>2, <2>3
<1> QED BY <1>2, <1>3

LEMMA RequestCells ==
    ASSUME NEW A \in SUBSET Requests, NEW B \in SUBSET Requests, NEW r \in Requests
    PROVE  /\ Cardinality(Cells(A, Qty)) \in Nat /\ Cardinality(Cells(B, Qty)) \in Nat
           /\ r \notin A /\ B = A \cup {r} =>
                Cardinality(Cells(B, Qty)) = Cardinality(Cells(A, Qty)) + Qty[r]
<1>1. IsFiniteSet(Requests) /\ Qty \in [Requests -> Nat] /\ Qty[r] \in Nat
  BY PathsAssumption DEF PathsAssumption
<1>2. Cardinality(Cells(A, Qty)) \in Nat /\ Cardinality(Cells(B, Qty)) \in Nat
  BY <1>1, CellsAreFinite
<1>3. ASSUME r \notin A, B = A \cup {r}
      PROVE  Cardinality(Cells(B, Qty)) = Cardinality(Cells(A, Qty)) + Qty[r]
  <2>1. B \subseteq A \cup {r} /\ A \cup {r} \subseteq B
    BY <1>3
  <2>2. Cardinality(Cells(B, Qty)) <= Cardinality(Cells(A, Qty)) + Qty[r]
    BY <1>1, <2>1, CellsCount
  <2>3. Cardinality(Cells(A, Qty)) + Qty[r] <= Cardinality(Cells(B, Qty))
    BY <1>1, <1>3, <2>1, CellsCount
  <2> QED BY <1>1, <1>2, <2>2, <2>3
<1> QED BY <1>2, <1>3

\* The model's sums are sums of this kind.
LEMMA UnitsAreCells ==
    ASSUME Shapes, Shapes'
    PROVE
    /\ UnitsOrdered = Cells(ordered, Qty) /\ UnitsOrdered' = Cells(ordered', Qty)
    /\ UnitsCharged = Cells(Charged, CallQty) /\ UnitsCharged' = Cells(Charged', CallQty)
    /\ UnitsOf(Pledged) = Cells(Pledged, CallQty) /\ UnitsOf(Pledged)' = Cells(Pledged', CallQty)
    /\ UnitsOf(SoldPast) = Cells(SoldPast, CallQty)
    /\ UnitsOf(SoldPast)' = Cells(SoldPast', CallQty)
<1>1. \A A \in SUBSET Calls :
          Cells(A, CallQty) = UNION {{c} \X (1..Q(c)) : c \in A}
  BY DEF Cells, CallQty
<1>2. /\ Charged \in SUBSET Calls /\ Charged' \in SUBSET Calls
      /\ Pledged \in SUBSET Calls /\ Pledged' \in SUBSET Calls
      /\ SoldPast \in SUBSET Calls /\ SoldPast' \in SUBSET Calls
  BY DEF Charged, Pledged, Taken, Kept, SoldPast, Shapes, TypeOK
<1>3. /\ UnitsCharged = Cells(Charged, CallQty) /\ UnitsCharged' = Cells(Charged', CallQty)
  BY <1>1, <1>2 DEF UnitsCharged, Q
<1>4. \A A \in SUBSET Calls : UnitsOf(A) = Cells(A, CallQty)
  BY <1>1 DEF UnitsOf
<1>5. UnitsOf(Pledged)' = UnitsOf(Pledged') /\ UnitsOf(SoldPast)' = UnitsOf(SoldPast')
  BY DEF UnitsOf, Q
<1> QED BY <1>2, <1>3, <1>4, <1>5 DEF UnitsOrdered, Cells

-------------------------------------------------------------------------------
\* A call that takes stock is charged with it until its order is in.
LEMMA ChargedMoves ==
    ASSUME Shapes, NEW c \in Calls, Acts(c)
    PROVE  /\ UpdateNaive(c) => c \notin Charged /\ Charged' = Charged \cup {c}
           /\ InsertNaive(c) =>
                 /\ c \in Charged
                 /\ \/ UNCHANGED ordered /\ Charged' = Charged
                    \/ /\ RequestOf[c] \notin ordered
                       /\ ordered' = ordered \cup {RequestOf[c]}
                       /\ Charged' = Charged \ {c}
           /\ ~UpdateNaive(c) /\ ~InsertNaive(c) => Charged' = Charged
<1>0. Shape(c) /\ TypeOK
  BY DEF Shapes
<1>1. \A d \in Calls \ {c} : d \in Charged' <=> d \in Charged
  BY OthersStand DEF Charged
<1>2. ASSUME UpdateNaive(c) PROVE c \notin Charged /\ c \in Charged'
  BY <1>0, <1>2 DEF UpdateNaive, Charged, Shape, Goto, Leave, TypeOK
<1>3. ASSUME InsertNaive(c)
      PROVE  /\ c \in Charged
             /\ \/ UNCHANGED ordered /\ c \in Charged'
                \/ /\ RequestOf[c] \notin ordered
                   /\ ordered' = ordered \cup {RequestOf[c]}
                   /\ c \notin Charged'
  BY <1>0, <1>3 DEF InsertNaive, Duplicate, Charged, Goto, Leave, Leaving, Locking, TypeOK
<1>4. ASSUME ~UpdateNaive(c), ~InsertNaive(c) PROVE c \in Charged' <=> c \in Charged
  <2> USE DEF Charged, Shape, TypeOK, Goto, Leave, Leaving
  <2>1. CASE PlaceOrderTx(c) \/ Start(c)
    BY <1>0, <2>1 DEF PlaceOrderTx, Start, Acquire, PreDeduct, Locking
  <2>2. CASE Read(c) \/ Update(c) \/ Insert(c)
    BY <1>0, <2>2 DEF Read, Update, Insert
  <2>3. CASE Commit(c) \/ Fail(c) \/ Crash(c)
    BY <1>0, <2>3 DEF Commit, Fail, Crash, Locking
  <2>4. CASE Restore(c) \/ Release(c) \/ WatchdogStops(c)
    BY <1>0, <2>4 DEF Restore, Release, WatchdogStops
  <2> QED BY <1>4, <2>1, <2>2, <2>3, <2>4 DEF Acts, Proceed
<1>5. Charged \subseteq Calls /\ Charged' \subseteq Calls
  BY DEF Charged
<1> QED BY <1>1, <1>2, <1>3, <1>4, <1>5

\* An order goes in together with the stock that was taken for it.
LEMMA BooksStand ==
    ASSUME Shapes, \A e \in Calls : Fresh(e), StockMatchesOrders, NEW c \in Calls, Acts(c)
    PROVE  StockMatchesOrders'
<1> DEFINE O == Cardinality(UnitsOrdered)
           C == Cardinality(UnitsCharged)
           r == RequestOf[c]
<1>0. /\ stock \in Int /\ InitialStock \in Nat /\ stock + O + C = InitialStock
      /\ r \in Requests /\ Q(c) \in Nat /\ Qty[r] = Q(c)
      /\ ordered \in SUBSET Requests /\ ordered' \in SUBSET Requests
      /\ Charged \in SUBSET Calls /\ Charged' \in SUBSET Calls
  BY TypesStand, QuantitiesAreTyped, PathsAssumption
  DEF Shapes, TypeOK, StockMatchesOrders, PathsAssumption, Q, Charged
<1>1. /\ O \in Nat /\ O' \in Nat
      /\ r \notin ordered /\ ordered' = ordered \cup {r} => O' = O + Q(c)
      /\ ordered' = ordered => O' = O
  BY <1>0, RequestCells, UnitsAreCells, ShapeStands
<1>2. /\ C \in Nat /\ C' \in Nat
      /\ c \notin Charged /\ Charged' = Charged \cup {c} => C' = C + Q(c)
      /\ c \in Charged /\ Charged' = Charged \ {c} => C = C' + Q(c)
      /\ Charged' = Charged => C' = C
  <2>1. c \in Charged /\ Charged' = Charged \ {c} => Charged = Charged' \cup {c} /\ c \notin Charged'
    OBVIOUS
  <2>2. /\ C \in Nat /\ C' \in Nat
        /\ c \notin Charged /\ Charged' = Charged \cup {c} => C' = C + Q(c)
        /\ Charged' = Charged => C' = C
    BY <1>0, CallCells, UnitsAreCells, ShapeStands
  <2>3. c \notin Charged' /\ Charged = Charged' \cup {c} => C = C' + Q(c)
    BY <1>0, CallCells, UnitsAreCells, ShapeStands
  <2> QED BY <2>1, <2>2, <2>3
<1> HIDE DEF O, C
<1>3. stock' + O' + C' = InitialStock
  <2>1. CASE UNCHANGED row /\ ~UpdateNaive(c) /\ ~InsertNaive(c)
    BY <1>0, <1>1, <1>2, <2>1, ChargedMoves DEF row
  <2>2. CASE PlaceOrderTx(c)
    <3>1. ~UpdateNaive(c) /\ ~InsertNaive(c)
      BY <2>2 DEF PlaceOrderTx, UpdateNaive, InsertNaive
    <3>2. \/ stock' = stock /\ ordered' = ordered
          \/ stock' = stock - Q(c) /\ r \notin ordered /\ ordered' = ordered \cup {r}
      BY <2>2 DEF PlaceOrderTx, row
    <3> QED BY <1>0, <1>1, <1>2, <3>1, <3>2, ChargedMoves
  <2>3. CASE Commit(c)
    <3>1. ~UpdateNaive(c) /\ ~InsertNaive(c)
      BY <2>3 DEF Commit, UpdateNaive, InsertNaive
    <3>2. stock' = stock - Q(c) /\ r \notin ordered /\ ordered' = ordered \cup {r}
      BY <2>3 DEF Commit, Place, Fresh
    <3> QED BY <1>0, <1>1, <1>2, <3>1, <3>2, ChargedMoves
  <2>4. CASE UpdateNaive(c)
    <3>1. stock' = stock - Q(c) /\ ordered' = ordered
      BY <2>4 DEF UpdateNaive
    <3> QED BY <1>0, <1>1, <1>2, <2>4, <3>1, ChargedMoves
  <2>5. CASE InsertNaive(c)
    <3>1. stock' = stock
      BY <2>5 DEF InsertNaive
    <3>2. CASE ordered' = ordered /\ Charged' = Charged
      BY <1>0, <1>1, <1>2, <3>1, <3>2
    <3>3. CASE /\ r \notin ordered /\ ordered' = ordered \cup {r}
               /\ c \in Charged /\ Charged' = Charged \ {c}
      <4>1. O' = O + Q(c) /\ C = C' + Q(c)
        BY <1>1, <1>2, <3>3
      <4> QED BY <1>0, <1>1, <1>2, <3>1, <4>1
    <3> QED BY <2>5, <3>2, <3>3, ChargedMoves
  <2> QED BY <2>1, <2>2, <2>3, <2>4, <2>5, TablesStand
<1> QED BY <1>3 DEF StockMatchesOrders, O, C

-------------------------------------------------------------------------------
\* A call that has returned takes no more steps.
LEMMA ReturnedStands ==
    ASSUME Shapes, NEW c \in Calls, Acts(c)
    PROVE  step[c] # "done"
  BY DEF Acts, Proceed, PlaceOrderTx, Start, Read, Update, Insert, Commit, Fail, Crash,
         UpdateNaive, InsertNaive, Restore, Release, WatchdogStops, Watched

\* What makes overselling possible stays.
LEMMA SafeBefore ==
    ASSUME Shapes, NEW c \in Calls, Acts(c)
    PROVE  /\ (\A d \in Calls : ~Returned(d))' => \A d \in Calls : ~Returned(d)
           /\ Safe' => Safe
           /\ \A kind : Only(kind)' <=> Only(kind)
<1>1. approach' = approach
  BY OthersStand
<1>2. \A kind : Only(kind)' <=> Only(kind)
  BY <1>1 DEF Only
<1>3. (\A d \in Calls : ~Returned(d))' => \A d \in Calls : ~Returned(d)
  BY ReturnedStands, OthersStand DEF Returned
<1>4. overrun' = {} => overrun = {}
  BY OthersStand
<1>5. Alike' <=> Alike
  BY <1>1 DEF Alike, Only
<1> QED BY <1>2, <1>3, <1>4, <1>5 DEF Safe

\* Where approaches guard the stock alike, it is sold by somebody it suffices for.
LEMMA SalesAreCovered ==
    ASSUME Shapes, Guards, Safe, NEW c \in Calls, Acts(c)
    PROVE  \/ stock' = stock /\ version' = version
           \/ /\ stock >= Q(c) /\ stock' = stock - Q(c)
              /\ PlaceOrderTx(c) \/ Commit(c)
<1>1. approach[c] # "naive"
  BY DEF Safe, Alike, Only
<1>2. ~UpdateNaive(c) /\ ~InsertNaive(c)
  BY <1>1 DEF UpdateNaive, InsertNaive
<1>3. CASE UNCHANGED row
  BY <1>3 DEF row
<1>4. CASE PlaceOrderTx(c)
  BY <1>4 DEF PlaceOrderTx, row
<1>5. CASE Commit(c)
  BY <1>5 DEF Commit, Place, Guards, Guarded, Statements
<1> QED BY <1>2, <1>3, <1>4, <1>5, TablesStand

\* The guard of a call stands while others sell.
LEMMA GuardOfOthersStands ==
    ASSUME Shapes, Guards, LockLostOnlyByExpiry, \A e \in Calls : Overtaken(e), Safe,
           NEW c \in Calls, Acts(c), NEW d \in Calls \ {c}
    PROVE  Guarded(d)'
<1>0. Guarded(d) /\ Overtaken(d) /\ Shape(c) /\ Shape(d) /\ TypeOK
  BY DEF Guards, Shapes
<1>1. /\ approach' = approach /\ step'[d] = step[d] /\ seen'[d] = seen[d]
      /\ Locking(d)' <=> Locking(d)
  BY OthersStand DEF Locking
<1>2. CASE stock' = stock /\ version' = version
  BY <1>0, <1>1, <1>2 DEF Guarded, Q
<1>3. CASE PlaceOrderTx(c) \/ Commit(c)
  <2>1. rowHolder # d
    BY <1>0, <1>3, PathsAssumption
    DEF PlaceOrderTx, Commit, Shape, Statements, PathsAssumption
  <2>2. step[d] \notin Statements
    <3>1. approach[d] # "naive"
      BY DEF Safe, Alike, Only
    <3> QED BY <1>0, <2>1, <3>1 DEF Shape
  <2>3. ~(Locking(d) /\ step[d] = "update")
    <3> SUFFICES ASSUME Locking(d), step[d] = "update" PROVE FALSE
      OBVIOUS
    <3>1. Commit(c) /\ Locking(c)
      <4>1. approach[c] \in {"lock", "watched", "none"}
        BY DEF Locking, Safe, Alike, Only
      <4>2. step[c] # "done"
        BY ReturnedStands
      <4> QED BY <1>0, <1>3, <4>1, <4>2 DEF Locking, PlaceOrderTx, Shape
    <3>2. c \in Inside /\ d \in Inside
      BY <3>1 DEF Commit, Inside
    <3> QED BY <3>2 DEF LockLostOnlyByExpiry, Safe
  <2>4. ASSUME approach[d] = "cas", step[d] = "update"
        PROVE  seen[d].stock >= Q(d) /\ seen[d].version # version'
    <3>1. Commit(c) /\ approach[c] = "cas"
      BY <1>0, <1>3, <2>4 DEF Safe, Alike, Only, PlaceOrderTx, Commit, Shape
    <3>2. version' = version + 1 /\ seen[d].version <= version
      BY <1>0, <3>1 DEF Commit, Place, Overtaken
    <3>3. version \in Nat /\ seen[d].version \in Nat
      BY <1>0 DEF TypeOK
    <3> QED BY <1>0, <2>4, <3>2, <3>3 DEF Guarded
  <2> QED BY <1>1, <2>2, <2>3, <2>4 DEF Guarded, Q
<1> QED BY <1>2, <1>3, SalesAreCovered

\* What is held of Redis covers each call that holds it.
LEMMA GateCoversCall ==
    ASSUME Shapes, GateBalances, Safe, NEW c \in Calls, approach[c] = "lua", step[c] = "update",
           Acts(c)
    PROVE  stock >= Q(c)
<1>1. Only({"lua"}) /\ (\A d \in Calls : ~Returned(d))
  BY DEF Safe, Alike, Only
<1>2. SoldPast = {}
  BY <1>1 DEF SoldPast, Returned, Only, Shapes, Shape, TypeOK, Steps
<1>3. c \in Pledged /\ Pledged \in SUBSET Calls
  BY DEF Pledged, Taken, Kept, Shapes, Shape
<1>4. Pledged \ {c} \in SUBSET Calls /\ c \notin Pledged \ {c} /\ Pledged = (Pledged \ {c}) \cup {c}
  BY <1>3
<1>5. /\ Cardinality(Cells(Pledged \ {c}, CallQty)) \in Nat
      /\ Cardinality(Cells(Pledged, CallQty)) = Cardinality(Cells(Pledged \ {c}, CallQty)) + Q(c)
  BY <1>3, <1>4, CallCells
<1>6. Cardinality(UnitsOf(Pledged)) >= Q(c) /\ Cardinality(UnitsOf(Pledged)) \in Nat
  BY <1>5, UnitsAreCells, ShapeStands, QuantitiesAreTyped
<1>7. Cardinality(UnitsOf(SoldPast)) = 0
  BY <1>2, FS_EmptySet DEF UnitsOf
<1> QED BY <1>6, <1>7, QuantitiesAreTyped DEF GateBalances, Shapes, TypeOK

\* A call is satisfied with the stock as it is when it takes the row, or as it was
\* when it read it and nobody could change it since.
LEMMA GuardOfOwnStands ==
    ASSUME Shapes, Guards, GateBalances, Safe, NEW c \in Calls, Acts(c)
    PROVE  Guarded(c)'
<1>0. Guarded(c) /\ Shape(c) /\ TypeOK /\ approach[c] # "naive"
  BY DEF Guards, Shapes, Safe, Alike, Only
<1>1. approach' = approach /\ (Locking(c)' <=> Locking(c)) /\ Q(c)' = Q(c)
  BY OthersStand DEF Locking, Q
<1>2. CASE Read(c)
  BY <1>0, <1>1, <1>2 DEF Read, Guarded, Statements, Leave, Leaving, Goto, row, TypeOK
<1>3. CASE Update(c)
  <2>1. step[c] = "update" /\ stock' = stock
    BY <1>3 DEF Update, row
  <2>2. step'[c] \notin {"update", "commit"}
    BY <1>0, <1>3 DEF Update, Leave, Leaving, Goto, TypeOK
  <2>3. ASSUME step'[c] = "insert" PROVE stock >= Q(c)
    <3>1. Updated(c)
      BY <1>0, <1>3, <2>3 DEF Update, Leave, Leaving, Goto, TypeOK
    <3>2. CASE Locking(c)
      BY <1>0, <2>1, <3>2 DEF Guarded
    <3>3. CASE approach[c] = "lua"
      BY <2>1, <3>3, GateCoversCall
    <3>4. CASE approach[c] \in {"cas", "conditional"}
      BY <1>0, <2>1, <3>1, <3>4 DEF Guarded, Updated
    <3> QED BY <1>0, <2>1, <3>2, <3>3, <3>4 DEF Safe, Alike, Only, Locking, Shape
  <2> QED BY <1>1, <2>1, <2>2, <2>3 DEF Guarded, Statements
<1>4. CASE Insert(c)
  BY <1>0, <1>1, <1>4 DEF Insert, Guarded, Statements, Leave, Leaving, Goto, row, TypeOK
<1>5. CASE WatchdogStops(c)
  BY <1>0, <1>1, <1>5 DEF WatchdogStops, Guarded, row, private
<1>6. CASE ~(Read(c) \/ Update(c) \/ Insert(c) \/ WatchdogStops(c))
  <2>1. step'[c] \notin Statements
    <3>1. CASE PlaceOrderTx(c) \/ Start(c)
      BY <1>0, <3>1 DEF PlaceOrderTx, Start, Acquire, PreDeduct, Goto, Statements, TypeOK
    <3>2. CASE Commit(c) \/ Fail(c) \/ Crash(c)
      BY <1>0, <3>2 DEF Commit, Fail, Crash, Leave, Leaving, Goto, Statements, TypeOK
    <3>3. CASE UpdateNaive(c) \/ InsertNaive(c) \/ Restore(c) \/ Release(c)
      BY <1>0, <3>3 DEF UpdateNaive, InsertNaive, Restore, Release, Goto, Statements, TypeOK
    <3> QED BY <1>6, <3>1, <3>2, <3>3 DEF Acts, Proceed
  <2>2. step'[c] = "update" => approach[c] \notin {"cas", "lock", "watched"}
    <3>1. CASE PlaceOrderTx(c) \/ Start(c)
      BY <1>0, <3>1 DEF PlaceOrderTx, Start, Acquire, PreDeduct, Goto, Locking, TypeOK
    <3>2. CASE Commit(c) \/ Fail(c) \/ Crash(c)
      BY <1>0, <3>2 DEF Commit, Fail, Crash, Leave, Leaving, Goto, TypeOK
    <3>3. CASE UpdateNaive(c) \/ InsertNaive(c) \/ Restore(c) \/ Release(c)
      BY <1>0, <3>3 DEF UpdateNaive, InsertNaive, Restore, Release, Goto, TypeOK
    <3> QED BY <1>6, <3>1, <3>2, <3>3 DEF Acts, Proceed
  <2> QED BY <1>1, <2>1, <2>2 DEF Guarded, Locking
<1> QED BY <1>2, <1>3, <1>4, <1>5, <1>6

LEMMA GuardsStand ==
    ASSUME Shapes, Guards, GateBalances, LockLostOnlyByExpiry, \A e \in Calls : Overtaken(e),
           NEW c \in Calls, Acts(c)
    PROVE  Guards'
<1> SUFFICES ASSUME Safe' PROVE stock' >= 0 /\ \A d \in Calls : Guarded(d)'
  BY DEF Guards
<1>1. Safe
  BY SafeBefore
<1>2. stock' >= 0
  <2>1. stock \in Int /\ stock >= 0 /\ Q(c) \in Nat
    BY <1>1, QuantitiesAreTyped DEF Guards, Shapes, TypeOK
  <2> QED BY <1>1, <2>1, SalesAreCovered
<1> QED BY <1>1, <1>2, GuardOfOthersStands, GuardOfOwnStands

-------------------------------------------------------------------------------
\* A step of a call takes from Redis, gives back to it, or sells for what it took or past it.
LEMMA UnitsMove ==
    ASSUME Shapes, NEW c \in Calls, Acts(c)
    PROVE  \/ Pledged' = Pledged /\ SoldPast' = SoldPast /\ redis' = redis /\ stock' = stock
           \/ /\ c \notin Pledged /\ Pledged' = Pledged \cup {c} /\ SoldPast' = SoldPast
              /\ redis' = redis - Q(c) /\ stock' = stock
           \/ /\ c \in Pledged /\ Pledged' = Pledged \ {c} /\ SoldPast' = SoldPast
              /\ \/ redis' = redis /\ stock' = stock - Q(c)
                 \/ redis' = redis + Q(c) /\ stock' = stock
           \/ /\ c \notin SoldPast /\ SoldPast' = SoldPast \cup {c} /\ Pledged' = Pledged
              /\ \/ redis' = redis /\ stock' = stock - Q(c)
                 \/ redis' = redis + Q(c) /\ stock' = stock
<1>0. Shape(c) /\ TypeOK /\ step[c] # "done" /\ approach' = approach
  BY ReturnedStands, OthersStand DEF Shapes
<1>1. \A d \in Calls \ {c} : (d \in Pledged' <=> d \in Pledged) /\ (d \in SoldPast' <=> d \in SoldPast)
  BY OthersStand DEF Pledged, Taken, Kept, SoldPast
<1>2. /\ Pledged \subseteq Calls /\ Pledged' \subseteq Calls
      /\ SoldPast \subseteq Calls /\ SoldPast' \subseteq Calls
  BY ShapeStands DEF Pledged, Taken, Kept, SoldPast, Shapes, TypeOK
<1> DEFINE Same == (c \in Pledged' <=> c \in Pledged) /\ (c \in SoldPast' <=> c \in SoldPast)
           Goal == \/ Same /\ redis' = redis /\ stock' = stock
                   \/ /\ c \notin Pledged /\ c \in Pledged' /\ (c \in SoldPast' <=> c \in SoldPast)
                      /\ redis' = redis - Q(c) /\ stock' = stock
                   \/ /\ c \in Pledged /\ c \notin Pledged' /\ (c \in SoldPast' <=> c \in SoldPast)
                      /\ \/ redis' = redis /\ stock' = stock - Q(c)
                         \/ redis' = redis + Q(c) /\ stock' = stock
                   \/ /\ c \notin SoldPast /\ c \in SoldPast' /\ (c \in Pledged' <=> c \in Pledged)
                      /\ \/ redis' = redis /\ stock' = stock - Q(c)
                         \/ redis' = redis + Q(c) /\ stock' = stock
<1> SUFFICES Goal
  BY <1>1, <1>2
<1> USE DEF Pledged, Taken, Kept, SoldPast, Shape, TypeOK, Goto, Statements
<1>3. CASE Start(c)
  BY <1>0, <1>3 DEF Start, Acquire, PreDeduct, Locking, locks, row
<1>4. CASE Read(c) \/ Insert(c)
  BY <1>0, <1>4 DEF Read, Insert, Leave, Leaving, Locking, locks, row
<1>5. CASE Update(c)
  BY <1>0, <1>5 DEF Update, Updated, Leave, Leaving, Locking, locks, row
<1>6. CASE Fail(c) \/ Crash(c)
  BY <1>0, <1>6 DEF Fail, Crash, Leave, Leaving, Locking, locks, row
<1>7. CASE PlaceOrderTx(c)
  BY <1>0, <1>7 DEF PlaceOrderTx, locks, row
<1>8. CASE Commit(c)
  BY <1>0, <1>8 DEF Commit, Place, Leave, Leaving, Locking, locks
<1>9. CASE UpdateNaive(c) \/ InsertNaive(c)
  BY <1>0, <1>9 DEF UpdateNaive, InsertNaive, Leave, Leaving, Locking, locks
<1>10. CASE Restore(c)
  BY <1>0, <1>10 DEF Restore, row
<1>11. CASE Release(c) \/ WatchdogStops(c)
  BY <1>0, <1>11 DEF Release, WatchdogStops, Locking, row
<1> QED BY <1>3, <1>4, <1>5, <1>6, <1>7, <1>8, <1>9, <1>10, <1>11 DEF Acts, Proceed

LEMMA GateStands ==
    ASSUME Shapes, GateBalances, NEW c \in Calls, Acts(c)
    PROVE  GateBalances'
<1> DEFINE P == Cardinality(UnitsOf(Pledged))
           S == Cardinality(UnitsOf(SoldPast))
<1>1. /\ Pledged \in SUBSET Calls /\ Pledged' \in SUBSET Calls
      /\ SoldPast \in SUBSET Calls /\ SoldPast' \in SUBSET Calls
  BY ShapeStands DEF Pledged, Taken, Kept, SoldPast, Shapes, TypeOK
<1>2. /\ P \in Nat /\ P' \in Nat /\ S \in Nat /\ S' \in Nat
      /\ Pledged' = Pledged => P' = P
      /\ SoldPast' = SoldPast => S' = S
      /\ c \notin Pledged /\ Pledged' = Pledged \cup {c} => P' = P + Q(c)
      /\ c \notin SoldPast /\ SoldPast' = SoldPast \cup {c} => S' = S + Q(c)
  BY <1>1, CallCells, UnitsAreCells, ShapeStands
<1>3. c \in Pledged /\ Pledged' = Pledged \ {c} => P = P' + Q(c)
  <2>1. c \in Pledged /\ Pledged' = Pledged \ {c} => c \notin Pledged' /\ Pledged = Pledged' \cup {c}
    OBVIOUS
  <2> QED BY <1>1, <2>1, CallCells, UnitsAreCells, ShapeStands
<1> HIDE DEF P, S
<1>4. redis \in Nat /\ stock \in Int /\ redis' \in Nat /\ stock' \in Int /\ Q(c) \in Nat
  BY TypesStand, QuantitiesAreTyped DEF Shapes, TypeOK
<1>5. redis + P = stock + S
  BY DEF GateBalances, P, S
<1>6. \/ P' = P /\ S' = S /\ redis' = redis /\ stock' = stock
      \/ P' = P + Q(c) /\ S' = S /\ redis' = redis - Q(c) /\ stock' = stock
      \/ P = P' + Q(c) /\ S' = S /\ redis' = redis /\ stock' = stock - Q(c)
      \/ P = P' + Q(c) /\ S' = S /\ redis' = redis + Q(c) /\ stock' = stock
      \/ P' = P /\ S' = S + Q(c) /\ redis' = redis /\ stock' = stock - Q(c)
      \/ P' = P /\ S' = S + Q(c) /\ redis' = redis + Q(c) /\ stock' = stock
  BY <1>2, <1>3, UnitsMove
<1>7. redis' + P' = stock' + S'
  BY <1>2, <1>4, <1>5, <1>6
<1> QED BY <1>7 DEF GateBalances, P, S

-------------------------------------------------------------------------------
\* The TTL takes the lock from a process that died, or is on record.
LEMMA ExpireKeeps == ASSUME IndInv, Expire PROVE IndInv'
<1> USE PathsAssumption DEF PathsAssumption
<1>1. /\ UNCHANGED <<approach, row, rowHolder, redis, blind, step, private, outcome, sold>>
      /\ lockKey' = NoCall /\ overrun \subseteq overrun' /\ overrun' \subseteq Calls
      /\ \A d \in Calls : lockKey = d /\ step[d] # "done" => d \in overrun'
  BY DEF Expire, IndInv, Shapes, TypeOK
<1> USE DEF IndInv, row, private
<1>2. Shapes'
  BY <1>1 DEF Shapes, TypeOK, Shape, Locking
<1>3. \A d \in Calls : Fresh(d)' /\ Overtaken(d)'
  BY <1>1 DEF Fresh, Overtaken
<1>4. StockMatchesOrders'
  <2>1. UnitsOrdered' = UnitsOrdered
    BY <1>1 DEF UnitsOrdered
  <2>2. UnitsCharged' = UnitsCharged
    BY <1>1 DEF UnitsCharged, Charged
  <2> QED BY <1>1, <2>1, <2>2 DEF StockMatchesOrders
<1>5. LockLostOnlyByExpiry'
  BY <1>1 DEF LockLostOnlyByExpiry, Inside, Locking
<1>6. ExhaustedWasOvertaken'
  BY <1>1 DEF ExhaustedWasOvertaken
<1>7. Guards'
  <2>1. Safe' => Safe
    BY <1>1 DEF Safe, Alike, Only, Returned
  <2> QED BY <1>1, <2>1 DEF Guards, Guarded, Locking, Q
<1>8. GateBalances'
  <2>1. Pledged' = Pledged /\ SoldPast' = SoldPast
    BY <1>1 DEF Pledged, Taken, Kept, SoldPast
  <2>2. UnitsOf(Pledged)' = UnitsOf(Pledged) /\ UnitsOf(SoldPast)' = UnitsOf(SoldPast)
    BY <2>1 DEF UnitsOf, Q
  <2> QED BY <1>1, <2>2 DEF GateBalances
<1> QED BY <1>2, <1>3, <1>4, <1>5, <1>6, <1>7, <1>8

LEMMA StutterKeeps == ASSUME IndInv, UNCHANGED vars PROVE IndInv'
<1> USE DEF IndInv, vars, row, private, locks
<1>1. Shapes' /\ (\A d \in Calls : Fresh(d)' /\ Overtaken(d)')
  BY DEF Shapes, TypeOK, Shape, Locking, Fresh, Overtaken
<1>2. StockMatchesOrders'
  <2>1. UnitsOrdered' = UnitsOrdered
    BY DEF UnitsOrdered
  <2>2. UnitsCharged' = UnitsCharged
    BY DEF UnitsCharged, Charged
  <2> QED BY <2>1, <2>2 DEF StockMatchesOrders
<1>3. LockLostOnlyByExpiry' /\ ExhaustedWasOvertaken'
  BY DEF LockLostOnlyByExpiry, Inside, Locking, ExhaustedWasOvertaken
<1>4. Guards'
  BY DEF Guards, Guarded, Safe, Alike, Only, Returned, Locking, Q
<1>5. GateBalances'
  <2>1. Pledged' = Pledged /\ SoldPast' = SoldPast
    BY DEF Pledged, Taken, Kept, SoldPast
  <2>2. UnitsOf(Pledged)' = UnitsOf(Pledged) /\ UnitsOf(SoldPast)' = UnitsOf(SoldPast)
    BY <2>1 DEF UnitsOf, Q
  <2> QED BY <2>2 DEF GateBalances
<1> QED BY <1>1, <1>2, <1>3, <1>4, <1>5

LEMMA InitEstablishes == Init => IndInv
<1> SUFFICES ASSUME Init PROVE IndInv
  OBVIOUS
<1> USE PathsAssumption DEF PathsAssumption
<1>1. TypeOK
  BY DEF Init, TypeOK, Steps, Outcomes
<1>2. Shapes
  <2>1. \A c \in Calls : approach[c] \in Approaches \cup {"none"}
    BY DEF Init
  <2> QED BY <1>1, <2>1 DEF Init, Shapes, Shape, Statements, Locking, Approaches
<1>3. \A c \in Calls : Fresh(c) /\ Overtaken(c)
  BY DEF Init, Fresh, Overtaken
<1>4. Charged = {} /\ Pledged = {} /\ SoldPast = {} /\ Inside = {}
  BY DEF Init, Charged, Pledged, Taken, Kept, SoldPast, Inside
<1>5. /\ UnitsOrdered = {} /\ UnitsCharged = {}
      /\ UnitsOf(Pledged) = {} /\ UnitsOf(SoldPast) = {}
      /\ stock = InitialStock /\ redis = InitialStock
  BY <1>4 DEF Init, UnitsOrdered, UnitsCharged, UnitsOf
<1>6. StockMatchesOrders /\ GateBalances
  BY <1>5, FS_EmptySet DEF StockMatchesOrders, GateBalances
<1>7. LockLostOnlyByExpiry /\ ExhaustedWasOvertaken
  BY <1>4 DEF LockLostOnlyByExpiry, ExhaustedWasOvertaken, Init
<1>8. Guards
  BY DEF Init, Guards, Guarded, Statements
<1> QED BY <1>2, <1>3, <1>6, <1>7, <1>8 DEF IndInv

LEMMA NextKeeps == IndInv /\ [Next]_vars => IndInv'
<1> SUFFICES ASSUME IndInv, [Next]_vars PROVE IndInv'
  OBVIOUS
<1>1. ASSUME NEW c \in Calls, Acts(c) PROVE IndInv'
  <2>1. Shapes'
    BY <1>1, ShapeStands DEF IndInv
  <2>2. \A d \in Calls : Fresh(d)' /\ Overtaken(d)'
    BY <1>1, FreshStands, OvertakenStands DEF IndInv
  <2>3. StockMatchesOrders' /\ LockLostOnlyByExpiry' /\ ExhaustedWasOvertaken'
    BY <1>1, BooksStand, LockStands, ExhaustedStands DEF IndInv
  <2>4. Guards' /\ GateBalances'
    BY <1>1, GuardsStand, GateStands DEF IndInv
  <2> QED BY <2>1, <2>2, <2>3, <2>4 DEF IndInv
<1> QED BY <1>1, ExpireKeeps, StutterKeeps DEF Next, Acts, Finished

\* The inductive invariant holds in every reachable state.
THEOREM Invariance == Spec => []IndInv
  BY InitEstablishes, NextKeeps, PTL DEF Spec

\* However approaches, failures, deaths and expiries are mixed: the stock taken is the
\* quantity ordered; the lock is lost by expiry only (lock.go:71-73); a CAS call that
\* gave up was overtaken (model.go:26-27); and stock that is not there is sold only if
\* one of the recorded mishaps happened or approaches were mixed that do not agree.
THEOREM PathsKeepTheBooks == Spec => []Inv
<1>1. IndInv => Inv
  <2> SUFFICES ASSUME IndInv PROVE Inv
    OBVIOUS
  <2>1. NoOversell
    BY DEF IndInv, Guards, Safe, Returned, NoOversell, Oversells, Met
  <2> QED BY <2>1 DEF IndInv, Inv, Shapes
<1> QED BY <1>1, Invariance, PTL

\* The UPDATE behind a pre-deduction needs no check of its own (prededuct.go:77), but for
\* the quantities of the calls that sold past Redis, whatever the approaches of the calls
\* and whichever commits and replies are lost.
THEOREM GateCovers == Spec => []GateCoversStock
<1>1. IndInv => GateCoversStock
  <2> SUFFICES ASSUME IndInv PROVE GateCoversStock
    OBVIOUS
  <2>1. /\ Taken \in SUBSET Pledged /\ Pledged \in SUBSET Calls /\ SoldPast \in SUBSET Calls
    BY DEF Pledged, Taken, Kept, SoldPast, IndInv, Shapes, TypeOK
  <2>2. IsFiniteSet(Calls) /\ CallQty \in [Calls -> Nat]
    BY QuantitiesAreTyped, PathsAssumption DEF CallQty, PathsAssumption
  <2>3. \A A \in SUBSET Calls : UnitsOf(A) = Cells(A, CallQty)
    BY DEF Cells, CallQty, UnitsOf
  <2>4. Cardinality(UnitsOf(Taken)) <= Cardinality(UnitsOf(Pledged))
    <3>1. Cardinality(Cells(Taken, CallQty)) <= Cardinality(Cells(Pledged, CallQty))
      BY <2>1, <2>2, CellsGrow
    <3> QED BY <2>1, <2>3, <3>1
  <2>5. /\ Cardinality(UnitsOf(Taken)) \in Nat /\ Cardinality(UnitsOf(Pledged)) \in Nat
        /\ Cardinality(UnitsOf(SoldPast)) \in Nat
    <3>1. /\ Cardinality(Cells(Taken, CallQty)) \in Nat
          /\ Cardinality(Cells(Pledged, CallQty)) \in Nat
          /\ Cardinality(Cells(SoldPast, CallQty)) \in Nat
      BY <2>1, <2>2, CellsAreFinite
    <3> QED BY <2>1, <2>3, <3>1
  <2>6. redis \in Nat /\ stock \in Int /\ GateBalances
    BY DEF IndInv, Shapes, TypeOK
  <2> QED BY <2>4, <2>5, <2>6 DEF GateBalances, GateCoversStock
<1> QED BY <1>1, Invariance, PTL

\* What was taken for orders that failed is given back (prededuct.go:79), but for the
\* calls whose compensation, or the reply of whose pre-deduction, was lost.
THEOREM GateSettles == Spec => []GateGivesBack
<1>1. IndInv => GateGivesBack
  <2> SUFFICES ASSUME IndInv, \A c \in Calls : step[c] = "done" PROVE GateGivesBack
    BY DEF GateGivesBack
  <2>1. Pledged = Kept
    BY DEF Pledged, Taken
  <2> QED BY <2>1 DEF IndInv, GateBalances, GateGivesBack
<1> QED BY <1>1, Invariance, PTL

-------------------------------------------------------------------------------
(***************************************************************************)
(* The refinement: as long as nothing of what may oversell has happened, a *)
(* step of any approach is one of OrderStore or none that it can see.      *)
(***************************************************************************)

\* What the store cannot see, the refusals and the one step that sells.
LEMMA Unseen ==
    ASSUME UNCHANGED <<stock, ordered>>, \A d \in Calls : Told(d)' = Told(d)
    PROVE  UNCHANGED Store!storeVars
  BY DEF Store!storeVars, RowOf, Argument

Answers(c, how) ==
    /\ Told(c) = "pending" /\ Told(c)' = how
    /\ \A d \in Calls \ {c} : Told(d)' = Told(d)

LEMMA AnswerIsGiven ==
    ASSUME NEW c \in Calls, NEW how, how # "pending", Answers(c, how)
    PROVE  Store!Answer(c, how, IF how = "ok" THEN RowOf(RequestOf[c]) ELSE NoCall)
<1>1. [d \in Calls |-> Told(d)]' = [[d \in Calls |-> Told(d)] EXCEPT ![c] = how]
  BY DEF Answers, Told
<1>2. [d \in Calls |-> IF Told(d) = "ok" THEN RowOf(RequestOf[d]) ELSE NoCall]'
        = [[d \in Calls |-> IF Told(d) = "ok" THEN RowOf(RequestOf[d]) ELSE NoCall]
              EXCEPT ![c] = IF how = "ok" THEN RowOf(RequestOf[c]) ELSE NoCall]
  BY DEF Answers, RowOf
<1> QED BY <1>1, <1>2 DEF Answers, Store!Answer

LEMMA RefusalIsSeen ==
    ASSUME UNCHANGED <<stock, ordered>>, NEW c \in Calls,
           \/ Answers(c, "error")
           \/ Answers(c, "insufficient") /\ stock < Q(c)
    PROVE  Store!Refuse(c)
<1>1. CASE Answers(c, "error")
  <2>1. Store!Answer(c, "error", NoCall)
    BY <1>1, AnswerIsGiven
  <2> QED BY <2>1 DEF Store!Refuse, RowOf, Argument
<1>2. CASE Answers(c, "insufficient") /\ stock < Q(c)
  <2>1. Store!Answer(c, "insufficient", NoCall)
    BY <1>2, AnswerIsGiven
  <2> QED BY <1>2, <2>1 DEF Store!Refuse, Store!Listed, RowOf, Argument, Q
<1> QED BY <1>1, <1>2

LEMMA RepetitionIsSeen ==
    ASSUME UNCHANGED <<stock, ordered>>, NEW c \in Calls, RequestOf[c] \in ordered,
           Answers(c, "ok")
    PROVE  Store!ReturnExisting(c)
<1>1. Store!Answer(c, "ok", RowOf(RequestOf[c]))
  BY AnswerIsGiven
<1>2. RowOf(RequestOf[c]) \in {RowOf(r) : r \in ordered}
  OBVIOUS
<1>3. RowOf(RequestOf[c]).request = Argument(RequestOf[c]).request
  BY DEF RowOf, Argument
<1> QED BY <1>1, <1>2, <1>3 DEF Store!ReturnExisting, RowOf, Argument

LEMMA SaleIsSeen ==
    ASSUME Shapes, NEW c \in Calls, stock >= Q(c), stock' = stock - Q(c),
           RequestOf[c] \notin ordered, ordered' = ordered \cup {RequestOf[c]},
           Answers(c, "ok") \/ Answers(c, "error")
    PROVE  Store!PlaceAtomically(c)
<1> DEFINE r == RequestOf[c]
<1>1. r \in Requests /\ Qty[r] \in Nat /\ Qty[r] > 0 /\ Qty[r] = Q(c)
  BY QuantitiesAreTyped DEF Q
<1>2. Store!Row(c, r) = RowOf(r)
  BY DEF Store!Row, RowOf, Argument
<1>3. Store!Answer(c, "ok", RowOf(r)) \/ Store!Answer(c, "error", NoCall)
  BY AnswerIsGiven
<1>4. \A o \in {RowOf(x) : x \in ordered} : ~Store!SameKey(o, RowOf(r))
  BY DEF RowOf, Store!SameKey
<1>5. {RowOf(x) : x \in ordered}' = {RowOf(x) : x \in ordered} \cup {RowOf(r)}
  BY DEF RowOf
<1>6. Argument(r).qty = Qty[r] /\ Argument(r).product = "it"
  BY DEF Argument
<1>7. [p \in {"it"} |-> stock]' = [[p \in {"it"} |-> stock] EXCEPT !["it"] = @ - Qty[r]]
  BY <1>1
<1>8. [d \in Calls |-> Argument(RequestOf[d])]' = [d \in Calls |-> Argument(RequestOf[d])]
  BY DEF Argument
<1>9. "it" \in Store!Listed
  BY DEF Store!Listed
<1>10. \E i \in Requests :
         /\ \A o \in {RowOf(x) : x \in ordered} : ~Store!SameKey(o, Store!Row(c, i))
         /\ {RowOf(x) : x \in ordered}' = {RowOf(x) : x \in ordered} \cup {Store!Row(c, i)}
         /\ \/ Store!Answer(c, "ok", Store!Row(c, i))
            \/ Store!Answer(c, "error", NoCall)
  BY <1>1, <1>2, <1>3, <1>4, <1>5
<1> QED BY <1>1, <1>6, <1>7, <1>8, <1>9, <1>10 DEF Store!PlaceAtomically

\* A step of a call that has not ended answers nobody but its caller.
LEMMA OnlyOwnAnswer ==
    ASSUME Shapes, NEW c \in Calls, Acts(c)
    PROVE  /\ \A d \in Calls \ {c} : Told(d)' = Told(d)
           /\ step[c] \in {"start", "read", "update", "insert", "commit"} => Told(c) = "pending"
<1>1. \A d \in Calls \ {c} : Told(d)' = Told(d)
  BY OthersStand DEF Told
<1>2. step[c] \in {"start", "read", "update", "insert", "commit"} => Told(c) = "pending"
  BY DEF Shapes, Shape, Told
<1> QED BY <1>1, <1>2

\* What a step leaves to see when it is no sale.
LEMMA NothingSold ==
    ASSUME Shapes, NEW c \in Calls, Acts(c), UNCHANGED <<stock, ordered>>,
           \/ Told(c)' = Told(c)
           \/ /\ step[c] \in {"start", "read", "update", "insert", "commit"}
              /\ \/ Told(c)' = "error"
                 \/ Told(c)' = "insufficient" /\ stock < Q(c)
                 \/ Told(c)' = "ok" /\ RequestOf[c] \in ordered
    PROVE  [Store!StoreNext]_(Store!storeVars)
<1>1. CASE Told(c)' = Told(c)
  BY <1>1, OnlyOwnAnswer, Unseen
<1>2. CASE /\ step[c] \in {"start", "read", "update", "insert", "commit"}
           /\ Told(c)' = "error"
  BY <1>2, OnlyOwnAnswer, RefusalIsSeen DEF Answers, Store!StoreNext
<1>3. CASE /\ step[c] \in {"start", "read", "update", "insert", "commit"}
           /\ Told(c)' = "insufficient" /\ stock < Q(c)
  BY <1>3, OnlyOwnAnswer, RefusalIsSeen DEF Answers, Store!StoreNext
<1>4. CASE /\ step[c] \in {"start", "read", "update", "insert", "commit"}
           /\ Told(c)' = "ok" /\ RequestOf[c] \in ordered
  BY <1>4, OnlyOwnAnswer, RepetitionIsSeen DEF Answers, Store!StoreNext
<1> QED BY <1>1, <1>2, <1>3, <1>4

LEMMA StepSimulation ==
    ASSUME IndInv, Safe, NEW c \in Calls, Acts(c)
    PROVE  [Store!StoreNext]_(Store!storeVars)
<1> DEFINE Busy == step[c] \in {"start", "read", "update", "insert", "commit"}
           Answered(how) == outcome' = [outcome EXCEPT ![c] = how]
<1>0. /\ Shapes /\ Shape(c) /\ Guarded(c) /\ Fresh(c) /\ TypeOK
      /\ approach' = approach /\ approach[c] \notin {"naive", "none"}
  BY ReturnedStands, OthersStand
  DEF IndInv, Shapes, Shape, Guards, Safe, Alike, Only
<1>1. /\ UNCHANGED outcome => Told(c)' = Told(c)
      /\ Answered("ok") => Told(c)' = "ok"
      /\ \A how \in {"exhausted", "conflict", "unknown", "kept", "crashed", "error"} :
             Answered(how) => Told(c)' = "error"
      /\ Answered("insufficient") =>
             Told(c)' = IF approach[c] = "lua" THEN "error" ELSE "insufficient"
  BY <1>0 DEF Told, TypeOK
<1>2. CASE PlaceOrderTx(c)
  <2>1. approach[c] # "lua" /\ step[c] = "start"
    BY <1>2 DEF PlaceOrderTx
  <2>2. CASE UNCHANGED row /\ (Answered("error") \/ (Answered("ok") /\ RequestOf[c] \in ordered))
    BY <1>0, <1>1, <2>1, <2>2, NothingSold DEF row
  <2>3. CASE UNCHANGED row /\ Answered("insufficient") /\ stock < Q(c)
    BY <1>0, <1>1, <2>1, <2>3, NothingSold DEF row
  <2>4. CASE /\ stock >= Q(c) /\ stock' = stock - Q(c) /\ RequestOf[c] \notin ordered
             /\ ordered' = ordered \cup {RequestOf[c]} /\ (Answered("ok") \/ Answered("unknown"))
    BY <1>0, <1>1, <2>1, <2>4, OnlyOwnAnswer, SaleIsSeen DEF Answers, Store!StoreNext
  <2> QED BY <1>2, <2>2, <2>3, <2>4 DEF PlaceOrderTx
<1>3. CASE Commit(c)
  <2>1. /\ stock >= Q(c) /\ stock' = stock - Q(c) /\ RequestOf[c] \notin ordered
        /\ ordered' = ordered \cup {RequestOf[c]} /\ step[c] = "commit"
    BY <1>0, <1>3 DEF Commit, Place, Guarded, Fresh, Statements
  <2>2. Answered("ok") \/ Answered("unknown")
    BY <1>3 DEF Commit, Leave
  <2>3. Told(c)' = "ok" \/ Told(c)' = "error"
    BY <1>1, <2>2
  <2> QED BY <1>0, <2>1, <2>3, OnlyOwnAnswer, SaleIsSeen DEF Answers, Store!StoreNext
<1>4. CASE ~PlaceOrderTx(c) /\ ~Commit(c)
  <2>1. UNCHANGED <<stock, ordered>>
    BY <1>0, <1>4, TablesStand DEF row, UpdateNaive, InsertNaive
  <2>2. CASE UNCHANGED outcome
    BY <1>0, <1>1, <2>1, <2>2, NothingSold
  <2>3. CASE Start(c) /\ ~UNCHANGED outcome
    <3>1. \/ Answered("conflict") \/ Answered("kept") \/ Answered("error")
          \/ Answered("insufficient") /\ approach[c] = "lua"
      BY <2>3 DEF Start, Acquire, PreDeduct
    <3>2. Told(c)' = "error" /\ step[c] = "start"
      BY <1>1, <2>3, <3>1 DEF Start
    <3> QED BY <1>0, <2>1, <3>2, NothingSold
  <2>4. CASE Read(c) /\ ~UNCHANGED outcome
    <3>1. Answered("insufficient") /\ stock < Q(c) /\ approach[c] # "lua" /\ step[c] = "read"
      BY <1>0, <2>4 DEF Read, Leave, Shape
    <3>2. Told(c)' = "insufficient"
      BY <1>1, <3>1
    <3> QED BY <1>0, <2>1, <3>1, <3>2, NothingSold
  <2>5. CASE Update(c) /\ ~UNCHANGED outcome
    <3>1. /\ ~Updated(c) /\ step[c] = "update"
          /\ Answered(IF approach[c] = "cas" THEN "exhausted" ELSE "insufficient")
      BY <2>5 DEF Update, Leave
    <3>2. CASE approach[c] = "cas"
      BY <1>0, <1>1, <2>1, <3>1, <3>2, NothingSold
    <3>3. CASE approach[c] # "cas"
      <4>1. approach[c] = "conditional" /\ ~(stock >= Q(c))
        BY <3>1, <3>3 DEF Updated
      <4>2. stock < Q(c)
        BY <1>0, <4>1, QuantitiesAreTyped DEF TypeOK
      <4> QED BY <1>0, <1>1, <2>1, <3>1, <3>3, <4>1, <4>2, NothingSold
    <3> QED BY <3>2, <3>3
  <2>6. CASE Insert(c) /\ ~UNCHANGED outcome
    <3>1. Answered("error") /\ step[c] = "insert"
      BY <2>6 DEF Insert, Leave
    <3> QED BY <1>0, <1>1, <2>1, <3>1, NothingSold
  <2>7. CASE Fail(c)
    <3>1. Answered("error") /\ Busy
      BY <2>7 DEF Fail, Leave
    <3> QED BY <1>0, <1>1, <2>1, <3>1, NothingSold
  <2>8. CASE Restore(c) /\ ~UNCHANGED outcome
    <3>1. Answered("kept") /\ approach[c] = "lua" /\ outcome[c] \in {"error", "unknown"}
      BY <1>0, <2>8 DEF Restore, Shape
    <3>2. Told(c) = "error"
      BY <3>1 DEF Told
    <3> QED BY <1>0, <1>1, <2>1, <3>1, <3>2, NothingSold
  <2>9. CASE Crash(c) /\ ~UNCHANGED outcome
    <3>1. step[c] # "release" /\ Answered("crashed")
      BY <1>0, <2>9 DEF Crash, TypeOK
    <3>2. Busy
      BY <1>0, <2>9, <3>1 DEF Crash, TypeOK, Steps, Shape, Locking
    <3> QED BY <1>0, <1>1, <2>1, <3>1, <3>2, NothingSold
  <2> QED BY <1>0, <1>4, <2>2, <2>3, <2>4, <2>5, <2>6, <2>7, <2>8, <2>9
          DEF Acts, Proceed, UpdateNaive, InsertNaive, Release, WatchdogStops
<1> QED BY <1>2, <1>3, <1>4

\* Until one of the mishaps oversells, or approaches are mixed that do not agree, every
\* approach is one step of OrderStore to its callers and to MySQL (cmd/api/main.go:408).
THEOREM PathsImplementStore == Spec => ImplementsStore
<1>1. Init => Store!StoreInit
  <2> SUFFICES ASSUME Init PROVE Store!StoreInit
    OBVIOUS
  <2>1. \A c \in Calls : Told(c) = "pending"
    BY DEF Init, Told
  <2> QED BY <2>1 DEF Init, Store!StoreInit
<1>2. IndInv /\ [Next]_vars => [Oversells' \/ Store!StoreNext]_(Store!storeVars)
  <2> SUFFICES ASSUME IndInv, [Next]_vars, ~Oversells'
               PROVE  [Store!StoreNext]_(Store!storeVars)
    OBVIOUS
  <2>1. Safe'
    BY DEF Oversells, Safe, Returned, Met
  <2>2. ASSUME NEW c \in Calls, Acts(c) PROVE [Store!StoreNext]_(Store!storeVars)
    <3>1. Safe
      BY <2>1, <2>2, SafeBefore DEF IndInv
    <3> QED BY <2>2, <3>1, StepSimulation
  <2>3. CASE Expire \/ UNCHANGED vars
    <3>1. UNCHANGED <<stock, ordered>> /\ \A d \in Calls : Told(d)' = Told(d)
      BY <2>3 DEF Expire, vars, row, Told
    <3> QED BY <3>1, Unseen
  <2> QED BY <2>2, <2>3 DEF Next, Acts, Finished
<1>3. Spec => Store!StoreInit
  BY <1>1 DEF Spec
<1> QED BY <1>2, <1>3, Invariance, PTL DEF Spec, ImplementsStore
===============================================================================
