----------------------------- MODULE DeductPaths -----------------------------
(***************************************************************************)
(* The deduction approaches behind POST /debug/orders/:approach, for one   *)
(* product: version CAS, conditional UPDATE, the Redis lock, the Redis     *)
(* pre-deduction ("lua") and order.PlaceOrderTx ("pessimistic"); and the   *)
(* first version, order.PlaceOrderNaive ("naive"), which only its test     *)
(* calls.                                                                  *)
(*                                                                         *)
(* Every path but the naive one locks the product row before it inserts    *)
(* its order, by an UPDATE or by FOR UPDATE, and keeps it until its        *)
(* transaction ends; an UPDATE sees the committed row, a plain SELECT the  *)
(* committed row of its moment.  The statements of a naive call commit one *)
(* by one.  A pessimistic call is one step here: OrderTx implements        *)
(* OrderStore.                                                             *)
(*                                                                         *)
(* Any statement may fail.  Three mishaps are recorded, because some of    *)
(* the properties end with them, and so is what a naive call leaves undone:*)
(*   outcome "unknown"   Commit returned an error for a commit that was    *)
(*                       made                                              *)
(*   outcome "kept"      the compensation of a pre-deduction did not reach *)
(*                       Redis, as when the request's context is done, or  *)
(*                       the reply of the pre-deduction itself was lost,   *)
(*                       after which nothing compensates it                *)
(*   overrun             the lock's TTL ran out in the critical section:   *)
(*                       without a watchdog ("lock") or after a renewal of *)
(*                       it failed ("watched")                             *)
(*   outcome "taken"     a naive call took stock and wrote no order        *)
(***************************************************************************)
EXTENDS Integers, FiniteSets

CONSTANTS Calls, Requests,
          RequestOf,      \* the request id each call carries
          Qty,            \* the quantity each request asks for
          Workload,       \* the assignments of approaches to calls; "none" is a
                          \* call that is not made
          InitialStock,   \* products.stock, and in Redis after WarmStock
          MaxCASRetries,
          NoCall

Approaches == {"pessimistic", "cas", "conditional", "lock", "watched", "lua", "naive"}

ASSUME PathsAssumption ==
    /\ RequestOf \in [Calls -> Requests]
    /\ Qty \in [Requests -> Nat \ {0}]
    /\ IsFiniteSet(Calls) /\ IsFiniteSet(Requests)
    /\ Workload \subseteq [Calls -> Approaches \cup {"none"}]
    /\ InitialStock \in Nat
    /\ MaxCASRetries \in Nat \ {0}
    /\ NoCall \notin Calls

VARIABLES approach,  \* the approach each call takes
          stock,     \* products.stock, committed
          version,   \* products.version, committed
          ordered,   \* requests that have a row in orders
          rowHolder, \* the call whose transaction has the product row locked
          redis,     \* seckill:stock:<product>
          lockKey,   \* seckill:lock:product:<product>: the call whose token it has
          blind,     \* the calls whose watchdog stopped after an error
          overrun,   \* the calls whose lock ran out in their critical section
          step,      \* where each call is
          seen,      \* the stock and version each call read last
          attempts,  \* how many CAS attempts each call began
          outcome,   \* how each call ended
          sold       \* history: the calls whose UPDATE of the stock was committed

row == <<stock, version, ordered>>
locks == <<redis, lockKey, blind, overrun>>
private == <<seen, attempts>>
vars == <<approach, row, rowHolder, locks, step, private, outcome, sold>>

Steps == {"start", "read", "update", "insert", "commit", "restore", "release", "done"}
Outcomes == {"pending", "ok", "insufficient", "exhausted", "conflict", "error",
             "unknown", "kept", "crashed", "taken"}

Init == /\ approach \in Workload
        /\ stock = InitialStock
        /\ version = 0
        /\ ordered = {}
        /\ rowHolder = NoCall
        /\ redis = InitialStock
        /\ lockKey = NoCall
        /\ blind = {} /\ overrun = {}
        /\ step = [c \in Calls |-> IF approach[c] = "none" THEN "done" ELSE "start"]
        /\ seen = [c \in Calls |-> [stock |-> 0, version |-> 0]]
        /\ attempts = [c \in Calls |-> 0]
        /\ outcome = [c \in Calls |-> "pending"]
        /\ sold = {}

Q(c) == Qty[RequestOf[c]]
Goto(c, s) == step' = [step EXCEPT ![c] = s]
Locking(c) == approach[c] \in {"lock", "watched"}

\* Faulty variant: the compensation runs as a deferred call, success or not.
LeavingRestored(c, how) ==
    IF Locking(c) THEN "release"
    ELSE IF approach[c] = "lua" THEN "restore"
    ELSE "done"

\* The step after the transaction: the deferred Release, the compensation of a
\* pre-deduction, or the return.
Leaving(c, how) ==
    IF Locking(c) THEN "release"
    ELSE IF approach[c] = "lua" /\ how # "ok" THEN "restore"
    ELSE "done"

Leave(c, how) ==
    /\ Goto(c, Leaving(c, how))
    /\ outcome' = [outcome EXCEPT ![c] = how]

Unlock(c) == rowHolder' = IF rowHolder = c THEN NoCall ELSE rowHolder

-------------------------------------------------------------------------------
\* order.PlaceOrderTx, as OrderStore promises it: an error may come after its COMMIT.
PlaceOrderTx(c) ==
    /\ step[c] = "start" /\ approach[c] = "pessimistic"
    /\ rowHolder = NoCall
    /\ Goto(c, "done")
    /\ \/ /\ \/ RequestOf[c] \in ordered /\ outcome' = [outcome EXCEPT ![c] = "ok"]
             \/ stock < Q(c) /\ outcome' = [outcome EXCEPT ![c] = "insufficient"]
             \/ outcome' = [outcome EXCEPT ![c] = "error"]
          /\ UNCHANGED <<row, sold>>
       \/ /\ stock >= Q(c)
          /\ RequestOf[c] \notin ordered
          /\ \E how \in {"ok", "unknown"} : outcome' = [outcome EXCEPT ![c] = how]
          /\ stock' = stock - Q(c)
          /\ ordered' = ordered \cup {RequestOf[c]}
          /\ sold' = sold \cup {c}
          /\ UNCHANGED version
    /\ UNCHANGED <<approach, rowHolder, locks, private>>

\* SET NX PX with a token of its own.
Acquire(c) ==
    /\ Locking(c)
    /\ \/ /\ lockKey = NoCall
          /\ lockKey' = c
          /\ Goto(c, "read")
          /\ UNCHANGED <<redis, blind, overrun, outcome>>
       \/ /\ lockKey # NoCall
          /\ Goto(c, "done")
          /\ outcome' = [outcome EXCEPT ![c] = "conflict"]
          /\ UNCHANGED locks

\* preDeductScript.  Its error ends the call, whether or not the script has run.
PreDeduct(c) ==
    /\ approach[c] = "lua"
    /\ \/ /\ redis >= Q(c)
          /\ redis' = redis - Q(c)
          /\ \/ Goto(c, "update") /\ UNCHANGED outcome
             \/ Goto(c, "done") /\ outcome' = [outcome EXCEPT ![c] = "kept"]
       \/ /\ \/ redis < Q(c) /\ outcome' = [outcome EXCEPT ![c] = "insufficient"]
             \/ outcome' = [outcome EXCEPT ![c] = "error"]
          /\ Goto(c, "done")
          /\ UNCHANGED redis
    /\ UNCHANGED <<lockKey, blind, overrun>>

\* Begin the first transaction, or get past what guards it.
Start(c) ==
    /\ step[c] = "start"
    /\ \/ approach[c] \in {"cas", "naive"} /\ Goto(c, "read") /\ UNCHANGED <<locks, outcome>>
       \/ approach[c] = "conditional" /\ Goto(c, "update") /\ UNCHANGED <<locks, outcome>>
       \/ Acquire(c)
       \/ PreDeduct(c)
    /\ attempts' = [attempts EXCEPT ![c] = 1]
    /\ UNCHANGED <<approach, row, rowHolder, seen, sold>>

\* SELECT stock[, version] without a lock, and the check of the stock.
Read(c) ==
    /\ step[c] = "read"
    /\ seen' = [seen EXCEPT ![c] = [stock |-> stock, version |-> version]]
    /\ \/ stock < Q(c) /\ Leave(c, "insufficient")
       \/ stock >= Q(c) /\ Goto(c, "update") /\ UNCHANGED outcome
    /\ UNCHANGED <<approach, row, rowHolder, locks, attempts, sold>>

\* Faulty variant: the version is read but not compared.
UpdatedUnversioned(c) == approach[c] = "conditional" => stock >= Q(c)
\* What the WHERE clause of each approach's UPDATE asks of the committed row.
Updated(c) ==
    /\ approach[c] = "cas" => version = seen[c].version
    /\ approach[c] = "conditional" => stock >= Q(c)

\* Only a CAS call tries again, in a new transaction.
Retriable(c) == approach[c] = "cas" /\ attempts[c] < MaxCASRetries

\* The UPDATE waits for the row and then holds it, if it matched.
Update(c) ==
    /\ step[c] = "update" /\ approach[c] # "naive"
    /\ rowHolder = NoCall
    /\ \/ /\ Updated(c)
          /\ rowHolder' = c
          /\ Goto(c, "insert")
          /\ UNCHANGED <<attempts, outcome>>
       \/ /\ ~Updated(c) /\ Retriable(c)
          /\ attempts' = [attempts EXCEPT ![c] = @ + 1]
          /\ Goto(c, "read")
          /\ UNCHANGED <<rowHolder, outcome>>
       \/ /\ ~Updated(c) /\ ~Retriable(c)
          /\ Leave(c, IF approach[c] = "cas" THEN "exhausted" ELSE "insufficient")
          /\ UNCHANGED <<rowHolder, attempts>>
    /\ UNCHANGED <<approach, row, locks, seen, sold>>

Duplicate(c) == RequestOf[c] \in ordered

\* An INSERT waits while another transaction has inserted its request_id.
Awaited(c) == \E d \in Calls : step[d] = "commit" /\ RequestOf[d] = RequestOf[c]

\* insertOrderTx: error 1062 for a request that has its order, not looked into.
Insert(c) ==
    /\ step[c] = "insert" /\ approach[c] # "naive"
    /\ \/ /\ Duplicate(c)
          /\ Leave(c, "error")
          /\ Unlock(c)
       \/ /\ ~Duplicate(c)
          /\ Goto(c, "commit")
          /\ UNCHANGED <<rowHolder, outcome>>
    /\ UNCHANGED <<approach, row, locks, private, sold>>

Place(c) ==
    /\ stock' = stock - Q(c)
    /\ version' = IF approach[c] = "cas" THEN version + 1 ELSE version
    /\ ordered' = ordered \cup {RequestOf[c]}
    /\ sold' = sold \cup {c}

Commit(c) ==
    /\ step[c] = "commit"
    /\ Place(c)
    /\ \/ Leave(c, "ok")
       \/ Leave(c, "unknown")
    /\ Unlock(c)
    /\ UNCHANGED <<approach, locks, private>>

\* A statement fails, or a begin, a NextID or a commit: the transaction is rolled
\* back.
Fail(c) ==
    /\ step[c] \in {"read", "update", "insert", "commit"}
    /\ approach[c] = "naive" => step[c] # "insert"
    /\ Leave(c, "error")
    /\ Unlock(c)
    /\ UNCHANGED <<approach, row, locks, private, sold>>

\* The naive UPDATE asks nothing of the row and is committed at once, even if its
\* reply is lost ...
UpdateNaive(c) ==
    /\ step[c] = "update" /\ approach[c] = "naive"
    /\ rowHolder = NoCall
    /\ stock' = stock - Q(c)
    /\ sold' = sold \cup {c}
    /\ \/ Goto(c, "insert") /\ UNCHANGED outcome
       \/ Leave(c, "taken")
    /\ UNCHANGED <<approach, version, ordered, rowHolder, locks, private>>

\* ... and nothing takes it back when the INSERT fails.
InsertNaive(c) ==
    /\ step[c] = "insert" /\ approach[c] = "naive"
    /\ \/ /\ ~Duplicate(c) /\ ~Awaited(c)
          /\ ordered' = ordered \cup {RequestOf[c]}
          /\ \/ Leave(c, "ok")
             \/ Leave(c, "unknown")
       \/ Leave(c, "taken") /\ UNCHANGED ordered
    /\ UNCHANGED <<approach, stock, version, rowHolder, locks, private, sold>>

\* Faulty variant: the compensation is left out where the insert failed.
RestoreUnlessDuplicate(c) ==
    /\ step[c] = "restore"
    /\ redis' = IF RequestOf[c] \in ordered THEN redis ELSE redis + Q(c)
    /\ Goto(c, "done")
    /\ UNCHANGED <<approach, row, rowHolder, lockKey, blind, overrun, private, outcome, sold>>

\* RollbackPreDeduct, with the request's own context; its error is ignored.
Restore(c) ==
    /\ step[c] = "restore"
    /\ \/ redis' = redis + Q(c) /\ UNCHANGED outcome
       \/ UNCHANGED redis /\ outcome' = [outcome EXCEPT ![c] = "kept"]
    /\ Goto(c, "done")
    /\ UNCHANGED <<approach, row, rowHolder, lockKey, blind, overrun, private, sold>>

\* Faulty variant: DEL without a look at the token.
ReleaseAny(c) ==
    /\ step[c] = "release"
    /\ lockKey' = NoCall
    /\ Goto(c, "done")
    /\ UNCHANGED <<approach, row, rowHolder, redis, blind, overrun, private, outcome, sold>>

\* releaseScript: only a lock with the call's token is deleted.
Release(c) ==
    /\ step[c] = "release"
    /\ lockKey' = IF lockKey = c THEN NoCall ELSE lockKey
    /\ Goto(c, "done")
    /\ UNCHANGED <<approach, row, rowHolder, redis, blind, overrun, private, outcome, sold>>

\* StartWatchdog renews the lock, with the call's token, from the SET to the deferred stop
\* before Release, more often than the TTL asks for; its first error ends it for good.
Watched(c) == approach[c] = "watched" /\ c \notin blind /\ step[c] \notin {"release", "done"}

WatchdogStops(c) ==
    /\ Watched(c) /\ lockKey = c
    /\ blind' = blind \cup {c}
    /\ UNCHANGED <<approach, row, rowHolder, redis, lockKey, overrun, step, private, outcome,
                   sold>>

\* The TTL runs out, for a lock whose process has died or under its holder.
Expire ==
    /\ lockKey # NoCall /\ ~Watched(lockKey)
    /\ lockKey' = NoCall
    /\ overrun' = IF step[lockKey] = "done" THEN overrun ELSE overrun \cup {lockKey}
    /\ UNCHANGED <<approach, row, rowHolder, redis, blind, step, private, outcome, sold>>

\* The process dies: MySQL rolls back, Redis keeps the lock until it expires; the
\* outcome of a transaction that has ended stands.  The death of a call with a
\* pre-deduction is the subject of LedgerFlow.
Crash(c) ==
    /\ Locking(c)
    /\ step[c] \notin {"start", "done"}
    /\ Goto(c, "done")
    /\ outcome' = [outcome EXCEPT ![c] = IF step[c] = "release" THEN @ ELSE "crashed"]
    /\ Unlock(c)
    /\ UNCHANGED <<approach, row, locks, private, sold>>

-------------------------------------------------------------------------------
Proceed(c) == \/ PlaceOrderTx(c) \/ Start(c) \/ Read(c) \/ Update(c) \/ Insert(c)
              \/ UpdateNaive(c) \/ InsertNaive(c)
              \/ Commit(c) \/ Restore(c) \/ Release(c)

Finished == (\A c \in Calls : step[c] = "done") /\ lockKey = NoCall /\ UNCHANGED vars

Next == (\E c \in Calls : Proceed(c) \/ Fail(c) \/ Crash(c) \/ WatchdogStops(c))
        \/ Expire \/ Finished

Spec == Init /\ [][Next]_vars

-------------------------------------------------------------------------------
\* The shape of the state.  Redis never goes below zero.
TypeOK ==
    /\ approach \in Workload
    /\ stock \in Int /\ version \in Nat
    /\ ordered \subseteq Requests
    /\ rowHolder \in Calls \cup {NoCall}
    /\ redis \in Nat
    /\ lockKey \in Calls \cup {NoCall}
    /\ blind \subseteq Calls /\ overrun \subseteq Calls
    /\ step \in [Calls -> Steps]
    /\ seen \in [Calls -> [stock : Int, version : Nat]]
    /\ attempts \in [Calls -> 0..MaxCASRetries]
    /\ outcome \in [Calls -> Outcomes]
    /\ sold \subseteq Calls

Met(how) == \E c \in Calls : outcome[c] = how

Only(kind) == \A c \in Calls : approach[c] \in kind \cup {"none"}

\* The calls agree on what guards the stock between the check and the UPDATE: the row
\* lock, the version, the Redis lock or the stock in Redis.
Alike == \E kind \in {{"pessimistic", "conditional"}, {"cas"}, {"lock", "watched"}, {"lua"}} :
             Only(kind)

\* What may sell stock that is not there: approaches mixed that do not guard it alike,
\* or the naive version, which does not guard it; a lock that expired under its holder;
\* and a commit that was made and then compensated in Redis.
Oversells == \/ ~Alike
             \/ overrun # {}
             \/ Met("unknown") /\ (\E c \in Calls : approach[c] = "lua")

NoOversell == stock >= 0 \/ Oversells

\* The stock taken is the quantity ordered, for every failure and duplicate, and what
\* naive calls took without an order: they lose no update, but atomicity.
Charged == {c \in Calls : \/ approach[c] = "naive" /\ step[c] = "insert"
                          \/ outcome[c] = "taken"}
UnitsOrdered == UNION {{r} \X (1..Qty[r]) : r \in ordered}
UnitsCharged == UNION {{c} \X (1..Q(c)) : c \in Charged}
StockMatchesOrders ==
    stock + Cardinality(UnitsOrdered) + Cardinality(UnitsCharged) = InitialStock

\* A CAS call gives up only after other calls overtook it MaxCASRetries times
\* (model.go:26-27): "exhausted" is never a sold-out product in disguise.
ExhaustedWasOvertaken ==
    \A c \in Calls : outcome[c] = "exhausted" => version >= MaxCASRetries

Inside == {c \in Calls : Locking(c)
                         /\ step[c] \in {"read", "update", "insert", "commit", "release"}}

\* A call in the critical section has the lock, unless its TTL ran out: nobody
\* else's Release takes it away (lock.go:71-73).
LockLostOnlyByExpiry == \A c \in Inside : lockKey = c \/ c \in overrun

\* What holds of every state, whatever failed where and whoever lost a lock.
Inv == /\ TypeOK
       /\ NoOversell
       /\ StockMatchesOrders
       /\ LockLostOnlyByExpiry
       /\ ExhaustedWasOvertaken

-------------------------------------------------------------------------------
(***************************************************************************)
(* The refinement: what a call did to MySQL and what it told its caller is *)
(* one step of the atomic store.  What the store knows nothing of (lost    *)
(* contention, lost replies, a refusal by Redis alone) it counts as errors.*)
(***************************************************************************)
Told(c) ==
    IF \/ outcome[c] \in {"exhausted", "conflict", "unknown", "kept", "crashed", "taken"}
       \/ approach[c] = "lua" /\ outcome[c] = "insufficient"
    THEN "error" ELSE outcome[c]

Argument(r) == [request |-> r, product |-> "it", qty |-> Qty[r]]
RowOf(r) == [id |-> r, request |-> r, product |-> "it", qty |-> Qty[r]]

Store == INSTANCE OrderStore WITH
    Products     <- {"it"},
    OrderIDs     <- Requests,
    MaxQty       <- CHOOSE q \in {Qty[r] : r \in Requests} : \A r \in Requests : Qty[r] <= q,
    InitialStock <- [p \in {"it"} |-> InitialStock],
    Workload     <- {[c \in Calls |-> Argument(RequestOf[c])]},
    NoOrder      <- NoCall,
    arg          <- [c \in Calls |-> Argument(RequestOf[c])],
    stock        <- [p \in {"it"} |-> stock],
    orders       <- {RowOf(r) : r \in ordered},
    outcome      <- [c \in Calls |-> Told(c)],
    returned     <- [c \in Calls |-> IF Told(c) = "ok" THEN RowOf(RequestOf[c]) ELSE NoCall]

\* Until one of the three oversells, every approach places orders, answers duplicates
\* and refuses exactly as OrderStore allows: the statements that differ between them
\* (cmd/api/main.go:408) make no difference to who gets what.
ImplementsStore == Store!StoreInit /\ [][Oversells' \/ Store!StoreNext]_(Store!storeVars)

-------------------------------------------------------------------------------
\* What a call took from Redis and MySQL has not sold: it may yet be sold or given back,
\* but where nothing does that any more.
Kept == {c \in Calls : outcome[c] = "kept" /\ c \notin sold}
Taken == {c \in Calls : /\ approach[c] = "lua" /\ c \notin sold
                        /\ step[c] \in {"update", "insert", "commit", "restore"}}

\* What MySQL has sold and Redis does not know of: the sales of the other approaches, and
\* those whose COMMIT returned an error, so that they were compensated.
SoldPast == {c \in sold : approach[c] # "lua" \/ (step[c] = "done" /\ outcome[c] = "unknown")}

UnitsOf(C) == UNION {{c} \X (1..Q(c)) : c \in C}

\* What Redis offers and what calls are about to place MySQL has, so that their UPDATE
\* needs no check of the stock (prededuct.go:77), but for what was sold past Redis: a lost
\* COMMIT, or a call of another approach, costs its own quantity and no more.
GateCoversStock == redis + Cardinality(UnitsOf(Taken)) <= stock + Cardinality(UnitsOf(SoldPast))

\* When all calls have returned, Redis and MySQL differ by what was sold past Redis and by
\* what was kept, when the reply of a pre-deduction or its compensation was lost
\* (prededuct.go:79), and by no unit of any other failure.
GateGivesBack ==
    (\A c \in Calls : step[c] = "done") =>
        redis + Cardinality(UnitsOf(Kept)) = stock + Cardinality(UnitsOf(SoldPast))

===============================================================================
