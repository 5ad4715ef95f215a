-------------------------------- MODULE Expiry --------------------------------
(***************************************************************************)
(* Closing unpaid orders of one product (internal/expire).  Scanners claim *)
(* orders that are due in the Redis index seckill:order:expire, close them *)
(* in MySQL, give their stock back in Redis, and take them off the index.  *)
(*                                                                         *)
(* Nothing in the repository composes the operations but its tests, whose  *)
(* order is used here: ClaimDue, then for every claimed order              *)
(* CloseCreatedOrder, RestoreClosedStock, RemoveProcessedExpiry.  The      *)
(* orders come from the asynchronous path, in one step each: a deduction   *)
(* in Redis, and PlaceOrderTx or the dead-letter topic.  Who indexes and   *)
(* who pays an order is outside the repository.                            *)
(*                                                                         *)
(* A scan may end at any point, because a command failed, its context was *)
(* cancelled or its process died, and a claim may run out under its scan.  *)
(* "strained" is history: the orders that met one of the two mishaps the   *)
(* code has no answer to, an end between the close and the restore, or two *)
(* scans at once.                                                          *)
(***************************************************************************)
EXTENDS Integers, FiniteSets

CONSTANTS Orders, Workers, Qty,
          Stocks,      \* what the product may start with
          BatchSize

ASSUME ExpiryAssumption ==
    /\ IsFiniteSet(Orders)
    /\ Qty \in [Orders -> Nat \ {0}]
    /\ Stocks \subseteq Nat
    /\ BatchSize \in Nat \ {0}

VARIABLES redis,     \* seckill:stock:<product>
          dbStock,   \* products.stock
          status,    \* orders.status, or what there is before and instead of a row
          index,     \* where each order is in seckill:order:expire
          todo,      \* the orders each scan has claimed and not begun
          result,    \* the CloseResult each scan works on, and how far it is
          restored,  \* how often the stock of each order was given back
          strained   \* the orders whose claim ran out under its scan, or whose scan
                     \* ended between the close and the restore

stocks == <<redis, dbStock>>
scan == <<todo, result>>
expiryVars == <<stocks, status, index, scan, restored, strained>>

ExpiryInit ==
    /\ dbStock \in Stocks
    /\ redis = dbStock
    /\ status = [o \in Orders |-> "none"]
    /\ index = [o \in Orders |-> "absent"]
    /\ todo = [w \in Workers |-> {}]
    /\ result = [w \in Workers |-> {}]
    /\ restored = [o \in Orders |-> 0]
    /\ strained = {}

SetStatus(o, s) == status' = [status EXCEPT ![o] = s]
SetIndex(o, s) == index' = [index EXCEPT ![o] = s]

-------------------------------------------------------------------------------
(***************************************************************************)
(* The life of an order.                                                   *)
(***************************************************************************)
PreDeduct(o) ==
    /\ status[o] = "none"
    /\ redis >= Qty[o]
    /\ redis' = redis - Qty[o]
    /\ SetStatus(o, "accepted")
    /\ UNCHANGED <<dbStock, index, scan, restored, strained>>

PlaceRecord(o) ==
    /\ status[o] = "accepted"
    /\ \/ /\ dbStock >= Qty[o]
          /\ dbStock' = dbStock - Qty[o]
          /\ SetStatus(o, "created")
       \/ /\ dbStock < Qty[o]
          /\ SetStatus(o, "dead-lettered")
          /\ UNCHANGED dbStock
    /\ UNCHANGED <<redis, index, scan, restored, strained>>

Pay(o) ==
    /\ status[o] = "created"
    /\ SetStatus(o, "paid")
    /\ UNCHANGED <<stocks, index, scan, restored, strained>>

IndexOrder(o) ==
    /\ status[o] = "created"
    /\ index[o] = "absent"
    /\ SetIndex(o, "waiting")
    /\ UNCHANGED <<stocks, status, scan, restored, strained>>

Held(w) == todo[w] \cup {r.order : r \in result[w]}

\* The clock passes the order's score, also the score that a claim gave it while the
\* scan is still at work.
FallDue(o) ==
    /\ index[o] = "waiting"
    /\ SetIndex(o, "due")
    /\ strained' = strained \cup ({o} \cap UNION {Held(w) : w \in Workers})
    /\ UNCHANGED <<stocks, status, scan, restored>>

-------------------------------------------------------------------------------
(***************************************************************************)
(* A scan.                                                                 *)
(***************************************************************************)
Due == {o \in Orders : index[o] = "due"}

\* ZRANGE BYSCORE LIMIT 0 batchSize; which of the due orders have the lowest scores
\* is left open.
Batch(B) ==
    /\ B # {} /\ B \subseteq Due
    /\ Cardinality(B) = BatchSize \/ (B = Due /\ Cardinality(B) < BatchSize)

\* ZADD: the claimed orders get a later score, in the same script.
PushBack(B) == index' = [o \in Orders |-> IF o \in B THEN "waiting" ELSE index[o]]

ClaimDue(w) ==
    /\ Held(w) = {}
    /\ \E B \in SUBSET Due :
         /\ Batch(B)
         /\ PushBack(B)
         /\ todo' = [todo EXCEPT ![w] = B]
    /\ UNCHANGED <<stocks, status, result, restored, strained>>

\* Faulty variant: matched rows are counted instead of changed ones.
RowsMatched(o) == 1

\* UPDATE ... WHERE id = ? AND status = 'created'.  What the SELECT before it reads
\* never changes.
Closes(o) == status[o] = "created"
RowsAffected(o) == IF Closes(o) THEN 1 ELSE 0

CloseCreatedOrder(w) ==
    /\ result[w] = {}
    /\ \E o \in todo[w] :
         /\ todo' = [todo EXCEPT ![w] = @ \ {o}]
         /\ result' = [result EXCEPT ![w] = {[order |-> o, rows |-> RowsAffected(o), at |-> "closed"]}]
         /\ IF Closes(o) THEN SetStatus(o, "closed") ELSE UNCHANGED status
    /\ UNCHANGED <<stocks, index, restored, strained>>

RestoreClosedStock(w) ==
    \E r \in result[w] :
        /\ r.at = "closed"
        /\ result' = [result EXCEPT ![w] = {[r EXCEPT !.at = "restored"]}]
        /\ IF r.rows = 1
           THEN /\ redis' = redis + Qty[r.order]
                /\ restored' = [restored EXCEPT ![r.order] = @ + 1]
           ELSE UNCHANGED <<redis, restored>>
        /\ UNCHANGED <<dbStock, status, index, todo, strained>>

\* Faulty variants: the order leaves the index before its stock is back, and an order
\* that was not closed by this scan stays in it.
RemoveEarly(w) ==
    \E r \in result[w] :
        /\ SetIndex(r.order, "removed")
        /\ result' = [result EXCEPT ![w] = {}]
        /\ UNCHANGED <<stocks, status, todo, restored, strained>>
RemoveOwn(w) ==
    \E r \in result[w] :
        /\ r.at = "restored"
        /\ IF r.rows = 1 THEN SetIndex(r.order, "removed") ELSE UNCHANGED index
        /\ result' = [result EXCEPT ![w] = {}]
        /\ UNCHANGED <<stocks, status, todo, restored, strained>>

RemoveProcessedExpiry(w) ==
    \E r \in result[w] :
        /\ r.at = "restored"
        /\ SetIndex(r.order, "removed")
        /\ result' = [result EXCEPT ![w] = {}]
        /\ UNCHANGED <<stocks, status, todo, restored, strained>>

\* A command fails, with or without having taken effect, and RunScanner returns;
\* or the context is cancelled; or the process dies.  A new scanner claims again.
Stop(w) ==
    /\ Held(w) # {}
    /\ todo' = [todo EXCEPT ![w] = {}]
    /\ result' = [result EXCEPT ![w] = {}]
    /\ strained' = strained \cup {r.order : r \in {q \in result[w] : q.at = "closed" /\ q.rows = 1}}
    /\ UNCHANGED <<stocks, status, index, restored>>

-------------------------------------------------------------------------------
Process(w) == CloseCreatedOrder(w) \/ RestoreClosedStock(w) \/ RemoveProcessedExpiry(w)

ExpiryNext ==
    \/ \E o \in Orders : \/ PreDeduct(o) \/ PlaceRecord(o) \/ Pay(o)
                         \/ IndexOrder(o) \/ FallDue(o)
    \/ \E w \in Workers : ClaimDue(w) \/ Process(w) \/ Stop(w)

ExpirySpec == ExpiryInit /\ [][ExpiryNext]_expiryVars

\* Some scan claims the order, closes it, restores its stock, removes it.
Claimed(o) == \E w \in Workers : ClaimDue(w) /\ o \in todo'[w]
Begun(o) == \E w \in Workers : CloseCreatedOrder(w) /\ o \in todo[w] \ todo'[w]
Restored(o) == \E w \in Workers : RestoreClosedStock(w) /\ o \in Held(w)
Removed(o) == \E w \in Workers : RemoveProcessedExpiry(w) /\ o \in Held(w)

(***************************************************************************)
(* Scores come due; scanners are started again; a claim takes the lowest   *)
(* scores and pushes them back, so no order is left out for ever; and not  *)
(* every scan that gets to some step with an order ends right there.       *)
(***************************************************************************)
ExpiryFairSpec ==
    /\ ExpirySpec
    /\ \A o \in Orders : /\ WF_expiryVars(FallDue(o))
                         /\ SF_expiryVars(Claimed(o)) /\ SF_expiryVars(Begun(o))
                         /\ SF_expiryVars(Restored(o)) /\ SF_expiryVars(Removed(o))

-------------------------------------------------------------------------------
\* The shape of the state; a scan has no more than a batch in hand.
ExpiryTypeOK ==
    /\ redis \in Nat /\ dbStock \in Nat
    /\ status \in [Orders -> {"none", "accepted", "dead-lettered", "created", "paid", "closed"}]
    /\ index \in [Orders -> {"absent", "waiting", "due", "removed"}]
    /\ restored \in [Orders -> Nat]
    /\ strained \subseteq Orders
    /\ \A w \in Workers :
         /\ todo[w] \subseteq Orders
         /\ result[w] \subseteq [order : Orders, rows : 0..1, at : {"closed", "restored"}]
         /\ Cardinality(result[w]) <= 1
         /\ Cardinality(Held(w)) <= BatchSize

\* The stock of an order comes back at most once, and never that of a paid order,
\* even if two scans work on the same order at once (p2_close.go:43).
RestoredOnceIfClosed ==
    \A o \in Orders : restored[o] <= 1 /\ (restored[o] = 1 => status[o] = "closed")

\* An order leaves the index only when it needs no more work: not before its stock
\* is back, if it was closed (p2_close.go:52), but for an order that was strained.
RemovedOnlyWhenSettled ==
    \A o \in Orders \ strained : index[o] = "removed" =>
        \/ status[o] = "paid"
        \/ status[o] = "closed" /\ restored[o] = 1

\* Two scans work on the same order only if the claim of the first ran out: a claim
\* is exclusive for as long as it lasts (p1_claim.go:34).
NoneHeldTwice ==
    \A v, w \in Workers : v # w => Held(v) \cap Held(w) \subseteq strained

\* What holds of every state, wherever scans ended.
ExpiryInv == ExpiryTypeOK /\ RestoredOnceIfClosed /\ NoneHeldTwice

\* Every order that comes due is dealt with.
EveryDueSettled == \A o \in Orders : (index[o] = "due") ~> (index[o] = "removed")
===============================================================================
