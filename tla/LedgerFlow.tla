------------------------------ MODULE LedgerFlow ------------------------------
(***************************************************************************)
(* The asynchronous order path for one product: a call takes stock in      *)
(* Redis, writes a ledger entry, and produces a record to Kafka; the       *)
(* consumer places the order in MySQL; reconcilers go through the ledger   *)
(* and give back what was taken for orders that never came.                *)
(*                                                                         *)
(*   reconcile.EnqueueWithLedger   calls in Ledgered                       *)
(*   mq.EnqueueOrder, reconcile.EnqueueWithCrash   the other calls, which  *)
(*                                 write no ledger entry                   *)
(*   reconcile.ReconcileOnce       Workers, any number at a time           *)
(*   the consumer loop             Consume, as OrderStore and              *)
(*                                 OrderConsumer promise it                *)
(*                                                                         *)
(* Each Redis command or script is one step.  A process may die between    *)
(* any two of them, and a command may return an error with or without      *)
(* having been executed.  Most of these failures are repaired.  Those that *)
(* no part of the code can repair are mishaps: the history variable        *)
(* mishaps keeps which of them happened to which call, and the properties  *)
(* say that each costs at most what its own call took.                     *)
(***************************************************************************)
EXTENDS Integers, FiniteSets

CONSTANTS Calls, Requests, Workers,
          RequestOf,     \* the request id each call carries
          Qty,           \* the quantity each request asks for
          Ledgered,      \* the calls that write a ledger entry
          InitialStock,  \* products.stock when the stock was warmed
          MaxMishaps     \* bound on the mishaps of a behaviour, retries not counted

Midway == {"deducted", "recorded", "undelivered", "rolled_back"}

\* Stock that nobody will give back: the reply of the deduction or the rollback was
\* lost, there is no entry, or the request had taken stock before, and its order or
\* entry stands for the other call.
LeakKinds == {"deduct_unheard", "no_entry", "taken_again", "not_rolled_back"}

\* Stock that is given back twice, or given back and ordered: the entry stayed open
\* after the rollback, the record was written though ProduceSync failed, or the
\* entry left the window while its call was still on the way.
ExcessKinds == {"left_open", "produce_unheard", "aged_in_flight"}

Steps == {"start"} \cup Midway \cup {"refused", "accepted", "failed", "crashed"}

ASSUME LedgerAssumption ==
    /\ IsFiniteSet(Calls) /\ IsFiniteSet(Requests)
    /\ RequestOf \in [Calls -> Requests]
    /\ Qty \in [Requests -> Nat \ {0}]
    /\ Ledgered \subseteq Calls
    \* A client tries a request again through the same route.
    /\ \A c, d \in Calls : RequestOf[c] = RequestOf[d] => (c \in Ledgered <=> d \in Ledgered)
    /\ InitialStock \in Nat
    /\ MaxMishaps \in Nat

VARIABLES redis,     \* seckill:stock:<product>
          ledger,    \* state of each request's entry seckill:ledger:<request>
          old,       \* the requests whose entry is older than the window
          step,      \* where each call is
          topic,     \* the calls whose record is in Kafka and not committed
          ordered,   \* the requests that have a row in orders
          dbStock,   \* products.stock
          todo,      \* entries each worker read as pending and old
          checked,   \* the entry, if any, whose orders a worker has counted
          reported,  \* how many refunds of a request the Reports add up to
          mishaps    \* <<kind, call>>: what went wrong beyond repair

flow == <<redis, ledger, old, step, topic>>
db == <<ordered, dbStock>>
work == <<todo, checked, reported>>
vars == <<flow, db, work, mishaps>>

Init == /\ redis = InitialStock
        /\ ledger = [r \in Requests |-> "none"]
        /\ old = {}
        /\ step = [c \in Calls |-> "start"]
        /\ topic = {}
        /\ ordered = {}
        /\ dbStock = InitialStock
        /\ todo = [w \in Workers |-> {}]
        /\ checked = [w \in Workers |-> {}]
        /\ reported = [r \in Requests |-> 0]
        /\ mishaps = {}

Q(c) == Qty[RequestOf[c]]
Goto(c, s) == step' = [step EXCEPT ![c] = s]

NoMishap == UNCHANGED mishaps
Happened(kind, c) == mishaps' = mishaps \cup {<<kind, c>>}
Mishap(kind, c) ==
    /\ Cardinality({m \in mishaps : m[1] # "taken_again"}) < MaxMishaps
    /\ Happened(kind, c)

InFlight(r) == {c \in Calls : RequestOf[c] = r /\ (step[c] \in Midway \/ c \in topic)}

-------------------------------------------------------------------------------
(***************************************************************************)
(* The request path.                                                       *)
(***************************************************************************)

\* Faulty variant: the ledger entry is written after the point of the crash.
DeductedNoEntry(c) == "recorded"

\* After the deduction: EnqueueWithLedger still has its entry to write.
Deducted(c) == IF c \in Ledgered THEN "deducted" ELSE "recorded"

\* The deduction knows no request id: a call that writes no entry takes stock
\* again for a request that is on its way or has its order.
Again(c) ==
    IF c \notin Ledgered /\ (RequestOf[c] \in ordered \/ InFlight(RequestOf[c]) # {})
      THEN Happened("taken_again", c) ELSE NoMishap

\* preDeductScript tests and takes in one step.  An error is returned to the
\* caller as it is, whether or not the script ran.
PreDeduct(c) ==
    /\ step[c] = "start"
    /\ \/ redis < Q(c) /\ Goto(c, "refused") /\ UNCHANGED redis /\ NoMishap
       \/ Goto(c, "failed") /\ UNCHANGED redis /\ NoMishap
       \/ /\ redis >= Q(c)
          /\ redis' = redis - Q(c)
          /\ \/ Goto(c, Deducted(c)) /\ Again(c)
             \/ Goto(c, "failed") /\ Mishap("deduct_unheard", c)
    /\ UNCHANGED <<ledger, old, topic, db, work>>

\* SETNX: an entry that is there stays as it is, its age included.
SetEntry(c) ==
    LET r == RequestOf[c] IN
    IF ledger[r] = "none"
      THEN ledger' = [ledger EXCEPT ![r] = "pending"] /\ NoMishap
      ELSE UNCHANGED ledger /\ Happened("taken_again", c)

\* RecordPreDeduct; its error ends the call, and nothing is rolled back.
Record(c) ==
    /\ step[c] = "deducted"
    /\ \/ Goto(c, "recorded") /\ SetEntry(c)
       \/ Goto(c, "failed") /\ SetEntry(c)
       \/ Goto(c, "failed") /\ UNCHANGED ledger /\ Mishap("no_entry", c)
    /\ UNCHANGED <<redis, old, topic, db, work>>

\* ProduceSync.
Produce(c) ==
    /\ step[c] = "recorded"
    /\ \/ Goto(c, "accepted") /\ topic' = topic \cup {c} /\ NoMishap
       \/ Goto(c, "undelivered") /\ UNCHANGED topic /\ NoMishap
       \/ Goto(c, "undelivered") /\ topic' = topic \cup {c} /\ Mishap("produce_unheard", c)
    /\ UNCHANGED <<redis, ledger, old, db, work>>

GiveBack(c) == redis' = redis + Q(c)

\* RollbackPreDeduct after a failed produce; its own error is ignored.
Rollback(c) ==
    /\ step[c] = "undelivered"
    /\ Goto(c, IF c \in Ledgered THEN "rolled_back" ELSE "failed")
    /\ \/ GiveBack(c) /\ NoMishap
       \/ UNCHANGED redis /\ Mishap("not_rolled_back", c)
    /\ UNCHANGED <<ledger, old, topic, db, work>>

\* Faulty variants: INCRBY without closing the entry, and a script that trusts
\* the state its caller read.
SettleOpen(r, refund) ==
    /\ redis' = redis + refund
    /\ UNCHANGED ledger
SettleUnchecked(r, refund) ==
    /\ ledger' = [ledger EXCEPT ![r] = "reconciled"]
    /\ redis' = redis + refund

\* settleScript: nothing unless the entry is pending, else refund and close it.
Settle(r, refund) ==
    \/ /\ ledger[r] = "pending"
       /\ ledger' = [ledger EXCEPT ![r] = "reconciled"]
       /\ redis' = redis + refund
    \/ /\ ledger[r] # "pending"
       /\ UNCHANGED <<ledger, redis>>

\* The failed call closes its own entry, so that no reconciler refunds again.
CloseEntry(c) ==
    /\ step[c] = "rolled_back"
    /\ Goto(c, "failed")
    /\ \/ Settle(RequestOf[c], 0) /\ NoMishap
       \/ UNCHANGED <<ledger, redis>> /\ Mishap("left_open", c)
    /\ UNCHANGED <<old, topic, db, work>>

\* What a call leaves behind that dies at a step.  With its entry written and the
\* stock not yet rolled back, that is what the reconcilers are for.
Orphaned(c) ==
    IF step[c] = "rolled_back" THEN Mishap("left_open", c)
    ELSE IF step[c] = "deducted" \/ c \notin Ledgered THEN Mishap("no_entry", c)
    ELSE NoMishap

\* The process dies (CrashSwitch.Fire simulates it at "recorded").
Crash(c) ==
    /\ step[c] \in Midway
    /\ Orphaned(c)
    /\ Goto(c, "crashed")
    /\ UNCHANGED <<redis, ledger, old, topic, db, work>>

-------------------------------------------------------------------------------
(***************************************************************************)
(* Kafka and the consumer.  A record is placed through PlaceOrderTx, or    *)
(* goes to the dead-letter topic after its attempts failed for any reason; *)
(* it is seen again when the commit that should follow is lost.            *)
(***************************************************************************)
PlaceRecord(c) ==
    LET r == RequestOf[c] IN
    /\ r \notin ordered
    /\ dbStock >= Q(c)
    /\ ordered' = ordered \cup {r}
    /\ dbStock' = dbStock - Q(c)

\* The reconciler gives back what a dead-lettered record had taken, if there is an entry.
DeadLettered(c) ==
    IF c \in Ledgered \/ RequestOf[c] \in ordered THEN NoMishap ELSE Mishap("no_entry", c)

Consume(c) ==
    /\ c \in topic
    /\ topic' \in {topic, topic \ {c}}
    /\ \/ PlaceRecord(c) /\ NoMishap
       \/ RequestOf[c] \in ordered /\ UNCHANGED db /\ NoMishap
       \/ UNCHANGED db /\ DeadLettered(c)
    /\ UNCHANGED <<redis, ledger, old, step, work>>

-------------------------------------------------------------------------------
(***************************************************************************)
(* The reconcilers.                                                        *)
(***************************************************************************)

\* Time passes: the entry's CreatedAt falls out of the window, which should be longer
\* than any request and any wait in Kafka.
GrowOld(r) ==
    /\ ledger[r] # "none" /\ r \notin old
    /\ old' = old \cup {r}
    /\ \/ InFlight(r) = {} /\ NoMishap
       \/ \E c \in InFlight(r) : Mishap("aged_in_flight", c)
    /\ UNCHANGED <<redis, ledger, step, topic, db, work>>

\* ReconcileOnce reads the clock, then ScanLedger the entries.  The entries that
\* are young at that time or closed when read (the two first gates of
\* ReconcileEntry) lead to no effect, so only the others are kept; an entry read
\* later than the clock is at most more closed, which settleScript tests again.
ScanLedger(w) ==
    /\ todo[w] = {} /\ checked[w] = {}
    /\ todo' = [todo EXCEPT ![w] = {r \in old : ledger[r] = "pending"}]
    /\ UNCHANGED <<flow, db, checked, reported, mishaps>>

\* Faulty variant: the age of the entry is the only criterion.
RefundedByAge(r) == Qty[r]

Refunded(r) == IF r \in ordered THEN 0 ELSE Qty[r]

\* ReconcileEntry: the order count is read first ...
CountOrders(w) ==
    /\ checked[w] = {}
    /\ \E r \in todo[w] :
         /\ checked' = [checked EXCEPT ![w] = {[request |-> r, refund |-> Refunded(r)]}]
         /\ todo' = [todo EXCEPT ![w] = @ \ {r}]
    /\ UNCHANGED <<flow, db, reported, mishaps>>

EndEntry(w) == checked' = [checked EXCEPT ![w] = {}]
EndRound(w) == EndEntry(w) /\ todo' = [todo EXCEPT ![w] = {}]

\* What the Report counts the entry as; a young one was never looked at.
Outcome(e) ==
    IF ledger[e.request] # "pending" THEN "already"
    ELSE IF e.refund > 0 THEN "refunded" ELSE "settled"

\* ... and the verdict settled after it.  Only a settlement that took effect
\* counts as a refund.
SettleEntry(w) ==
    \E e \in checked[w] :
        /\ Settle(e.request, e.refund)
        /\ EndEntry(w)
        /\ reported' = [reported EXCEPT ![e.request] =
                          IF Outcome(e) = "refunded" THEN @ + 1 ELSE @]
        /\ UNCHANGED <<old, step, topic, db, todo, mishaps>>

\* An error of the settlement ends the round.
SettleError(w) ==
    /\ \E e \in checked[w] : Settle(e.request, e.refund) \/ UNCHANGED <<ledger, redis>>
    /\ EndRound(w)
    /\ UNCHANGED <<old, step, topic, db, reported, mishaps>>

\* The round is cancelled, fails to count, or dies with its process.
StopRound(w) ==
    /\ todo[w] # {} \/ checked[w] # {}
    /\ EndRound(w)
    /\ UNCHANGED <<flow, db, reported, mishaps>>

-------------------------------------------------------------------------------
Serve(c) == PreDeduct(c) \/ Record(c) \/ Produce(c) \/ Rollback(c) \/ CloseEntry(c)

Reconcile(w) == ScanLedger(w) \/ CountOrders(w) \/ SettleEntry(w)

Next == \/ \E c \in Calls : Serve(c) \/ Crash(c) \/ Consume(c)
        \/ \E r \in Requests : GrowOld(r)
        \/ \E w \in Workers : Reconcile(w) \/ SettleError(w) \/ StopRound(w)

Spec == Init /\ [][Next]_vars

(***************************************************************************)
(* A live call goes on, the consumer works through the topic, entries age, *)
(* and reconciliation is run again and again without being cancelled every *)
(* time before it settles an entry.                                        *)
(***************************************************************************)
FairSpec ==
    /\ Spec
    /\ \A c \in Calls : WF_vars(Serve(c)) /\ WF_vars(Consume(c))
    /\ \A r \in Requests : WF_vars(GrowOld(r))
    /\ \A w \in Workers : /\ WF_vars(ScanLedger(w)) /\ SF_vars(CountOrders(w))
                          /\ SF_vars(SettleEntry(w))

-------------------------------------------------------------------------------
\* The shape of the state; Redis never goes below zero, because preDeductScript
\* is atomic.
TypeOK ==
    /\ redis \in Nat
    /\ ledger \in [Requests -> {"none", "pending", "reconciled"}]
    /\ old \subseteq Requests
    /\ step \in [Calls -> Steps]
    /\ topic \subseteq Calls
    /\ ordered \subseteq Requests
    /\ dbStock \in Nat
    /\ DOMAIN todo = Workers /\ DOMAIN checked = Workers
    /\ \A w \in Workers :
         /\ todo[w] \subseteq Requests
         /\ \/ checked[w] = {}
            \/ \E r \in Requests : \E u \in {0, Qty[r]} :
                 checked[w] = {[request |-> r, refund |-> u]}
    /\ reported \in [Requests -> Nat]
    /\ mishaps \subseteq (LeakKinds \cup ExcessKinds) \X Calls

Units(R) == UNION {{r} \X (1..Qty[r]) : r \in R}

\* The requests with an order, or a record that will become one.
Promised == ordered \cup {RequestOf[c] : c \in topic}

\* What the mishaps of some kinds may cost at most: the quantity of their calls.
Cost(kinds) == Cardinality(UNION {{m} \X (1..Q(m[2])) : m \in {x \in mishaps : x[1] \in kinds}})

\* Stock is given back only if it is not going to be ordered: what Redis still
\* offers and what orders and records in Kafka stand for fit in the stock there
\* was, but for what each mishap gave back too much.  If not, an accepted order finds
\* MySQL sold out.
OffersOnlyUnpromised ==
    redis + Cardinality(Units(Promised)) <= InitialStock + Cost(ExcessKinds)

\* The Reports of all rounds together count a refund at most once (p2:74-75).
RefundReportedOnce == \A r \in Requests : reported[r] <= 1

\* What holds of every state, whatever failed where.
Inv == TypeOK /\ RefundReportedOnce

Quiet == /\ \A c \in Calls : step[c] \notin Midway \cup {"start"}
         /\ topic = {}
         /\ \A r \in Requests : ledger[r] # "pending"

Leaked == (InitialStock - redis) - Cardinality(Units(ordered))

\* CheckIdentity once everything has come to rest: what was taken from Redis is
\* what was ordered (model.go:171), but for the cost of the mishaps; in particular
\* a behaviour without one ends with the identity intact.
QuietIdentity == Quiet => Leaked \in (-Cost(ExcessKinds))..Cost(LeakKinds)

\* Whatever call died with an entry written, the stock it took comes back.
LeaksAreReclaimed == <>[](Leaked <= Cost(LeakKinds))
===============================================================================
