----------------------------- MODULE BucketStock -----------------------------
(***************************************************************************)
(* The stock of one product in several Redis keys (package bucket): an     *)
(* order takes its units from the first bucket that has them, in at most   *)
(* 1 + MaxProbes visits from the bucket its request id hashes to, then     *)
(* writes MySQL, and gives the units back to the bucket they came from if  *)
(* that fails.                                                             *)
(*                                                                         *)
(* How many buckets there are, and how many are probed, is a parameter of  *)
(* every call (?n= and ?k=): a spread over fewer buckets than the one      *)
(* before leaves the others as they are, and an order may look for its     *)
(* units in more buckets than were spread, or in fewer.                    *)
(*                                                                         *)
(* A spread reads products.stock and writes the buckets in two calls, and  *)
(* nothing keeps orders, other spreads, or the routes that sell from MySQL *)
(* alone, from coming in between, before or after.                         *)
(*                                                                         *)
(* A script is one step in Redis.  The transaction of an order is one step *)
(* too: its first statement locks the products row.                        *)
(*                                                                         *)
(* Every Redis command may fail, or be executed and lose its reply; every  *)
(* transaction may be rolled back, or be committed and lose the reply of   *)
(* its COMMIT ("unsure"); the process may die.                             *)
(***************************************************************************)
EXTENDS Integers, FiniteSets

CONSTANTS Orders, Args,     \* request, quantity, n and k of each call
          Hash,             \* FNV-1a of a request id
          Spreads, Widths,  \* the spreads, and the n of each
          FirstCount,       \* the n of the one before the calls
          Stock,
          MaxElsewhere      \* bound: units sold by the other routes

\* bucketCfgFrom: what the query of a call overrides in DefaultConfig.
BucketCount(o) == Args[o].n
MaxProbes(o) == Args[o].k

Counts == {FirstCount} \cup {Widths[s] : s \in Spreads}
Buckets == UNION {0..n - 1 : n \in Counts \cup {BucketCount(o) : o \in Orders}}

ASSUME BucketAssumption ==
    /\ IsFiniteSet(Orders)
    /\ Counts \subseteq Nat \ {0} /\ DOMAIN Widths = Spreads
    /\ \A o \in Orders : BucketCount(o) \in Nat \ {0} /\ MaxProbes(o) \in Nat
    /\ Stock \in Nat
    /\ MaxElsewhere \in Nat
    /\ DOMAIN Args = Orders
    /\ \A o \in Orders : Args[o].quantity \in Int /\ Hash[Args[o].request] \in Nat

VARIABLES bucket,    \* seckill:stock:<id>:b<i>
          dbStock,   \* products.stock
          rows,      \* the request ids in orders
          step,      \* where each call is
          probes,    \* the buckets it has visited
          hit,       \* the bucket its units came from
          spread,    \* where each spread is
          seen,      \* the stock it read, and who had sold by then
          elsewhere, \* history: units the other routes sold
          sold,      \* history: the calls whose order is committed
          base,      \* history: what the spread that wrote last had seen,
          count,     \* ... how many buckets it wrote,
          planned,   \* ... what each bucket held after that,
          past,      \* ... the calls that had units by then,
          late       \* ... and those of them that gave units back since

spreadVars == <<spread, seen, base, count, planned, past>>
marketVars == <<elsewhere, spreadVars>>
stockVars == <<bucket, dbStock, rows, step, probes, hit, sold, late, marketVars>>

Quantity(o) == Args[o].quantity
GoesTo(o, s) == step' = [step EXCEPT ![o] = s]

Engaged == {"probing", "deducted", "undo", "unsure"}

-------------------------------------------------------------------------------
(***************************************************************************)
(* SpreadStock.                                                            *)
(***************************************************************************)
\* Go divides toward zero: of a negative total no bucket gets one more.
Plan(total, n) ==
    [b \in 0..n - 1 |-> IF total < 0 THEN -((-total) \div n)
                        ELSE total \div n + IF b < total % n THEN 1 ELSE 0]

\* The keys that are written, over what the others hold.
Over(values, held) == [b \in Buckets |-> IF b \in DOMAIN values THEN values[b] ELSE held[b]]

Now == [total |-> dbStock, sold |-> sold, elsewhere |-> elsewhere]

BucketInit ==
    /\ dbStock = Stock
    /\ count = FirstCount
    /\ planned = Over(Plan(Stock, count), [b \in Buckets |-> 0])
    /\ bucket = planned
    /\ rows = {} /\ sold = {} /\ past = {} /\ late = {}
    /\ elsewhere = 0
    /\ base = Now
    /\ spread = [s \in Spreads |-> "idle"]
    /\ seen = [s \in Spreads |-> Now]
    /\ step = [o \in Orders |-> "start"]
    /\ probes = [o \in Orders |-> 0]
    /\ hit = [o \in Orders |-> -1]

\* SELECT stock.
SpreadRead(s) ==
    /\ spread[s] = "idle"
    /\ spread' = [spread EXCEPT ![s] = "read"]
    /\ seen' = [seen EXCEPT ![s] = Now]
    /\ UNCHANGED <<bucket, dbStock, rows, step, probes, hit, sold, late, elsewhere,
                   base, count, planned, past>>

\* Faulty variant: INCRBY in place of MSET.
MSetAdds(values) == Over([b \in DOMAIN values |-> bucket[b] + values[b]], bucket)

\* The keys beyond the last one that is written keep what they had.
MSet(values) == Over(values, bucket)

\* The stock of that read, divided, over whatever the buckets hold by now.
SpreadWrite(s) ==
    /\ spread[s] = "read"
    /\ spread' = [spread EXCEPT ![s] = "done"]
    /\ bucket' = MSet(Plan(seen[s].total, Widths[s]))
    /\ planned' = bucket'
    /\ count' = Widths[s]
    /\ base' = seen[s]
    /\ past' = {o \in Orders : hit[o] # -1}
    /\ late' = {}
    /\ UNCHANGED <<dbStock, rows, step, probes, hit, sold, elsewhere, seen>>

\* The other routes sell from MySQL without a look at the buckets, some of them
\* without a look at the stock.
SellElsewhere(q) ==
    /\ elsewhere + q <= MaxElsewhere
    /\ elsewhere' = elsewhere + q
    /\ dbStock' = dbStock - q
    /\ UNCHANGED <<bucket, rows, step, probes, hit, sold, late, spreadVars>>

-------------------------------------------------------------------------------
(***************************************************************************)
(* DeductWithProbe.                                                        *)
(***************************************************************************)
StartBucket(o) == Hash[Args[o].request] % BucketCount(o)
Probed(o) == (StartBucket(o) + probes[o]) % BucketCount(o)

\* Faulty variant: the first bucket does not count as a visit.
BudgetShort(o) == MaxProbes(o)
Budget(o) == 1 + MaxProbes(o)

Begin(o) ==
    /\ step[o] = "start"
    /\ GoesTo(o, IF Quantity(o) <= 0 THEN "failed" ELSE "probing")
    /\ UNCHANGED <<bucket, dbStock, rows, probes, hit, sold, late, marketVars>>

Enough(o) == bucket[Probed(o)] >= Quantity(o)

Take(o) == bucket' = [bucket EXCEPT ![Probed(o)] = @ - Quantity(o)]

\* deductOneBucket: what one bucket answers, or does without its answer arriving.
DeductOneBucket(o, answer) ==
    \/ answer \in {"ok", "lost"} /\ Enough(o) /\ Take(o)
    \/ answer = "insufficient" /\ ~Enough(o) /\ UNCHANGED bucket
    \/ answer = "error" /\ UNCHANGED bucket

\* What the loop makes of the answer.  The units of a lost reply stay taken, and only
\* the next spread finds them.
Probe(o) ==
    /\ step[o] = "probing"
    /\ probes' = [probes EXCEPT ![o] = @ + 1]
    /\ \/ /\ hit' = [hit EXCEPT ![o] = Probed(o)]
          /\ \/ DeductOneBucket(o, "ok") /\ GoesTo(o, "deducted")
             \/ DeductOneBucket(o, "lost") /\ GoesTo(o, "lost")
       \/ /\ UNCHANGED hit
          /\ \/ /\ DeductOneBucket(o, "insufficient")
                /\ GoesTo(o, IF probes[o] + 1 < Budget(o) THEN "probing" ELSE "refused")
             \/ DeductOneBucket(o, "error") /\ GoesTo(o, "failed")
    /\ UNCHANGED <<dbStock, rows, sold, late, marketVars>>

-------------------------------------------------------------------------------
(***************************************************************************)
(* PlaceOrderWithBucketDeduct after the deduction.                         *)
(***************************************************************************)
Commit(o) == /\ Args[o].request \notin rows
             /\ rows' = rows \cup {Args[o].request}
             /\ dbStock' = dbStock - Quantity(o)
             /\ sold' = sold \cup {o}

\* UPDATE, INSERT and COMMIT; a second row of a request id breaks the unique key,
\* and any of the three may fail.
WriteOrder(o) ==
    /\ step[o] = "deducted"
    /\ \/ Commit(o) /\ GoesTo(o, "placed")
       \/ Commit(o) /\ GoesTo(o, "unsure")
       \/ /\ GoesTo(o, "undo")
          /\ UNCHANGED <<rows, dbStock, sold>>
    /\ UNCHANGED <<bucket, probes, hit, late, marketVars>>

\* Faulty variant: the bucket is computed again.
RollbackBucketStart(o) == StartBucket(o)
RollbackBucket(o) == hit[o]

\* RollbackToBucket; its error is dropped.
RollbackToBucket(o) ==
    /\ step[o] \in {"undo", "unsure"}
    /\ \/ /\ bucket' = [bucket EXCEPT ![RollbackBucket(o)] = @ + Quantity(o)]
          /\ GoesTo(o, IF step[o] = "undo" THEN "undone" ELSE "resold")
          /\ late' = late \cup ({o} \cap past)
       \/ /\ GoesTo(o, "lost")
          /\ UNCHANGED <<bucket, late>>
    /\ UNCHANGED <<dbStock, rows, probes, hit, sold, marketVars>>

Crash(o) ==
    /\ \/ step[o] = "probing" /\ GoesTo(o, "failed")
       \/ step[o] \in {"deducted", "undo", "unsure"} /\ GoesTo(o, "lost")
    /\ UNCHANGED <<bucket, dbStock, rows, probes, hit, sold, late, marketVars>>

-------------------------------------------------------------------------------
BucketNext ==
    \/ \E o \in Orders : \/ Begin(o) \/ Probe(o) \/ WriteOrder(o)
                        \/ RollbackToBucket(o) \/ Crash(o)
    \/ \E s \in Spreads : SpreadRead(s) \/ SpreadWrite(s)
    \/ \E q \in 1..MaxElsewhere : SellElsewhere(q)

BucketSpec == BucketInit /\ [][BucketNext]_stockVars

-------------------------------------------------------------------------------
\* The shape of the state.
Reads == [total : Int, sold : SUBSET Orders, elsewhere : Nat]

BucketTypeOK ==
    /\ bucket \in [Buckets -> Int]
    /\ dbStock \in Int
    /\ rows \subseteq {Args[o].request : o \in Orders}
    /\ step \in [Orders -> Engaged \cup {"start", "placed", "refused", "failed",
                                        "undone", "resold", "lost"}]
    /\ DOMAIN probes = Orders /\ \A o \in Orders : probes[o] \in 0..Budget(o)
    /\ hit \in [Orders -> Buckets \cup {-1}]
    /\ spread \in [Spreads -> {"idle", "read", "done"}]
    /\ seen \in [Spreads -> Reads] /\ base \in Reads
    /\ elsewhere \in 0..MaxElsewhere
    /\ sold \subseteq Orders /\ past \subseteq Orders /\ late \subseteq past
    /\ planned \in [Buckets -> Int] /\ count \in Counts

Units(O) == Cardinality(UNION {{o} \X (1..Quantity(o)) : o \in O})
At(steps) == {o \in Orders : step[o] \in steps}

\* The calls that took units since the last write and did not give them back.
Holders == At({"deducted", "undo", "unsure", "placed", "lost"}) \ past

\* Bucket by bucket, not just in sum: what a bucket lacks of its last plan is in the
\* orders that took it from that bucket since, or was lost with a reply or a process,
\* and what it has too much came from calls that took it before (p1_bucket.go:68-70).
From(b, O) == {o \in O : hit[o] = b}

EveryBucketBalances ==
    \A b \in Buckets :
        bucket[b] + Units(From(b, Holders)) = planned[b] + Units(From(b, late))

\* No call takes a bucket below zero: only a spread of an oversold product does.
NoBucketOverdrawn == \A b \in Buckets : bucket[b] >= 0 \/ bucket[b] >= planned[b]

\* What holds of every state, whatever failed.
BucketInv == BucketTypeOK /\ EveryBucketBalances /\ NoBucketOverdrawn

\* What the first n buckets offer; those below zero offer nothing.
Offered(n) == Cardinality(UNION {{b} \X (1..bucket[b]) : b \in 0..n - 1})

\* MySQL backs what the buckets of the last spread offer and what was taken from them:
\* the UPDATE has no condition, and that it does not sell what there is not rests on
\* this alone (model.go:64-66, p1_bucket_test.go:58).  What it does not back is, unit by
\* unit: orders committed since the spread's read whose units are not missing in these
\* buckets, because they were given back after a COMMIT whose reply was lost, or came
\* from a bucket beyond, or from before the write; units the other routes sold since the
\* read; units that came back after the write but were taken before; and what MySQL had
\* oversold at the read.
Fresh(O) == {o \in O : hit[o] < count}
SoldPast == (sold \ base.sold) \ Fresh(Holders)
Oversold == IF base.total < 0 THEN -base.total ELSE 0

OffersAreBacked ==
    Offered(count) + Units(Fresh(Holders) \ sold) <=
        dbStock + Units(SoldPast) + (elsewhere - base.elsewhere) + Units(Fresh(late)) + Oversold

\* As long as nothing is spread and no units come back, an order is refused only when
\* each of the 1 + k buckets it may visit has less than it asks for: not when all n are
\* short, for the budget is explicit (model.go:35-37), and not one visit early.
RefusedOnlyWhenShort ==
    (\A s \in Spreads : spread[s] # "done") /\ At({"undone", "resold"}) = {} =>
        \A o \in At({"refused"}) : \A i \in 0..MaxProbes(o) :
            bucket[(StartBucket(o) + i) % BucketCount(o)] < Quantity(o)
===============================================================================
