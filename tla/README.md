# A TLA+ development of go-seckill

go-seckill sells a limited stock under concurrent demand: MySQL holds products and orders,
Redis holds a fast copy of the stock, Kafka carries orders that are placed later. This
directory models its concurrent and failure-prone parts, checks them with TLC and proves
some of them with TLAPS. `PROJECT.json` lists, for machines, what this file explains:
components, runs, the source lines of each definition, hazards and theorems.

## 1. Inventory of the system

Paths are under `src/internal/` unless they start with `cmd/`.

| part | state | operations | what is hard | module |
|---|---|---|---|---|
| order placement `order/order.go` | `products`, `orders` in MySQL | `PlaceOrderTx` | check-then-act over several statements, duplicates, replays, lost replies, lock waits | `OrderStore`, `OrderTx` |
| order ids `idgen/snowflake.go` | last millisecond, sequence number, mutex | `NextID` | clocks that step back, sequence wrap, restarts, node numbers given twice | `Snowflake` |
| order consumer and lag gauge `mq/p1..p4`, loop in `cmd/api/main.go` | log, committed offset, positions, dead letters | `PollBatch`, `ProcessWithRetry`, `CommitProcessed`, `GroupLagTotal` | redelivery, rebalances, late commits, bounded retries, a gauge that takes two requests | `OrderConsumer` |
| asynchronous enqueue `mq/p1_async.go`, `reconcile/` | Redis stock, ledger, records in Kafka | `EnqueueOrder`, `EnqueueWithCrash`, `EnqueueWithLedger`, `ReconcileOnce` | a crash between any two commands, double refunds, records that were written after all | `LedgerFlow` |
| deduction paths `deduct/`, `order/naive.go` | stock in MySQL and Redis, a Redis lock | version CAS, conditional update, lock + watchdog, pre-deduction, the naive version | paths that use different guards on one row, compensation that fails | `DeductPaths` |
| order expiry `expire/` | Redis index, order status, Redis stock | `ClaimDue`, `CloseCreatedOrder`, `RestoreClosedStock`, `RemoveProcessedExpiry`, `RunScanner` | overlapping scans, scans that end early, payment against closing | `Expiry` |
| reservation `inventory/`, `asyncorder/`, `adapter/grpc*`, `gateway/async_http.go` | Redis stock and reservations | `Reserve`, `Restore`, `PlaceOrderAsync` | lost requests and replies on two RPC hops, one id used twice, error mapping | `ReservedOrder` |
| write routes of the api `gateway/http.go`, `adapter/inprocess/`, handlers in `cmd/api/main.go` | what each client was told, MySQL and Redis together | `POST /orders`, the debug approaches, `async-ledger`, `WarmStock`, the lookup of an order | two ways to one stock, error mapping through two layers, 202 and what follows | `Gateway` |
| product cache `cache/` | rows, Redis entries with TTL, flights | `Get`, `Warm`, `UpdateStock` | fills that race with deletes, writers that bypass it | `ProductCache` |
| bucketed stock `bucket/` | N Redis keys, MySQL | `SpreadStock`, `DeductWithProbe`, `RollbackToBucket`, the order | spreads under way, bounded probes, callers that know other numbers of buckets, an unconditional UPDATE | `BucketStock` |
| circuit breaker `overload/p3_breaker.go` | state, counters | `Do`, `State` | results that arrive after the state changed, or never | `Breaker` |
| overload gate and shutdown `overload/p1,p2,p4`, `cmd/api/main.go` | tokens, slots, loop, deadline | `Allow`, `Acquire`, `Release`, `Shutdown` | channel and counter apart, order of the shutdown steps | `ApiProcess` |

How they interact: `POST /orders` calls `PlaceOrderTx`, which asks `Snowflake` for an id.
The asynchronous routes take stock in Redis first (script, ledger or reservation), then
produce to Kafka; the consumer loop calls the same `PlaceOrderTx`. The other deduction paths
and the buckets write MySQL themselves. Expiry and the reconciler give stock back to Redis.
The gate stands before the write routes, the breaker around the order-service client, and
the shutdown closes what all of them use.

Not modelled: the interceptors, the order shards, the canary router and the core of service
discovery, because their functions panic with `TODO` in this commit; connections, metrics,
environment parsing and construction, generated code, tools and the handlers that only read
or reset state for a demonstration, because they change nothing the others rely on.
`LatencyCollector` and `Percentiles` of `expire/p3_latency.go` compute a report from
floating-point ranks (`math.Ceil(p * n)`), which integers do not reproduce, and are left out
as well; nothing in `src/` calls `ScannerShutdownStep` (`expire/model.go`) but tests.

## 2. Modules and how they correspond to the code

Each component module has its constants and assumptions, variables, one action per
statement, command or locked section, `Spec`, and at the end its properties. (`Breaker`,
`Snowflake`, `Expiry` and `ProductCache` name theirs `BreakerSpec`, `IdSpec`, `ExpirySpec`
and `CacheSpec`, so that a module of proofs can extend them beside another component.) Where
the code's next step is decided by what the last one returned, a variable says where the
process is. `MC*` modules give workloads; `*Proofs` modules hold theorems. Definitions
called "Faulty variant" are plausible bugs: each property is broken by one of them, which
shows that it says something about the code. They are not part of any specification.

* **OrderStore** is the abstract store: placing an order is one step, which returns the
  order there is, makes it, or refuses. **OrderTx** is `PlaceOrderTx` statement by
  statement: snapshot read, `SELECT ... FOR UPDATE`, id, INSERT with the unique key, UPDATE,
  COMMIT, the read of the winner after error 1062; statements may fail, a transaction may be
  a deadlock victim, a commit's reply may be lost. `OrderTx` implements `OrderStore`; the
  other modules use that and take one step for a placement.
* **Snowflake**: `NextID` is one step, except that the busy wait for the next millisecond
  spans the clock's steps. A refused call (clock behind `lastTs`) changes nothing. The clock
  may be set back at any time, a process may die at any time and start again with any node
  number, and several may have one: nothing in the code is against it. A *life* is what a
  process does from one start to the next.
* **OrderConsumer**: the loop of each member over one partition. The broker accepts commits
  of a member that lost the partition. In two cases the loop goes past a record it did not
  handle; `abandoned` is the history of these records, so that the properties say that
  nothing else is lost. A fetch with records and an error at once is franz-go's behaviour
  and external. A scrape of the lag gets the log end and the committed offset in two
  requests, in either order, while the members go on; `LagGauge` is what it can show then.
* **LedgerFlow**: a Redis command or script is a step; a process may die between any two,
  and a command may return an error with or without having been executed. The failures that
  the code repairs are just steps. Those that nothing repairs are *mishaps*, each of which
  is recorded with the call it happened to: four kinds leak stock (`LeakKinds`), three give
  it back too often (`ExcessKinds`), and the properties bound what each may cost by the
  quantity of its call. A retry of a request whose entry is taken, or is not needed, is the
  mishap `taken_again`, which does not count against the bound. `CrashSwitch` is the crash
  at `recorded`. A reconciler reads the clock, scans, counts the orders of each entry,
  settles it; any number run at once.
* **DeductPaths**: the five approaches, the lock with and without its watchdog, and the
  naive version against one product. A pessimistic call is one step, because `OrderTx`
  implements `OrderStore` (it may end with an error whether or not its order is there); the
  others implement it too, statement by statement, until one oversells (`ImplementsStore`).
  Which calls may meet is `approach`, chosen from a workload; `Alike` says that they agree
  on what guards the stock. A watchdog stops after a renewal that failed (`WatchdogStops`);
  `overrun` is the history of the locks that ran out in the critical section. The outcomes
  `unknown` (a COMMIT whose reply was lost), `kept` (a pre-deduction whose reply was lost,
  or a compensation that did not arrive) and `taken` (a naive call that took stock and wrote
  no order) name the failures by which stock and orders drift apart.
* **Gateway** composes what shares a stock in the api process: the synchronous routes, which
  are steps of `OrderStore` on MySQL, the asynchronous route through Redis, the ledger and
  Kafka, its consumer and reconciler in few steps (`LedgerFlow` and `OrderConsumer` have
  them in detail), `WarmStock`, the overload gate, and a client that polls. The consumer may
  go past a record with neither an order nor a dead letter (`Skip`, history `abandoned`).
  The reconciler counts and refunds in two steps, with any window: also an entry whose call
  is still at work, or whose record is in Kafka. A request may come twice on this route, and
  then has one entry. `status` is what each client was told; `overdrawn` counts the units
  that were sold past Redis, or came into Redis without MySQL, one by one.
* **Expiry**: nothing in the repository but its tests composes the four operations; their
  order is used, and a scanner that ended starts again. Which due orders `ClaimDue` picks
  within its limit is left open. `strained` is the history of the orders whose claim ran out
  under a scan or whose scan ended between close and restore.
* **ReservedOrder**: gateway, order service and inventory service; every RPC may be lost on
  its way there or back, the order service may die at each step, and the mapping of errors
  on each hop is part of the state, the error of a failed compensation that is joined to
  that of the produce included. Quantities fit in the messages' int32; a missing stock key
  is a stock of 0.
* **ProductCache**: rows are versions, so that staleness is a comparison. A flight is the
  set of readers of a process that wait for one load. `raced` marks an entry whose row
  changed in one of the ways that leave the key behind. The Set and the end of the flight
  are two steps, between which readers still join. A read ends in the status of `GET
  /products/:id`.
* **BucketStock**: a script is one step; so is the order's transaction, whose first
  statement locks the row. Each call has the number of buckets and of probes that its query
  asks for; a spread leaves the buckets beyond its own number as they were. A spread reads
  MySQL in one step and writes Redis in another, at any time: orders, other spreads and
  sales of the other routes come in between. `base` is what the spread that wrote last had
  seen, `past` the calls that had their units by then.
* **Breaker**: the two locked parts of `Do` are steps, the call is the time between them.
  Time is one Boolean: whether `OpenFor` has passed since the breaker opened. A call may
  panic: the second part is then left out, and `leaked` counts the probes that stay counted.
* **ApiProcess**: tokens are whole per tick; the slot (channel) and the counter are two
  steps, as in the code; shutdown is the index of its current step and the deadline.
  Requests come in until the first shutdown step has closed the listener; that step may also
  fail for an error of the listener, without the deadline.

Assumed of the environment: InnoDB's row locks, unique keys and atomic commits; Redis runs a
script at once and keeps its data; go-redis does not send a command again after it may have
been executed; Kafka keeps an acknowledged record and orders a partition.

## 3. Runs

Every run is expected to pass. Where the code has no answer to a mishap, the mishap is
possible in the run, the model remembers that it happened, and the property says what still
holds then: it excuses what the mishap itself does and nothing more (section 5). `Inv` of a
module (`ExpiryInv`, `CacheInv`) is its type invariant and the invariants that need no such
excuse; `IndInv` (`BreakerInv`, `IdInv`) is the inductive invariant of its proofs, which
contains them too.

| run | bounds | states | what holds |
|---|---|---|---|
| `place_order` | 3 calls, all assignments of 5 requests (duplicates, two products, a missing one, quantity 0), 2 order ids, fair | 67 000 | `IndInv`: no overselling, one order per request, one holder per row, answers are committed; the stock identity; every step is a step of `OrderStore` or none (`StoreSpec`); a replay is never told "sold out"; every call returns |
| `consumer` | 2 members, 2 records, one poisoned, 2 crashes or rebalances, 2 attempts, a scrape at any time, fair | 1 030 000 | nothing below the committed offset is unaccounted for (and `IndInv`, why); what a scrape shows hides no record that is left to do (`LagCoversBacklog`); every record is an order, a dead letter or abandoned in the end |
| `ledger` | a request sent twice and one without an entry, 2 reconcilers, every failure anywhere, one mishap of the seven kinds beside retries, fair | 140 000 | refunds are reported once (`Inv`); Redis offers nothing promised, what it lacks at rest is what was ordered, and leaks come back, each but for the cost of the mishaps |
| `gateway` | 3 calls on every route: one request on both ways to the stock or twice on one, a competitor, a missing product, a negative and a missing quantity, a warming; reconciliation with any window; 2 slots, fair | 294 000 | every status is true on every route (`Inv`); MySQL covers what Redis offers or has taken, but for `overdrawn`; a polling client learns of its order unless it was dead-lettered or abandoned |
| `paths` | 4 calls, one duplicate, demand above the stock; each approach alone, pessimistic with conditional calls, and four that agree on nothing | 236 000 | `Inv`: no overselling without a mishap or a mixture, the stock identity, a lock is lost by expiry only, exhaustion means contention; the approaches implement `OrderStore`; Redis and MySQL differ by what was sold past Redis and by what was kept, unit by unit; no call gets stuck (deadlock check) |
| `expiry` | 2 orders, 2 overlapping scanners that may end anywhere, batches of two, two initial stocks, fair | 24 000 | `ExpiryInv`: stock back at most once and only of closed orders, no order held twice; off the index only when settled, every due order is settled |
| `reserved_order` | 5 calls: an id three times, once with other terms, a competitor, a missing quantity, and a negative one of a product below zero; every loss and crash | 439 000 | the stock lacks exactly the standing reservations, and each has an owner (`Inv`); answers are true; an accepted record keeps its reservation |
| `breaker` | 4 goroutines, threshold 2, 2 probes, 2 panics, fair | 266 000 | `BreakerInv`: closed means below the threshold, no probe is counted that neither runs nor panicked; the breaker recovers unless all its probes panicked |
| `api_process` | 3 requests, 1 slot, bucket of 2, 3 ticks, 2 records, fair | 254 000 | `Inv`: refill exact, capacity kept, no slot leaks; dependencies outlive work, and work is cut off by the deadline only, or a batch by a listener that fails (`StopsInOrder`); a signal ends the process |
| `bucket_stock` | up to 2 buckets, by call and by spread, 3 orders (a duplicate, an order of two units, demand above the stock), 2 spreads at any time, one sale elsewhere, every fault | 824 000 | each bucket balances (`BucketInv`); MySQL backs the buckets but for units that are named one by one; refused only when each bucket of the budget is short |
| `product_cache` | 2 readers of a process, a warming, an update, orders behind the cache, 3 versions, fair | 824 000 | loads are merged, reads are fresh without a known cause (`CacheInv`), each stale entry has a cause of its own, the cache gets fresh |
| `order_ids` | 2 processes with any of 2 node numbers, 2 ids a millisecond, 3 milliseconds, the clock set back once, a restart each, fair | 324 000 | only two lives with one node number make an id twice; the ids of one life grow (`IdInv`); the busy wait ends |

Why the bounds are enough to be telling: each workload has the contention its properties are
about. There are always two actors in the same critical place and a third that comes before
or after; the demand exceeds the stock by less than one request, so that who wins matters;
one duplicate, and one failure more than the code's own retries or repairs absorb. One
mishap is enough to show what its kind costs: the bound on the cost grows with each. Two
members and two moves let a partition go and come back; two scanners or reconcilers are what
"another process" means in every script. Bounded counters are constants named in the
modules: `MaxMishaps`, `MaxMoves`, `MaxRecords`, `MaxElsewhere`, `MaxVersion`, `MaxTime`,
`MaxClock`, `MaxBack`, `MaxRestarts`, `MaxIds`, `MaxPanics`, `Backlog`; the set `Spreads`
bounds the spreads. The fields of an id are one bit wide for the node and the sequence
number in `order_ids`. `CHECK_DEADLOCK FALSE` stands where the work of a run ends: all
requests answered, all records handled, the process stopped, or the bounded clock at its
end.

## 4. Fairness

Fairness matters to the liveness properties only.

* `OrderTx`: a call whose next statement can return does so (weak fairness per call): MySQL
  detects deadlocks and commands have deadlines.
* `OrderConsumer`: a live loop goes on, a dead process is started again, an unassigned
  partition is assigned. Crashes are not fair and bounded.
* `Gateway`: handlers return, the consumer works through its partition, and a client that
  wants to know its order asks again. Nothing is assumed of the reconciler, of warming, or
  of how often the consumer goes past a record.
* `LedgerFlow`: live calls go on, the topic is consumed, entries get old, reconciliation is
  called again and again. Strong fairness for counting and settling, since a round may be
  cut short any number of times, but not always at the same entry.
* `Expiry`: the clock goes on; strong fairness for a scan to claim and to finish with an
  order, for the same reason, which is also the supervisor the code lacks around
  `RunScanner`.
* `Breaker`: time passes, calls return (they have deadlines) or panic, goroutines keep
  calling.
* `ProductCache`: TTLs run out, loads and updates end.
* `ApiProcess`: the main goroutine runs and the deadline's timer fires; nothing is assumed
  of handlers and records, which may hang.
* `Snowflake`: the clock goes on, also after it was set back, and the waiting goroutine
  runs.

## 5. What the code does not keep

Statements of the repository that the model contradicts, and needs that nothing in it
enforces. None is a run of its own: the property named here excuses the case, and dropping
the excuse makes TLC show the behaviour.

1. `ReplayNeverRefused`, calls under way: a concurrent duplicate of the request that took
   the last units is refused as sold out, since the stock is checked (`order.go:52`) before
   the unique index can speak; `order.go:16` calls that index the final judge of
   idempotence, and `order_test.go:116` fails on any error of a duplicate. `OrderStore`
   therefore lets such a request be refused. A replay of a stored request never is.
2. `NoSilentLoss`, `abandoned`: after an error of `ProcessWithRetry` the loop
   (`cmd/api/main.go:185`) goes on to the next record, whose commit passes the failed one.
   `p2_commit.go:23`: "Only a successfully handled record may cross this line."
3. `NoSilentLoss`, `abandoned`: `PollBatch` (`p1_async.go:101`) returns one partition's
   error and drops the records of the others; its comment (`:97-98`) says that discarding
   them would "silently skip in-memory work".
4. `LedgerFlow`, `taken_again`: `EnqueueWithLedger` deducts before it looks at the ledger
   (`p2_reconcile.go:44`), so a retried request deducts again without an entry of its own.
   `docs/writeups/m5x-consistency.md:120` names only the window before the entry.
5. `LedgerFlow`, `left_open`: between the rollback and the settling of the entry
   (`p2_reconcile.go:51`) a crash lets the reconciler refund again; `m5x-consistency.md:35`
   says the two are inseparable.
6. `LedgerFlow`, `produce_unheard`: a record whose ProduceSync failed may have been written;
   the stock is rolled back (`p1_async.go:65`, `p2_reconcile.go:49`) and the order comes
   nevertheless. The reservation path has the same hole; its compensation gives the stock of
   such a record back too.
7. `LedgerFlow`, `aged_in_flight`: nothing ties the window (a query parameter, 3 s if there
   is none, `cmd/api/main.go:548`) to the lag: an entry that leaves it while its record
   waits in Kafka is refunded, and its order comes later.
8. `NoOversell`, `Alike`: the conditional updates (`optimistic.go:117`, `lock.go:203`,
   `prededuct.go:99`, `order.go:87`) do not move `products.version`, so a CAS call beside
   them oversells; `migrations/0003_products_version.sql:2` says that every deduction moves
   it.
9. `GateCoversStock`, `SoldPast`: an error of COMMIT (`prededuct.go:113`) is compensated
   also when the commit took effect; `prededuct.go:77` needs no check of the stock because
   Redis is the gate. Each such COMMIT costs the quantity of its call.
10. `GateGivesBack`, outcome `kept`: the compensation (`prededuct.go:94`) runs on the
    context of the request, which may be what failed (`mq/p1_async.go:73-75` gives the
    reason not to do so), and an error of the script itself (`:88`), which may have run, is
    not compensated at all.
11. `AcceptedIsBacked`, `overdrawn`: `POST /orders` and the debug approaches sell from MySQL
    and leave Redis as it is (`order.go:87`), so that orders accepted meanwhile end in the
    dead-letter topic; warming (`deduct/model.go:61`) sets Redis to what MySQL had, whatever
    is on its way through Kafka; and a refund gives units back that a call at work or a
    record in Kafka still needs (item 7).
12. `AcceptedIsBacked`, `overdrawn`: a negative quantity on the asynchronous route adds
    stock to Redis (`prededuct.go:40`); `PlaceOrderTx` refuses its record and `settleScript`
    (`reconcile/model.go:219`) takes nothing back. `order.go:20` checks the quantity first.
13. `PollingSettles`, `dead` and `abandoned`: the lookup says "pending" for ever of a record
    that went to the dead-letter topic or that the consumer went past
    (`gateway/http.go:70`).
14. `OffersAreBacked`: the UPDATE has no condition because the buckets hold what MySQL has
    (`bucket/model.go:64-66`). They hold more after a COMMIT whose reply was lost; where a
    bucket beyond the last spread keeps its units (`p2_spread.go:48`) and a call that asks
    for more buckets sells them once more; and where a spread (`:31`, `:48`) writes what it
    read before an order committed, before units came back, or before the other routes sold.
    What MySQL has oversold by then no later spread makes good.
15. `RemovedOnlyWhenSettled`, `strained`: a scan that ends between close and restore loses
    the stock, as the next one sees no changed row and removes the order; `p2_close.go:52`
    says that an order is removed only when its stock is back.
16. `Expiry` has no property that MySQL backs Redis: closing (`p2_close.go:48`) gives stock
    back in Redis and leaves `products.stock` as it is, although `m5x-consistency.md:15-16`
    calls this the closed cycle of the stock.
17. `AcceptedStaysReserved`, step `restored`: of two calls of one id, the one whose produce
    fails restores what the other's record needs (`asyncorder/service.go:35`).
18. `StaleIsAccountedFor`: orders change the row without touching its key (`order.go:87`);
    `m02-cache.md:75-76` names one race as the only source of staleness.
19. `NeverOvercounts` is an upper bound only: `probesInFlight` is set to 0 while a probe of
    an earlier half-open spell runs (`p3_breaker.go:105`), so that more than
    `HalfOpenProbes` run at once, and a late success (`:79`) closes a breaker that has just
    opened.
20. `ServedWithinCapacity` is about slots: `Release` (`p1_admission.go:59`) empties the
    channel before it counts down, so the reported `InFlight` may exceed the capacity, by
    the calls on their way out and no more (`SlotsAccounted`).
21. `EveryWaitEnds` assumes a clock that goes on: the busy wait (`snowflake.go:56`) holds
    the mutex until a clock that was set back has caught up; `m01-baseline.md:16` says that
    such a clock is refused and never waited for.
22. `UniqueIds`, two lives: `snowflake.go:43` promises ids that grow and do not conflict
    across processes. That holds for distinct node numbers, which are left to configuration
    (`NODE_ID` is 1 unless it is set, `cmd/api/main.go:109`), and within one life, as a
    successor knows nothing of its predecessor's last millisecond.
23. `Recovers`, `LockedOut`: nothing in `Do` is deferred (`p3_breaker.go:71`), so that a
    probe whose call panics under `gin.Recovery` (`cmd/api/main.go:309`) stays counted; as
    many of them as `HalfOpenProbes` in one half-open state shut the breaker for good.
24. `StopsInOrder`, `failed`: when closing the listener fails (`cmd/api/main.go:683`), the
    later steps are not run (`overload/p4_shutdown.go:32`), and the process ends under a
    batch of the consumer.

## 6. Proofs

All proofs hold for every value of the constants that satisfies the named assumptions of the
component module, which TLC evaluates on each run.

* **UnitCounting** is what the proofs about stock share. A quantity is a number of units,
  and what a set of orders adds up to is the size of a set of pairs (`Cells`): finite, and
  growing or shrinking by the quantity of the member that comes or goes. The library's
  theorems on cardinality then do what an induction over a sum would.
* **OrderTxProofs.** `IndInv` adds to the properties that a products row has one lock holder
  (`LockExclusive`), that a transaction's drafts and debits are its own and match its step
  (`CallsOwnTheirWork`), and that the set of orders is finite, so that sums over it can be
  taken apart. Without the first, a checked stock could be taken by another call before the
  UPDATE; without the second, a rollback could undo another's work. One lemma per action;
  then `TypeCorrect`, `NeverOversells`, `StockIdentity`, `IdempotentPlacement`,
  `AnswersAreDurable`, and `ImplementsStore`: each step is a step of `OrderStore` or a
  stutter. `ReplaysAreNotRefused`: a call that begins when its request has an order is
  `Replaying` from then on, that is, never at the stock check.
  The same module proves the **ids of the orders** (`Snowflake`). An id is a number in mixed
  radix: `HigherDigitDecides`, `DigitsUnique`, `PackGrows`, `PackInjective`. `Behind` says
  that each id lies behind what its process holds, or was made in an earlier life. `Growth`
  and `Uniqueness` follow for any field widths, any number of processes with any node
  numbers, and any clock: the ids of one life grow, and an id made twice was made by two
  lives with one node number. Nothing is assumed of the clock or of the numbers; that there
  are no such two lives is not proved, as the code does not see to it.
* **LedgerFlowProofs.** `ReportsClose` says that a reported refund has closed its entry; as
  `settleScript` never opens one, no second refund is reported (`RefundsReportedOnce`), for
  any number of reconcilers and any failures. The books are two accounts (`BooksBalance`).
  `OffersWhatIsLeft`: what Redis offers, what calls carry, what entries and counts under way
  will give back (`Owed`) and what is promised fit in the initial stock and the cost of the
  mishaps that give back too much. `TakenIsKnown`: what left Redis stands as an order, a
  record or an entry, is held by a call, or was paid by a mishap that leaks. Both need to
  know how far a call can have got and what its entry can be then (`InOrder`), and that a
  reconciler's verdict was old when it was made (`WorkIsOld`), since an entry is settled
  long after it was read. One lemma per step and account; the first gives
  `NothingOfferedTwice`, both together, at rest, `IdentityAtRest`.
* **DeductPathsProofs.** `StockMatchesOrders` holds of every mixture. Against overselling,
  `Guards` says that the stock a call was satisfied with is still there when it commits,
  because of the row lock (`Shape`: who is past its UPDATE has the row), the version, the
  Redis lock, or what was taken from Redis before; as long as the calls agree on what guards
  the stock (`Alike`). `GateBalances` is an equation that holds of every mixture and every
  failure: Redis, what calls have taken and what was kept are MySQL's stock and what was
  sold past Redis. `Overtaken` counts the versions that a CAS call saw pass, hence
  exhaustion means contention. `PathsKeepTheBooks`, `GateCovers`, `GateSettles` follow, and
  `PathsImplementStore`: each statement of each approach is one step of `OrderStore` or a
  stutter, until one oversells.
* **GatewayProofs.** What a call took from Redis it holds until it is placed, given back or
  lost; `overdrawn` has whatever else put Redis ahead of MySQL. `Course` says how far a call
  at work can have got, and with `Told` that no answer comes before its reason. A step moves
  the books of one product and the place of one call, so each action has to show three
  things: Redis and the units outstanding do not gain on MySQL (`StaysBacked`), its own call
  keeps its course, and the others stand. A refund is the delicate one (`RefundBacked`): its
  units stay outstanding when the call is at work or its record in Kafka, and then
  `overdrawn` counts them. `AnswersAreTrue` and `AcceptedCanBePlaced` follow for any calls
  on any routes, repeated requests included.
* **ReservedOrderProofs.** `Standing` says that a call past Reserve finds its reservation
  standing, or restored by a call of the same request; `OnlyStockIsConflict` goes through
  the error mappings of both hops. `AnswersAreTrue` and `AcceptedKeepsStock` follow for any
  number of calls and requests. `BooksBalance` counts units: what stands reserved is within
  the initial stock (`QuantitiesFit`), a call past Reserve finds its own terms booked, so
  that its Restore gives back as many units (`TermsAreBooked`), and the stock is what is
  left.
* **OverloadProofs**, the gate and the shutdown: the slots and the counter are the sizes of
  the two sets of calls that have touched them (`Admitted`), and each shutdown step that
  ended without an error leaves its part idle (`StepsBehind`); hence `GateKeepsItsLimits`
  and `ShutdownStopsInOrder`. Refills are exact for any rate, capacity and pause, in whole
  tokens. The breaker: the count of probes never exceeds the probes that run and those that
  panicked in this half-open state (`leaked`), whatever results come late; hence
  `ClosesAfresh`, `CountsOnlyRunning` and `NoLockout`: a half-open breaker refuses only
  while a probe is on its way to settle it, or when all that it may count have panicked.
  The bucketed stock: a step moves the units of one call (`UnitsMove`), and a spread settles
  every bucket, since a plan adds up to what it hands out (`PlanAddsUp`, any total over any
  number of buckets). The balance of the buckets needs to know who is who: `Engages` says
  which bucket a call at work was paid from, and that it has not committed before its
  transaction. That MySQL backs the offers rests on two accounts: `BooksBalance` says where
  the stock went, now and at each read, and `SpreadCovers` that offers and holdings stay
  within what the last spread handed out. `VisitedAreShort` says that the buckets a call has
  visited in vain stay short of it while nothing comes back. `BucketsBalance`,
  `BucketsAreBacked` and `RefusalsHaveTheirReason` follow for any orders, any n and k of
  each and any spreads at any time.
* **BackgroundProofs**, the order consumer: a record is `Accounted` when it is handled or
  abandoned. `NothingDropped` says that all before a member's current record is accounted
  for, and that what the owner has fetched is too or is still in its batch; `InBatch` that a
  member commits only a handled record. `NoRecordLost` follows for any number of members,
  crashes, rebalances, failed dead letters and broken fetches, and `LagTellsBacklog`, which
  needs `ScrapeIsSound`: what the first request of a scrape got stays true of the log while
  the members go on, though the committed offset may go down.
  The expiry scan: `ResultsAreTrue` and `OneCloser` say that one scan has the row's change
  in hand, `ClaimsLast` that a held order is out of reach until its score is due again, and
  `CloserAtWork` that a closed order without its stock is still with that scan.
  `GivesBackOnce` and `NoneLeftBehind` follow for any number of orders, scanners and
  overlapping claims. The product cache: a flight has one load (`OneLoad`), and nobody waits
  for a result that is too old for it (`LoadsAreFresh`): a reader that began when nothing
  was in the way joins no load that read the row before. A change of the row either deletes
  the entry or blames it (`BlameKeeps`). `ReadsAreCurrent` and `StalenessHasACause` follow
  for any number of processes, readers, warmers and writers.

Each module with proofs of two or three components keeps a section and an inductive
invariant for each; the components share no state there.

Only model-checked: the nine liveness properties, which need fairness, and with it ENABLED:
`EveryCallReturns`, `EveryRecordHandled`, `LeaksAreReclaimed`, `PollingSettles`,
`EveryDueSettled`, `Recovers`, `EveryStopEnds`, `EventuallyFresh` and `EveryWaitEnds`. Every
other property of a run is a theorem. No module that is proved about uses a `RECURSIVE`
operator or a fold; sums of quantities are sizes of sets of units.

## 7. Plan

Written in this order, the most important behaviour first: `OrderStore` and `OrderTx` with
its proofs; `OrderConsumer`; `LedgerFlow`; `DeductPaths`; `Breaker`; `Expiry`;
`ReservedOrder`; `ProductCache`; `BucketStock`; `ApiProcess`; `Snowflake`; `Gateway`, which
composes them; the proofs.

Refinements: `OrderTx` and, until one oversells, each approach of `DeductPaths` implement
`OrderStore`; `Gateway` and `LedgerFlow` place orders by its steps.

Next:

1. An abstract stock gate (take, give back, sell) that the pre-deduction of `DeductPaths`,
   `BucketStock` and `ReservedOrder` implement, each with a refinement mapping.
2. The breaker around the order-service client in `ReservedOrder`, once it is there.
3. The components whose bodies are `TODO` here, once they are written.
