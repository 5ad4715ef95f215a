---------------------------- MODULE ProductCache ----------------------------
(***************************************************************************)
(* cache.ProductCache: the cache-aside reads of one product, the           *)
(* singleflight group that merges the loads of a process, the warming, and *)
(* UpdateStock, which writes the row and then deletes the key.             *)
(*                                                                         *)
(* A row is known by its version: 0 is no row, and every write makes the   *)
(* next version.  Time is the Expire action: an entry with a TTL may       *)
(* expire at any moment.  Every Redis and MySQL call may fail; a read that *)
(* fails changes nothing, a write that fails may have happened.            *)
(*                                                                         *)
(*   Instance   the api process of each reader; Warmers call Warm, which   *)
(*              does not go through the group                              *)
(*                                                                         *)
(* Orders change products.stock too (DeductStock), and know of no key.     *)
(***************************************************************************)
EXTENDS Integers, FiniteSets

CONSTANTS Readers, Warmers, Writers, Instance,
          MaxVersion   \* bound: times the row may change

ASSUME CacheAssumption ==
    /\ DOMAIN Instance = Readers
    /\ Readers \cap Warmers = {}
    /\ MaxVersion \in Nat \ {0}

VARIABLES row,     \* the products row
          entry,   \* seckill:product:<id>
          flight,  \* the readers of each process that share a load
          call,    \* where a reader or a warmer is
          seen,    \* the row its load returned
          got,     \* what a reader's last Get returned
          floor,   \* the row it must not be older than
          update   \* where each UpdateStock is

cacheVars == <<row, entry, flight, call, seen, got, floor, update>>

Versions == 0..MaxVersion
NoRow == 0
Failed == -1
NoEntry == [held |-> FALSE]

CacheInit ==
    /\ row \in {NoRow, 1}
    /\ entry = NoEntry
    /\ flight = [p \in {Instance[r] : r \in Readers} |-> {}]
    /\ call = [c \in Readers \cup Warmers |-> "idle"]
    /\ seen = [c \in Readers \cup Warmers |-> NoRow]
    /\ got = [r \in Readers |-> Failed]
    /\ floor = [r \in Readers |-> NoRow]
    /\ update = [w \in Writers |-> "start"]

GoesTo(c, s) == call' = [call EXCEPT ![c] = s]

-------------------------------------------------------------------------------
(***************************************************************************)
(* When is the entry current?  "raced" is history: the row changed between *)
(* the load that an entry comes from and its Set, or changed under the     *)
(* entry by an order, a listing or an update that failed.                  *)
(***************************************************************************)
Stale == entry.held /\ entry.version # row
Blamed(now) == IF entry.held /\ entry.version # now THEN [entry EXCEPT !.raced = TRUE] ELSE entry
HasRow(c) == call[c] \in {"filling", "filled"}
StaleLoad(c) == HasRow(c) /\ seen[c] # row
Updating(w) == update[w] = "updated"

Clean == /\ \A w \in Writers : ~Updating(w)
         /\ \A c \in Readers \cup Warmers : ~StaleLoad(c)
         /\ entry.held => ~entry.raced

-------------------------------------------------------------------------------
(***************************************************************************)
(* Get.                                                                    *)
(***************************************************************************)
\* A hit, of a product or of the placeholder, a miss, or an error of Redis.
Get(r) ==
    /\ call[r] = "idle"
    /\ floor' = [floor EXCEPT ![r] = IF Clean THEN row ELSE NoRow]
    /\ \/ /\ entry.held
          /\ got' = [got EXCEPT ![r] = entry.version]
          /\ UNCHANGED call
       \/ /\ ~entry.held
          /\ GoesTo(r, "missed")
          /\ UNCHANGED got
       \/ /\ got' = [got EXCEPT ![r] = Failed]
          /\ UNCHANGED call
    /\ UNCHANGED <<row, entry, flight, seen, update>>

\* Faulty variant: every miss loads for itself.
DoAlone(r) ==
    /\ call[r] = "missed"
    /\ GoesTo(r, "loading")
    /\ flight' = [flight EXCEPT ![Instance[r]] = @ \cup {r}]
    /\ UNCHANGED <<row, entry, seen, got, floor, update>>

\* sf.Do: the first miss of a process loads, the others wait for its result.
Do(r) ==
    /\ call[r] = "missed"
    /\ GoesTo(r, IF flight[Instance[r]] = {} THEN "loading" ELSE "waiting")
    /\ flight' = [flight EXCEPT ![Instance[r]] = @ \cup {r}]
    /\ UNCHANGED <<row, entry, seen, got, floor, update>>

Warm(c) ==
    /\ c \in Warmers /\ call[c] = "idle"
    /\ GoesTo(c, "loading")
    /\ UNCHANGED <<row, entry, flight, seen, got, floor, update>>

\* The end of loadAndFill: its result is that of everyone in the flight.
Merged(c) == IF c \in Warmers THEN {c} ELSE flight[Instance[c]]

Land(c, result) ==
    /\ call' = [d \in Readers \cup Warmers |-> IF d \in Merged(c) THEN "idle" ELSE call[d]]
    /\ got' = [r \in Readers |-> IF r \in Merged(c) THEN result ELSE got[r]]
    /\ flight' = [p \in DOMAIN flight |-> flight[p] \ Merged(c)]
    /\ seen' = [seen EXCEPT ![c] = NoRow]

\* LoadProduct returns the row or ErrProductNotFound, and both are cached; any
\* other error, the end of the leader's context among them, ends the load.
LoadProduct(c) ==
    /\ call[c] = "loading"
    /\ \/ GoesTo(c, "filling") /\ seen' = [seen EXCEPT ![c] = row] /\ UNCHANGED <<got, flight>>
       \/ Land(c, Failed)
    /\ UNCHANGED <<row, entry, floor, update>>

Entry(c, expires) ==
    [held |-> TRUE, version |-> seen[c], raced |-> seen[c] # row, expires |-> expires]

\* Faulty variant: no TTL.
SetForever(c) == entry' = Entry(c, FALSE)

Set(c) == entry' = Entry(c, TRUE)

\* The error of the Set is dropped: the caller gets its product anyway.
Fill(c) ==
    /\ call[c] = "filling"
    /\ GoesTo(c, "filled")
    /\ Set(c) \/ UNCHANGED entry
    /\ UNCHANGED <<row, flight, seen, got, floor, update>>

\* Until then a reader may still come into the flight.
Finish(c) ==
    /\ call[c] = "filled"
    /\ Land(c, seen[c])
    /\ UNCHANGED <<row, entry, floor, update>>

-------------------------------------------------------------------------------
(***************************************************************************)
(* UpdateStock.                                                            *)
(***************************************************************************)
NewVersion == row < MaxVersion /\ row' = row + 1

\* repo.UpdateStock: an error, which may come of a write that happened, or a missing
\* row end it before the key is deleted; a value that is the old one does not.
UpdateRow(w) ==
    /\ update[w] = "start"
    /\ \/ /\ row # NoRow /\ (NewVersion \/ UNCHANGED row)
          /\ update' = [update EXCEPT ![w] = "updated"]
          /\ UNCHANGED entry
       \/ /\ row # NoRow /\ NewVersion
          /\ update' = [update EXCEPT ![w] = "failed"]
          /\ entry' = Blamed(row')
       \/ /\ update' = [update EXCEPT ![w] = "failed"]
          /\ UNCHANGED <<row, entry>>
    /\ UNCHANGED <<flight, call, seen, got, floor>>

\* Faulty variant: the error of the Del is dropped.
DeleteKeyQuietly(w) ==
    /\ update[w] = "updated"
    /\ entry' = NoEntry \/ UNCHANGED entry
    /\ update' = [update EXCEPT ![w] = "done"]
    /\ UNCHANGED <<row, flight, call, seen, got, floor>>

DeleteKey(w) ==
    /\ update[w] = "updated"
    /\ \/ entry' = NoEntry /\ update' = [update EXCEPT ![w] = "done"]
       \/ entry' = NoEntry /\ update' = [update EXCEPT ![w] = "failed"]
       \/ entry' = Blamed(row) /\ update' = [update EXCEPT ![w] = "failed"]
    /\ UNCHANGED <<row, flight, call, seen, got, floor>>

UpdateStock(w) == UpdateRow(w) \/ DeleteKey(w)

-------------------------------------------------------------------------------
(***************************************************************************)
(* Others: the product is listed, an order takes stock, an entry expires.  *)
(***************************************************************************)
List == /\ row = NoRow /\ row' = 1
        /\ entry' = Blamed(row')
        /\ UNCHANGED <<flight, call, seen, got, floor, update>>

DeductStock == /\ row # NoRow /\ NewVersion
               /\ entry' = Blamed(row')
               /\ UNCHANGED <<flight, call, seen, got, floor, update>>

Expire == /\ entry.held /\ entry.expires
          /\ entry' = NoEntry
          /\ UNCHANGED <<row, flight, call, seen, got, floor, update>>

CacheNext ==
    \/ \E r \in Readers : Get(r) \/ Do(r)
    \/ \E c \in Warmers : Warm(c)
    \/ \E c \in Readers \cup Warmers : LoadProduct(c) \/ Fill(c) \/ Finish(c)
    \/ \E w \in Writers : UpdateStock(w)
    \/ List \/ DeductStock \/ Expire

\* TTLs run out, and the client calls of a load or an update end.
CacheFairness ==
    /\ WF_cacheVars(Expire)
    /\ \A c \in Readers \cup Warmers : WF_cacheVars(LoadProduct(c) \/ Fill(c) \/ Finish(c))
    /\ \A w \in Writers : WF_cacheVars(UpdateStock(w))

CacheSpec == CacheInit /\ [][CacheNext]_cacheVars
CacheFairSpec == CacheSpec /\ CacheFairness

-------------------------------------------------------------------------------
\* The shape of the state.  A reader waits only in a flight.
CacheTypeOK ==
    /\ row \in Versions
    /\ entry \in {NoEntry} \cup [held : {TRUE}, version : Versions,
                                 raced : BOOLEAN, expires : BOOLEAN]
    /\ \A p \in DOMAIN flight : \A r \in flight[p] : Instance[r] = p
    /\ call \in [Readers \cup Warmers -> {"idle", "missed", "loading", "waiting",
                                      "filling", "filled"}]
    /\ \A r \in Readers :
           call[r] \in {"loading", "waiting", "filling", "filled"} <=> r \in flight[Instance[r]]
    /\ seen \in [Readers \cup Warmers -> Versions]
    /\ got \in [Readers -> Versions \cup {Failed}]
    /\ floor \in [Readers -> Versions]
    /\ update \in [Writers -> {"start", "updated", "done", "failed"}]

\* The misses of one process load once (product.go:46, the reason for the group).
LoadsAreMerged ==
    \A p \in DOMAIN flight :
        Cardinality({r \in flight[p] : call[r] = "loading" \/ HasRow(r)}) <= 1

\* A stale entry has a cause of its own: it was filled by a load that raced with a change
\* of the row, its product was listed under its placeholder, an update told its caller
\* that it failed (the write-up knows these, m02-cache.md:75-85), an order took stock and
\* knows of no key, or an update has still to delete it.
StaleIsAccountedFor == Stale => entry.raced \/ \E w \in Writers : Updating(w)

\* What the port and the gateway make of the result of a Get: the placeholder of a
\* missing row is the answer 404, any other error is 500.
PortProduct(result) == IF result = NoRow THEN "miss" ELSE IF result = Failed THEN "error" ELSE "ok"
ProductStatus(result) ==
    CASE PortProduct(result) = "ok" -> 200 [] PortProduct(result) = "miss" -> 404 [] OTHER -> 500

\* A Get that starts when none of these causes stands returns the row of that
\* moment or a later one, also when it waits for another reader's load
\* (consistency_test.go:13, the next read sees the new value).
ReadsAreFresh ==
    \A r \in Readers : call[r] = "idle" /\ ProductStatus(got[r]) # 500 => got[r] >= floor[r]

\* What holds of every state, however calls end and whatever made the entry stale.
CacheInv == CacheTypeOK /\ LoadsAreMerged /\ ReadsAreFresh

\* However an entry got stale, it does not stay: its TTL is the bound
\* (m02-cache.md:80-82).
EventuallyFresh == []<>~Stale
===============================================================================
