---------------------------- MODULE BackgroundProofs ----------------------------
(***************************************************************************)
(* What runs beside the handlers that place orders: the order consumer,    *)
(* the scan that closes orders which were not paid, and the product cache. *)
(* They share no state; they are proved in one place.                      *)
(*                                                                         *)
(* The consumer loop loses no record but those an error of its own makes   *)
(* it abandon, for every number of members, records, attempts, crashes and *)
(* rebalances, and the lag gauge hides none that was left to do.           *)
(*                                                                         *)
(* Closing orders gives their stock back once and leaves none behind, for  *)
(* any number of orders and scanners, wherever scans end and claims run    *)
(* out.                                                                    *)
(*                                                                         *)
(* The cache serves no read an older row than it must, for any number of   *)
(* processes, readers, warmers and writers: the misses of a process share  *)
(* one load, and a stale entry has a cause the code knows.                 *)
(***************************************************************************)
EXTENDS OrderConsumer, Expiry, ProductCache, FiniteSetTheorems, TLAPS

-------------------------------------------------------------------------------
(* The order consumer                                                      *)

\* The loop starts with nothing committed and nothing fetched.
LEMMA InitEstablishes == Init => IndInv
<1> SUFFICES ASSUME Init PROVE IndInv
  OBVIOUS
<1>1. LoopInv
  BY ConsumerAssumption
  DEF Init, LoopInv, TypeOK, NoSilentLoss, InBatch, NothingDropped, Bounds, Steps,
      Handled, Accounted, Offsets, ConsumerAssumption
<1>2. ScrapeIsSound
  BY DEF Init, ScrapeIsSound, NoScrape, Fetched
<1> QED BY <1>1, <1>2 DEF IndInv

\* The offsets are numbers within the log, which is what arithmetic needs.
LEMMA OffsetsAreNumbers ==
    ASSUME TypeOK, NEW m \in Members
    PROVE  /\ end \in Nat /\ end <= MaxRecords
           /\ committed \in Nat /\ committed <= end
           /\ next[m] \in Nat /\ next[m] <= end
           /\ batchEnd[m] \in Nat /\ batchEnd[m] <= end
           /\ position[m] \in Nat /\ position[m] <= end
           /\ attempt[m] \in Nat /\ attempt[m] <= MaxAttempts
  BY ConsumerAssumption DEF TypeOK, Bounds, ConsumerAssumption

\* Records stay handled and accounted for; with them the claims about every loop that took
\* no step itself.
LEMMA OthersKeep ==
    ASSUME LoopInv, NEW m \in Members, Handled \subseteq Handled', Accounted \subseteq Accounted',
           owner' = m => owner = m,
           step'[m] = step[m], next'[m] = next[m], batchEnd'[m] = batchEnd[m],
           attempt'[m] = attempt[m], position'[m] = position[m]
    PROVE  InBatch(m)' /\ NothingDropped(m)'
  BY DEF LoopInv, InBatch, NothingDropped

\* Taking the partition over starts at the committed offset, below which all is
\* handled.
LEMMA TakeOverKeeps ==
    ASSUME LoopInv, NEW m \in Members, step[m] # "down", TakeOver(m),
           moves' \in 0..MaxMoves
    PROVE  LoopInv'
<1>1. TypeOK'
  BY ConsumerAssumption
  DEF TakeOver, LoopInv, TypeOK, broker, loop, effects, Bounds
<1>2. NoSilentLoss' /\ Handled' = Handled /\ Accounted' = Accounted
  BY DEF TakeOver, LoopInv, NoSilentLoss, Handled, Accounted, effects, broker
<1>3. InBatch(m)' /\ NothingDropped(m)'
  BY DEF TakeOver, LoopInv, TypeOK, InBatch, NothingDropped, NoSilentLoss, Handled,
         Accounted, effects, broker, loop
<1>4. ASSUME NEW n \in Members \ {m} PROVE InBatch(n)' /\ NothingDropped(n)'
  <2>1. owner' = n => owner = n
    BY DEF TakeOver
  <2>2. position'[n] = position[n]
    BY DEF TakeOver, LoopInv, TypeOK
  <2> QED BY <1>2, <2>1, <2>2, OthersKeep DEF TakeOver, loop
<1> QED BY <1>1, <1>2, <1>3, <1>4 DEF LoopInv

\* What one step of a member's own loop has to establish.
LEMMA LoopKeeps ==
    ASSUME LoopInv, NEW m \in Members, TypeOK', NoSilentLoss',
           Handled \subseteq Handled', Accounted \subseteq Accounted', owner' = owner,
           \A n \in Members \ {m} :
              /\ step'[n] = step[n] /\ next'[n] = next[n]
              /\ batchEnd'[n] = batchEnd[n] /\ attempt'[n] = attempt[n]
              /\ position'[n] = position[n],
           InBatch(m)', NothingDropped(m)'
    PROVE  LoopInv'
<1>1. ASSUME NEW n \in Members \ {m} PROVE InBatch(n)' /\ NothingDropped(n)'
  BY OthersKeep
<1> QED BY <1>1 DEF LoopInv

\* PollBatch returns the records from the position on, or drops them all.
LEMMA PollKeeps ==
    ASSUME LoopInv, NEW m \in Members, Poll(m)
    PROVE  LoopInv'
<1> USE DEF LoopInv, Poll, Goto, Abandon, broker, loop, Handled, Accounted
<1>1. TypeOK'
  <2>1. \A e \in (position[m] + 1)..end : position[m]..(e - 1) \in SUBSET Offsets
    BY OffsetsAreNumbers, ConsumerAssumption DEF Offsets, ConsumerAssumption
  <2>2. landed' = landed /\ dead' = dead /\ abandoned' \in SUBSET Offsets
    BY <2>1 DEF TypeOK
  <2> QED BY <2>2, ConsumerAssumption DEF TypeOK, Bounds, Steps, ConsumerAssumption
<1>2. NoSilentLoss'
  BY DEF NoSilentLoss
<1>3. InBatch(m)'
  BY OffsetsAreNumbers DEF InBatch, TypeOK
<1>4. NothingDropped(m)'
  BY OffsetsAreNumbers DEF NothingDropped, TypeOK
<1> QED BY <1>1, <1>2, <1>3, <1>4, LoopKeeps DEF TypeOK

\* An attempt that succeeds has placed the record it goes on to commit.
LEMMA AttemptKeeps ==
    ASSUME LoopInv, NEW m \in Members, Attempt(m)
    PROVE  LoopInv'
<1> USE DEF LoopInv, Attempt, Goto, broker, Handled, Accounted, AfterFailure
<1>1. TypeOK'
  <2>1. next[m] \in Offsets
    BY ConsumerAssumption DEF InBatch, TypeOK, Offsets, Bounds, ConsumerAssumption
  <2> QED BY <2>1 DEF TypeOK, Steps
<1>2. NoSilentLoss'
  BY DEF NoSilentLoss
<1>3. InBatch(m)'
  BY OffsetsAreNumbers DEF InBatch, TypeOK
<1>4. NothingDropped(m)'
  BY OffsetsAreNumbers DEF NothingDropped, InBatch, TypeOK
<1> QED BY <1>1, <1>2, <1>3, <1>4, LoopKeeps DEF TypeOK

\* A loop that goes on to the next record leaves one behind that is accounted for.
LEMMA AdvanceKeeps ==
    ASSUME LoopInv, NEW m \in Members, TypeOK', NoSilentLoss',
           step[m] \in {"backoff", "dead_letter", "commit"}, Advance(m),
           Handled \subseteq Handled', Accounted \subseteq Accounted',
           next[m] \in Accounted', owner' = owner, position' = position
    PROVE  LoopInv'
<1>1. TypeOK /\ next[m] < batchEnd[m]
  BY DEF LoopInv, InBatch
<1>2. /\ next'[m] = next[m] + 1
      /\ batchEnd'[m] = batchEnd[m]
      /\ step'[m] = IF next[m] + 1 < batchEnd[m] THEN "attempt" ELSE "poll"
  BY <1>1 DEF Advance, Goto, TypeOK
<1>3. InBatch(m)'
  BY <1>2 DEF InBatch
<1>4. NothingDropped(m)'
  <2>1. \A k \in 0..(next'[m] - 1) : k \in Accounted'
    <3>1. \A k \in 0..(next[m] - 1) : k \in Accounted
      BY DEF LoopInv, NothingDropped
    <3> QED BY <1>1, <1>2, <3>1, OffsetsAreNumbers
  <2>2. ASSUME owner = m, NEW k \in 0..(position[m] - 1), k \notin Accounted'
        PROVE  step'[m] # "poll" /\ k \in next'[m]..(batchEnd[m] - 1)
    <3>1. k \in next[m]..(batchEnd[m] - 1)
      BY <2>2 DEF LoopInv, NothingDropped
    <3> QED BY <1>1, <1>2, <2>2, <3>1, OffsetsAreNumbers
  <2> QED BY <1>2, <2>1, <2>2 DEF NothingDropped
<1> QED
  BY <1>1, <1>3, <1>4, LoopKeeps DEF Advance, Goto, TypeOK

\* The next attempt is within the policy, and a record given up is abandoned.
LEMMA BackoffKeeps ==
    ASSUME LoopInv, NEW m \in Members, Backoff(m)
    PROVE  LoopInv'
<1>1. TypeOK /\ InBatch(m) /\ next[m] \in Offsets /\ next[m] < batchEnd[m]
  BY OffsetsAreNumbers, ConsumerAssumption
  DEF LoopInv, InBatch, Backoff, Offsets, ConsumerAssumption
<1>2. TypeOK'
  BY <1>1, OffsetsAreNumbers, ConsumerAssumption
  DEF Backoff, Advance, Goto, Abandon, broker, TypeOK, InBatch, Steps, ConsumerAssumption
<1>3. /\ Handled \subseteq Handled' /\ Accounted \subseteq Accounted'
      /\ owner' = owner /\ position' = position /\ committed' = committed
  BY DEF Backoff, Abandon, broker, Handled, Accounted
<1>4. NoSilentLoss'
  BY <1>3 DEF LoopInv, NoSilentLoss
<1>5. CASE Advance(m) /\ Abandon({next[m]})
  BY <1>2, <1>3, <1>4, <1>5, AdvanceKeeps DEF Backoff, Abandon, Accounted
<1>6. CASE step'[m] = "attempt" /\ next' = next /\ batchEnd' = batchEnd
           /\ \A n \in Members \ {m} : step'[n] = step[n] /\ attempt'[n] = attempt[n]
  <2>1. InBatch(m)'
    BY <1>1, <1>6 DEF InBatch
  <2>2. NothingDropped(m)'
    BY <1>3, <1>6 DEF LoopInv, NothingDropped, Backoff
  <2> QED BY <1>2, <1>3, <1>4, <1>6, <2>1, <2>2, LoopKeeps
<1> QED BY <1>1, <1>5, <1>6 DEF Backoff, Goto, TypeOK

\* Only an acknowledged dead letter goes on to the commit; any other record is
\* abandoned.
LEMMA DeadLetterKeeps ==
    ASSUME LoopInv, NEW m \in Members, DeadLetter(m)
    PROVE  LoopInv'
<1>1. TypeOK /\ InBatch(m) /\ next[m] \in Offsets /\ next[m] < batchEnd[m]
  BY OffsetsAreNumbers, ConsumerAssumption
  DEF LoopInv, InBatch, DeadLetter, Offsets, ConsumerAssumption
<1>2. TypeOK'
  BY <1>1, OffsetsAreNumbers, ConsumerAssumption
  DEF DeadLetter, Advance, Goto, Abandon, broker, TypeOK, Steps, ConsumerAssumption
<1>3. /\ Handled \subseteq Handled' /\ Accounted \subseteq Accounted'
      /\ owner' = owner /\ position' = position /\ committed' = committed
  BY DEF DeadLetter, Abandon, broker, Handled, Accounted
<1>4. NoSilentLoss'
  BY <1>3 DEF LoopInv, NoSilentLoss
<1>5. CASE Advance(m) /\ Abandon({next[m]})
  BY <1>2, <1>3, <1>4, <1>5, AdvanceKeeps DEF DeadLetter, Abandon, Accounted
<1>6. CASE dead' = dead \cup {next[m]} /\ Goto(m, "commit")
           /\ UNCHANGED <<next, batchEnd, attempt>>
  <2>1. step'[m] = "commit" /\ \A n \in Members \ {m} : step'[n] = step[n]
    BY <1>1, <1>6 DEF Goto, TypeOK
  <2>2. InBatch(m)'
    BY <1>1, <1>6, <2>1 DEF InBatch, Handled
  <2>3. NothingDropped(m)'
    BY <1>3, <1>6, <2>1 DEF LoopInv, NothingDropped, DeadLetter
  <2> QED BY <1>2, <1>3, <1>4, <1>6, <2>1, <2>2, <2>3, LoopKeeps
<1> QED BY <1>5, <1>6 DEF DeadLetter

\* A commit, a late one of a member that lost the partition included, is of a
\* record below which all is handled.
LEMMA CommitKeeps ==
    ASSUME LoopInv, NEW m \in Members, Commit(m)
    PROVE  LoopInv'
<1>1. next[m] \in Handled /\ next[m] < batchEnd[m] /\ TypeOK
  BY DEF LoopInv, InBatch, Commit
<1>2. TypeOK'
  BY <1>1, OffsetsAreNumbers, ConsumerAssumption
  DEF Commit, Advance, Goto, effects, TypeOK, Steps, ConsumerAssumption
<1>3. Handled' = Handled /\ Accounted' = Accounted /\ next[m] \in Accounted
  BY <1>1 DEF Commit, Handled, Accounted, effects
<1>4. \A k \in 0..next[m] : k \in Accounted
  <2>1. \A k \in 0..(next[m] - 1) : k \in Accounted
    BY DEF Commit, LoopInv, NothingDropped
  <2> QED BY <1>1, <1>3, <2>1, OffsetsAreNumbers
<1>5. NoSilentLoss'
  <2>1. committed' = committed \/ committed' = next[m] + 1
    BY DEF Commit
  <2>2. CASE committed' = committed
    BY <1>3, <2>2 DEF LoopInv, NoSilentLoss
  <2>3. CASE committed' = next[m] + 1
    BY <1>1, <1>3, <1>4, <2>3, OffsetsAreNumbers DEF NoSilentLoss
  <2> QED BY <2>1, <2>2, <2>3
<1> QED
  BY <1>2, <1>3, <1>5, AdvanceKeeps DEF Commit

\* A member that dies forgets its batch, and loses the partition with it.
LEMMA CrashKeeps ==
    ASSUME LoopInv, NEW m \in Members, Crash(m)
    PROVE  LoopInv'
<1>1. TypeOK'
  BY ConsumerAssumption DEF LoopInv, Crash, Goto, TypeOK, broker, effects, Steps, ConsumerAssumption
<1>2. NoSilentLoss' /\ Handled' = Handled /\ Accounted' = Accounted
  BY DEF LoopInv, Crash, NoSilentLoss, Handled, Accounted, broker, effects
<1>3. InBatch(m)' /\ NothingDropped(m)'
  <2>1. owner' # m /\ step'[m] = "down" /\ next' = next
    BY ConsumerAssumption DEF LoopInv, TypeOK, Crash, Goto, ConsumerAssumption
  <2> QED BY <1>2, <2>1 DEF LoopInv, InBatch, NothingDropped
<1>4. ASSUME NEW n \in Members \ {m} PROVE InBatch(n)' /\ NothingDropped(n)'
  <2>1. owner' = n => owner = n
    BY ConsumerAssumption DEF Crash, ConsumerAssumption
  <2> QED BY <1>2, <2>1, OthersKeep DEF LoopInv, TypeOK, Crash, Goto
<1> QED BY <1>1, <1>2, <1>3, <1>4 DEF LoopInv

\* A member that comes back has no partition, and what it had handled stays so.
LEMMA RestartKeeps ==
    ASSUME LoopInv, NEW m \in Members, Restart(m)
    PROVE  LoopInv'
<1>1. TypeOK'
  BY DEF LoopInv, Restart, Goto, TypeOK, broker, effects, Steps
<1>2. NoSilentLoss' /\ Handled' = Handled /\ Accounted' = Accounted
  BY DEF LoopInv, Restart, NoSilentLoss, Handled, Accounted, broker, effects
<1>3. InBatch(m)' /\ NothingDropped(m)'
  BY <1>2 DEF LoopInv, TypeOK, Restart, Goto, InBatch, NothingDropped
<1>4. ASSUME NEW n \in Members \ {m} PROVE InBatch(n)' /\ NothingDropped(n)'
  BY <1>2, OthersKeep DEF LoopInv, TypeOK, Restart, Goto
<1> QED BY <1>1, <1>2, <1>3, <1>4, LoopKeeps DEF LoopInv

\* Neither a new record nor a stuttering step touches what is committed or fetched.
LEMMA ProduceKeeps ==
    ASSUME LoopInv, Produce \/ UNCHANGED group
    PROVE  LoopInv'
<1>1. TypeOK'
  BY ConsumerAssumption
  DEF LoopInv, Produce, group, broker, loop, effects, TypeOK, Bounds, ConsumerAssumption
<1>2. NoSilentLoss' /\ Handled' = Handled /\ Accounted' = Accounted
  BY DEF LoopInv, Produce, group, broker, effects, NoSilentLoss, Handled, Accounted
<1>3. ASSUME NEW m \in Members PROVE InBatch(m)' /\ NothingDropped(m)'
  BY <1>2, OthersKeep DEF Produce, group, loop
<1> QED BY <1>1, <1>2, <1>3 DEF LoopInv

-------------------------------------------------------------------------------
\* The members keep what they know of the log.
LEMMA GroupKeeps ==
    ASSUME LoopInv, [GroupNext]_group
    PROVE  LoopInv'
<1>1. CASE Produce \/ UNCHANGED group
  BY <1>1, ProduceKeeps
<1>2. ASSUME NEW m \in Members, Loop(m) PROVE LoopInv'
  BY <1>2, PollKeeps, AttemptKeeps, BackoffKeeps, DeadLetterKeeps, CommitKeeps DEF Loop
<1>3. ASSUME NEW m \in Members, Assign(m) \/ Rebalance(m) PROVE LoopInv'
  <2>1. moves' \in 0..MaxMoves /\ step[m] # "down" /\ TakeOver(m)
    BY <1>3, ConsumerAssumption DEF Assign, Rebalance, LoopInv, TypeOK, ConsumerAssumption
  <2> QED BY <2>1, TakeOverKeeps
<1>4. ASSUME NEW m \in Members, Crash(m) \/ Restart(m) PROVE LoopInv'
  BY <1>4, CrashKeeps, RestartKeeps
<1> QED BY <1>1, <1>2, <1>3, <1>4 DEF GroupNext

\* The log only grows, and a record that is accounted for stays so.
LEMMA GroupGoesOn ==
    ASSUME LoopInv, [GroupNext]_group
    PROVE  end' \in Nat /\ end <= end' /\ Accounted \subseteq Accounted'
<1>1. end \in Nat
  BY ConsumerAssumption DEF LoopInv, TypeOK, Bounds, ConsumerAssumption
<1>2. CASE Produce
  BY <1>1, <1>2 DEF Produce, effects, Accounted, Handled
<1>3. CASE UNCHANGED group
  BY <1>1, <1>3 DEF group, broker, effects, Accounted, Handled
<1>4. ASSUME NEW m \in Members, Loop(m) PROVE end' = end /\ Accounted \subseteq Accounted'
  <2>1. CASE Poll(m)
    BY <2>1 DEF Poll, Abandon, broker, Accounted, Handled
  <2>2. CASE Attempt(m)
    BY <2>2 DEF Attempt, broker, Accounted, Handled
  <2>3. CASE Backoff(m)
    BY <2>3 DEF Backoff, Abandon, broker, Accounted, Handled
  <2>4. CASE DeadLetter(m)
    BY <2>4 DEF DeadLetter, Abandon, broker, Accounted, Handled
  <2>5. CASE Commit(m)
    BY <2>5 DEF Commit, effects, Accounted, Handled
  <2> QED BY <1>4, <2>1, <2>2, <2>3, <2>4, <2>5 DEF Loop
<1>5. ASSUME NEW m \in Members, Crash(m) \/ Restart(m) \/ Assign(m) \/ Rebalance(m)
      PROVE  end' = end /\ Accounted \subseteq Accounted'
  BY <1>5 DEF Crash, Restart, Assign, Rebalance, TakeOver, broker, effects, Accounted, Handled
<1> QED BY <1>1, <1>2, <1>3, <1>4, <1>5 DEF GroupNext

\* What a scrape has read is not undone by what the members do before it reads the rest.
LEMMA ScrapeOutlivesSteps ==
    ASSUME IndInv, [GroupNext]_group, scrape' = scrape
    PROVE  ScrapeIsSound'
<1>1. end \in Nat /\ end' \in Nat /\ end <= end' /\ Accounted \subseteq Accounted'
  BY GroupGoesOn, ConsumerAssumption DEF IndInv, LoopInv, TypeOK, Bounds, ConsumerAssumption
<1>2. 0..end \subseteq 0..end'
  BY <1>1
<1>3. scrape' \in [has : {"nothing", "end", "committed"}, offset : 0..end', logged : 0..end']
  BY <1>2 DEF IndInv, ScrapeIsSound
<1> QED BY <1>1, <1>3 DEF IndInv, ScrapeIsSound

LEMMA ScrapeKeeps ==
    ASSUME IndInv, FetchFirst \/ ShowLag
    PROVE  ScrapeIsSound'
<1>1. /\ end \in Nat /\ committed \in 0..end /\ end' = end
      /\ \A k \in 0..(committed - 1) : k \in Accounted
      /\ Accounted' = Accounted
  BY ConsumerAssumption
  DEF IndInv, LoopInv, TypeOK, NoSilentLoss, Bounds, ConsumerAssumption, FetchFirst, ShowLag,
      group, broker, effects, Accounted, Handled
<1>2. CASE FetchFirst
  BY <1>1, <1>2 DEF FetchFirst, Fetched, CommittedOffset, ScrapeIsSound
<1>3. CASE ShowLag
  BY <1>1, <1>3 DEF ShowLag, NoScrape, Fetched, ScrapeIsSound
<1> QED BY <1>2, <1>3

\* The invariant is kept by every step.
LEMMA NextKeeps ==
    ASSUME IndInv, [Next]_vars
    PROVE  IndInv'
<1>1. CASE [GroupNext]_group /\ scrape' = scrape
  BY <1>1, GroupKeeps, ScrapeOutlivesSteps DEF IndInv
<1>2. CASE FetchFirst \/ ShowLag
  <2>1. UNCHANGED group
    BY <1>2 DEF FetchFirst, ShowLag
  <2> QED BY <1>2, <2>1, GroupKeeps, ScrapeKeeps DEF IndInv
<1> QED BY <1>1, <1>2 DEF Next, vars

\* Every reachable state satisfies the inductive invariant: what a member fetched is
\* accounted for or still ahead of it.
THEOREM Invariance == Spec => []IndInv
<1>1. IndInv /\ [Next]_vars => IndInv'
  BY NextKeeps
<1> QED BY <1>1, InitEstablishes, PTL DEF Spec

\* Crashes, rebalances, late commits and lost commits never let the committed
\* offset pass a record that is neither placed nor dead-lettered, unless the loop
\* met an error with that very record (p2_commit.go:23-24).
THEOREM NoRecordLost == Spec => []NoSilentLoss
<1>1. IndInv => NoSilentLoss
  BY DEF IndInv, LoopInv
<1> QED BY <1>1, Invariance, PTL

\* A scrape of the lag never hides a record that was there when it asked first and is still
\* to be accounted for when it ends, in whatever order it asks for the two offsets and
\* whatever is produced and committed in between (p4_lag.go:37-38).
THEOREM LagTellsBacklog == Spec => []LagCoversBacklog
<1>1. IndInv => LagCoversBacklog
  <2> SUFFICES ASSUME IndInv, NEW lag \in LagGauge \ {-1},
                      NEW k \in 0..(scrape.logged - 1), k \notin Accounted
               PROVE  k >= scrape.logged - lag
    BY DEF LagCoversBacklog
  <2>1. /\ end \in Nat /\ committed \in Nat
        /\ scrape.offset \in Nat /\ scrape.logged \in Nat /\ scrape.logged <= end
    BY ConsumerAssumption
    DEF IndInv, LoopInv, ScrapeIsSound, TypeOK, Bounds, ConsumerAssumption
  <2>2. CASE scrape.has = "end" /\ lag = Lag(scrape.offset, committed)
    <3>1. ~(k < committed)
      BY <2>1 DEF IndInv, LoopInv, NoSilentLoss
    <3>2. scrape.offset = scrape.logged
      BY <2>2 DEF IndInv, ScrapeIsSound
    <3> QED BY <2>1, <2>2, <3>1, <3>2 DEF Lag
  <2>3. CASE scrape.has = "committed" /\ lag = Lag(end, scrape.offset)
    <3>1. ~(k < scrape.offset)
      BY <2>1, <2>3 DEF IndInv, ScrapeIsSound
    <3> QED BY <2>1, <2>3, <3>1 DEF Lag
  <2> QED BY <2>2, <2>3 DEF LagGauge, CommittedOffset
<1> QED BY <1>1, Invariance, PTL

-------------------------------------------------------------------------------
(* The expiry of orders                                                    *)

Statuses == {"none", "accepted", "dead-lettered", "created", "paid", "closed"}
Places == {"absent", "waiting", "due", "removed"}
Results == [order : Orders, rows : 0..1, at : {"closed", "restored"}]

Shapes ==
    /\ redis \in Nat /\ dbStock \in Nat
    /\ status \in [Orders -> Statuses]
    /\ index \in [Orders -> Places]
    /\ restored \in [Orders -> 0..1]
    /\ strained \in SUBSET Orders
    /\ todo \in [Workers -> SUBSET Orders]
    /\ result \in [Workers -> SUBSET Results]

\* A scan works on one order at a time, and on one it has taken off its list.
OneAtATime ==
    \A w \in Workers :
        /\ \A r \in result[w] : r.order \notin todo[w] /\ \A q \in result[w] : q = r
        /\ IsFiniteSet(Held(w)) /\ Cardinality(Held(w)) <= BatchSize

\* An order in the index has a row, and a row that was seen stays.
HeldIsPlaced ==
    /\ \A o \in Orders : index[o] # "absent" => status[o] \in {"created", "paid", "closed"}
    /\ \A w \in Workers : \A o \in Held(w) : status[o] \in {"created", "paid", "closed"}

\* What a CloseResult tells of the order it is about.
ResultsAreTrue ==
    \A w \in Workers : \A r \in result[w] :
        /\ r.rows = 1 => status[r.order] = "closed"
        /\ r.rows = 1 => (restored[r.order] = 1 <=> r.at = "restored")
        /\ r.rows = 0 => status[r.order] \in {"paid", "closed"}

\* One UPDATE changes the row, so one scan has the right to restore.
OneCloser ==
    \A v, w \in Workers : v # w =>
        \A r \in result[v], q \in result[w] : r.rows = 1 /\ q.rows = 1 => r.order # q.order

RestoredOnce == \A o \in Orders : restored[o] = 1 => status[o] = "closed"

\* A claim that lasts keeps its order out of the reach of others.
ClaimsLast == \A w \in Workers : \A o \in Held(w) : o \in strained \/ index[o] = "waiting"

\* A closed order whose stock is missing is in the hands of the scan that closed it.
CloserAtWork ==
    \A o \in Orders \ strained : status[o] = "closed" /\ restored[o] = 0 =>
        \E w \in Workers : \E r \in result[w] : r.order = o /\ r.rows = 1

Facts == /\ HeldIsPlaced /\ ResultsAreTrue /\ OneCloser /\ RestoredOnce /\ ClaimsLast
         /\ NoneHeldTwice /\ CloserAtWork /\ RemovedOnlyWhenSettled

ExpiryIndInv == Shapes /\ OneAtATime /\ Facts

-------------------------------------------------------------------------------
LEMMA ExpiryStarts == ExpiryInit => ExpiryIndInv
<1> SUFFICES ASSUME ExpiryInit PROVE ExpiryIndInv
  OBVIOUS
<1>1. Shapes
  BY ExpiryAssumption DEF ExpiryInit, Shapes, Statuses, Places, ExpiryAssumption
<1>2. \A w \in Workers : result[w] = {} /\ todo[w] = {} /\ Held(w) = {}
  BY DEF ExpiryInit, Held
<1>3. OneAtATime
  BY <1>2, FS_EmptySet, ExpiryAssumption DEF OneAtATime, ExpiryAssumption
<1>4. /\ HeldIsPlaced /\ ResultsAreTrue /\ OneCloser /\ RestoredOnce /\ ClaimsLast
      /\ NoneHeldTwice /\ CloserAtWork /\ RemovedOnlyWhenSettled
  BY <1>2 DEF ExpiryInit, HeldIsPlaced, ResultsAreTrue, OneCloser, RestoredOnce, ClaimsLast,
              NoneHeldTwice, CloserAtWork, RemovedOnlyWhenSettled
<1> QED BY <1>1, <1>3, <1>4 DEF ExpiryIndInv, Facts

-------------------------------------------------------------------------------
\* The life of an order: no scan is touched, and nothing is closed by it.
OrderStep(o) == PreDeduct(o) \/ PlaceRecord(o) \/ Pay(o) \/ IndexOrder(o) \/ FallDue(o)

LEMMA OrderStepKeeps == ASSUME ExpiryIndInv, NEW o \in Orders, OrderStep(o) PROVE ExpiryIndInv'
<1> USE DEF Statuses, Places
<1>1. UNCHANGED <<todo, result, restored>> /\ \A w \in Workers : Held(w)' = Held(w)
  BY DEF OrderStep, PreDeduct, PlaceRecord, Pay, IndexOrder, FallDue, scan, Held
<1>2. Qty[o] \in Nat
  BY ExpiryAssumption DEF ExpiryAssumption
<1>3. redis' \in Nat /\ dbStock' \in Nat
  BY <1>2 DEF OrderStep, PreDeduct, PlaceRecord, Pay, IndexOrder, FallDue, ExpiryIndInv, Shapes, stocks
<1>4. /\ status' \in [Orders -> Statuses]
      /\ \A p \in Orders :
           /\ status[p] \in {"paid", "closed"} => status'[p] = status[p]
           /\ status[p] = "created" => status'[p] \in {"created", "paid"}
           /\ status'[p] = "closed" => status[p] = "closed"
  BY DEF OrderStep, PreDeduct, PlaceRecord, Pay, IndexOrder, FallDue, SetStatus, ExpiryIndInv, Shapes
<1>5. /\ index' \in [Orders -> Places]
      /\ strained \subseteq strained' /\ strained' \in SUBSET Orders
      /\ \A p \in Orders :
           \/ index'[p] = index[p]
           \/ index[p] = "absent" /\ index'[p] = "waiting" /\ status'[p] = "created"
           \/ /\ index[p] = "waiting" /\ index'[p] = "due"
              /\ \A w \in Workers : p \in Held(w) => p \in strained'
  <2>1. CASE IndexOrder(o)
    BY <2>1 DEF IndexOrder, SetIndex, ExpiryIndInv, Shapes
  <2>2. CASE FallDue(o)
    BY <2>2 DEF FallDue, SetIndex, ExpiryIndInv, Shapes
  <2>3. CASE PreDeduct(o) \/ PlaceRecord(o) \/ Pay(o)
    BY <2>3 DEF PreDeduct, PlaceRecord, Pay, ExpiryIndInv, Shapes
  <2> QED BY <2>1, <2>2, <2>3 DEF OrderStep
<1>6. Shapes'
  BY <1>1, <1>3, <1>4, <1>5 DEF ExpiryIndInv, Shapes
<1>7. OneAtATime'
  BY <1>1 DEF ExpiryIndInv, OneAtATime
<1>8. \A w \in Workers : /\ Held(w) \subseteq Orders
                         /\ \A r \in result[w] : r.order \in Orders
  BY DEF ExpiryIndInv, Shapes, Held, Results
<1>9. HeldIsPlaced'
  BY <1>1, <1>4, <1>5, <1>8 DEF ExpiryIndInv, Facts, HeldIsPlaced
<1>10. ResultsAreTrue' /\ OneCloser'
  BY <1>1, <1>4, <1>8 DEF ExpiryIndInv, Facts, ResultsAreTrue, OneCloser
<1>11. RestoredOnce' /\ NoneHeldTwice'
  BY <1>1, <1>4, <1>5 DEF ExpiryIndInv, Facts, RestoredOnce, NoneHeldTwice
<1>12. ClaimsLast'
  BY <1>1, <1>5, <1>8 DEF ExpiryIndInv, Facts, ClaimsLast
<1>13. CloserAtWork'
  BY <1>1, <1>4, <1>5 DEF ExpiryIndInv, Facts, CloserAtWork
<1>14. RemovedOnlyWhenSettled'
  BY <1>1, <1>4, <1>5 DEF ExpiryIndInv, Facts, RemovedOnlyWhenSettled
<1> QED BY <1>6, <1>7, <1>9, <1>10, <1>11, <1>12, <1>13, <1>14 DEF ExpiryIndInv, Facts

-------------------------------------------------------------------------------
\* An order is claimed when it is due, so it is in no hand whose claim still lasts.
LEMMA ClaimKeeps == ASSUME ExpiryIndInv, NEW w \in Workers, ClaimDue(w) PROVE ExpiryIndInv'
<1> USE DEF Statuses, Places
<1>1. PICK B \in SUBSET Due : Batch(B) /\ PushBack(B) /\ todo' = [todo EXCEPT ![w] = B]
  BY DEF ClaimDue
<1>2. /\ UNCHANGED <<redis, dbStock, status, result, restored, strained>> /\ Held(w) = {}
  BY DEF ClaimDue, stocks
<1>3. B \subseteq Orders /\ \A p \in B : index[p] = "due"
  BY DEF Due
<1>4. /\ Held(w)' = B /\ \A v \in Workers \ {w} : Held(v)' = Held(v)
      /\ result[w] = {} /\ todo'[w] = B /\ \A v \in Workers \ {w} : todo'[v] = todo[v]
  BY <1>1, <1>2 DEF ExpiryIndInv, Shapes, Held
<1>5. /\ index' \in [Orders -> Places]
      /\ \A p \in Orders : index'[p] = IF p \in B THEN "waiting" ELSE index[p]
  BY <1>1 DEF PushBack, ExpiryIndInv, Shapes
<1>6. IsFiniteSet(B) /\ Cardinality(B) <= BatchSize
  <2>1. B \in SUBSET Orders /\ IsFiniteSet(B)
    BY <1>3, FS_Subset, ExpiryAssumption DEF ExpiryAssumption
  <2>2. Cardinality(B) \in Nat /\ BatchSize \in Nat
    BY <2>1, FS_CardinalityType, ExpiryAssumption DEF ExpiryAssumption
  <2> QED BY <1>1, <2>1, <2>2 DEF Batch
<1>7. Shapes'
  BY <1>1, <1>2, <1>3, <1>5 DEF ExpiryIndInv, Shapes
<1>8. OneAtATime'
  BY <1>2, <1>4, <1>6 DEF ExpiryIndInv, OneAtATime
<1>9. HeldIsPlaced'
  BY <1>2, <1>3, <1>4, <1>5 DEF ExpiryIndInv, Facts, HeldIsPlaced
<1>10. ResultsAreTrue' /\ OneCloser' /\ RestoredOnce' /\ CloserAtWork'
  BY <1>2 DEF ExpiryIndInv, Facts, ResultsAreTrue, OneCloser, RestoredOnce, CloserAtWork
<1>11. ClaimsLast'
  <2>1. \A v \in Workers : Held(v) \subseteq Orders
    BY DEF ExpiryIndInv, Shapes, Held, Results
  <2> QED BY <1>2, <1>3, <1>4, <1>5, <2>1 DEF ExpiryIndInv, Facts, ClaimsLast
<1>12. NoneHeldTwice'
  <2>1. \A v \in Workers \ {w} : Held(v) \cap B \subseteq strained
    BY <1>3 DEF ExpiryIndInv, Facts, ClaimsLast
  <2> QED BY <1>2, <1>4, <2>1 DEF ExpiryIndInv, Facts, NoneHeldTwice
<1>13. RemovedOnlyWhenSettled'
  BY <1>2, <1>5 DEF ExpiryIndInv, Facts, RemovedOnlyWhenSettled
<1> QED BY <1>7, <1>8, <1>9, <1>10, <1>11, <1>12, <1>13 DEF ExpiryIndInv, Facts

\* The row says who closes: only one UPDATE finds the order created.
LEMMA CloseKeeps == ASSUME ExpiryIndInv, NEW w \in Workers, CloseCreatedOrder(w) PROVE ExpiryIndInv'
<1> USE DEF Statuses, Places
<1>1. PICK o \in todo[w] :
        /\ todo' = [todo EXCEPT ![w] = @ \ {o}]
        /\ result' = [result EXCEPT ![w] = {[order |-> o, rows |-> RowsAffected(o), at |-> "closed"]}]
        /\ IF Closes(o) THEN SetStatus(o, "closed") ELSE UNCHANGED status
  BY DEF CloseCreatedOrder
<1>2. UNCHANGED <<redis, dbStock, index, restored, strained>> /\ result[w] = {}
  BY DEF CloseCreatedOrder, stocks
<1>3. PICK r \in Results : /\ r.order = o /\ r.rows = RowsAffected(o) /\ r.at = "closed"
                           /\ result' = [result EXCEPT ![w] = {r}]
  <2>1. o \in Orders /\ RowsAffected(o) \in 0..1
    BY DEF ExpiryIndInv, Shapes, RowsAffected
  <2> QED BY <1>1, <2>1 DEF Results
<1>4. /\ o \in Orders /\ o \in Held(w) /\ status[o] \in {"created", "paid", "closed"}
      /\ r.rows = 1 <=> status[o] = "created"
      /\ r.rows = 0 <=> status[o] # "created"
  BY <1>3 DEF ExpiryIndInv, Shapes, Facts, HeldIsPlaced, Held, RowsAffected, Closes
<1>5. /\ todo'[w] = todo[w] \ {o} /\ \A v \in Workers \ {w} : todo'[v] = todo[v]
      /\ result'[w] = {r} /\ \A v \in Workers \ {w} : result'[v] = result[v]
  BY <1>1, <1>3 DEF ExpiryIndInv, Shapes
<1>6. \A v \in Workers : Held(v)' = Held(v)
  BY <1>2, <1>3, <1>5 DEF Held
<1>7. /\ status' \in [Orders -> Statuses]
      /\ \A p \in Orders : status'[p] = IF p = o /\ r.rows = 1 THEN "closed" ELSE status[p]
  BY <1>1, <1>4 DEF Closes, SetStatus, ExpiryIndInv, Shapes
<1>8. Shapes'
  BY <1>1, <1>2, <1>3, <1>7 DEF ExpiryIndInv, Shapes
<1>9. OneAtATime'
  BY <1>3, <1>5, <1>6 DEF ExpiryIndInv, OneAtATime
<1>10. \A v \in Workers : /\ Held(v) \subseteq Orders
                          /\ \A q \in result[v] : q.order \in Orders
  BY DEF ExpiryIndInv, Shapes, Held, Results
<1>11. HeldIsPlaced'
  BY <1>2, <1>6, <1>7, <1>10 DEF ExpiryIndInv, Facts, HeldIsPlaced
<1>12. restored[o] \in 0..1 /\ (r.rows = 1 => restored[o] = 0)
  BY <1>4 DEF ExpiryIndInv, Shapes, Facts, RestoredOnce
<1>13. ResultsAreTrue'
  BY <1>2, <1>3, <1>4, <1>5, <1>7, <1>10, <1>12 DEF ExpiryIndInv, Facts, ResultsAreTrue
<1>14. OneCloser'
  <2>1. r.rows = 1 => \A v \in Workers : \A q \in result[v] : q.rows = 1 => q.order # o
    BY <1>4 DEF ExpiryIndInv, Facts, ResultsAreTrue
  <2> QED BY <1>3, <1>5, <2>1 DEF ExpiryIndInv, Facts, OneCloser
<1>15. RestoredOnce' /\ ClaimsLast' /\ NoneHeldTwice'
  BY <1>2, <1>6, <1>7 DEF ExpiryIndInv, Facts, RestoredOnce, ClaimsLast, NoneHeldTwice
<1>16. CloserAtWork'
  BY <1>2, <1>3, <1>5, <1>7 DEF ExpiryIndInv, Facts, CloserAtWork
<1>17. RemovedOnlyWhenSettled'
  BY <1>2, <1>4, <1>7 DEF ExpiryIndInv, Facts, RemovedOnlyWhenSettled
<1> QED BY <1>8, <1>9, <1>11, <1>13, <1>14, <1>15, <1>16, <1>17 DEF ExpiryIndInv, Facts

\* The scan that changed the row gives the units back, and no other does.
LEMMA RestoreKeeps == ASSUME ExpiryIndInv, NEW w \in Workers, RestoreClosedStock(w) PROVE ExpiryIndInv'
<1> USE DEF Statuses, Places
<1>1. PICK r \in result[w] :
        /\ r.at = "closed"
        /\ result' = [result EXCEPT ![w] = {[r EXCEPT !.at = "restored"]}]
        /\ IF r.rows = 1
           THEN /\ redis' = redis + Qty[r.order]
                /\ restored' = [restored EXCEPT ![r.order] = @ + 1]
           ELSE UNCHANGED <<redis, restored>>
        /\ UNCHANGED <<dbStock, status, index, todo, strained>>
  BY DEF RestoreClosedStock
<1>2. r \in Results /\ r.order \in Orders /\ r.rows \in 0..1
  BY DEF ExpiryIndInv, Shapes, Results
<1>3. PICK s \in Results : /\ s.order = r.order /\ s.rows = r.rows /\ s.at = "restored"
                           /\ result' = [result EXCEPT ![w] = {s}]
  <2>1. /\ [r EXCEPT !.at = "restored"].order = r.order
        /\ [r EXCEPT !.at = "restored"].rows = r.rows
        /\ [r EXCEPT !.at = "restored"].at = "restored"
        /\ [r EXCEPT !.at = "restored"] \in Results
    BY <1>2 DEF Results
  <2> QED BY <1>1, <2>1
<1>4. /\ result'[w] = {s} /\ \A v \in Workers \ {w} : result'[v] = result[v]
      /\ result[w] = {r}
  BY <1>3 DEF ExpiryIndInv, Shapes, OneAtATime
<1>5. \A v \in Workers : Held(v)' = Held(v)
  BY <1>1, <1>3, <1>4 DEF Held
<1>6. /\ r.rows = 1 => restored[r.order] = 0
      /\ restored' \in [Orders -> 0..1]
      /\ \A p \in Orders : restored'[p] = IF r.rows = 1 /\ p = r.order THEN 1 ELSE restored[p]
  <2>1. restored[r.order] \in 0..1 /\ (r.rows = 1 => restored[r.order] # 1)
    BY <1>1, <1>2 DEF ExpiryIndInv, Shapes, Facts, ResultsAreTrue
  <2> QED BY <1>1, <1>2, <2>1 DEF ExpiryIndInv, Shapes
<1>7. redis' \in Nat
  BY <1>1, <1>2, ExpiryAssumption DEF ExpiryIndInv, Shapes, ExpiryAssumption
<1>8. Shapes'
  BY <1>1, <1>3, <1>6, <1>7 DEF ExpiryIndInv, Shapes
<1>9. OneAtATime'
  BY <1>1, <1>3, <1>4, <1>5 DEF ExpiryIndInv, OneAtATime
<1>10. HeldIsPlaced' /\ ClaimsLast' /\ NoneHeldTwice'
  BY <1>1, <1>5 DEF ExpiryIndInv, Facts, HeldIsPlaced, ClaimsLast, NoneHeldTwice
<1>11. r.rows = 1 => status[r.order] = "closed"
  BY DEF ExpiryIndInv, Facts, ResultsAreTrue
<1>12. RestoredOnce'
  BY <1>1, <1>6, <1>11 DEF ExpiryIndInv, Facts, RestoredOnce
<1>13. OneCloser'
  BY <1>3, <1>4 DEF ExpiryIndInv, Facts, OneCloser
<1>14. ResultsAreTrue'
  <2>1. \A v \in Workers \ {w} : \A q \in result[v] :
           q.rows = 1 => q.order \in Orders /\ (r.rows = 1 => q.order # r.order)
    BY DEF ExpiryIndInv, Shapes, Results, Facts, OneCloser
  <2>2. ASSUME NEW v \in Workers \ {w}, NEW q \in result[v], q.rows = 1
        PROVE  restored'[q.order] = restored[q.order]
    BY <1>6, <2>1, <2>2
  <2>3. r.rows = 1 => restored'[r.order] = 1
    BY <1>2, <1>6
  <2> QED BY <1>1, <1>3, <1>4, <1>11, <2>2, <2>3 DEF ExpiryIndInv, Facts, ResultsAreTrue
<1>15. CloserAtWork'
  BY <1>1, <1>3, <1>4, <1>6 DEF ExpiryIndInv, Facts, CloserAtWork
<1>16. RemovedOnlyWhenSettled'
  BY <1>1, <1>2, <1>6, <1>11 DEF ExpiryIndInv, Facts, RemovedOnlyWhenSettled
<1> QED BY <1>8, <1>9, <1>10, <1>12, <1>13, <1>14, <1>15, <1>16 DEF ExpiryIndInv, Facts

-------------------------------------------------------------------------------
\* The order that leaves the index is settled: a scan that changed no row met either a
\* payment, or another scan whose claim had run out.
LEMMA RemoveKeeps == ASSUME ExpiryIndInv, NEW w \in Workers, RemoveProcessedExpiry(w) PROVE ExpiryIndInv'
<1> USE DEF Statuses, Places
<1>1. PICK r \in result[w] : /\ r.at = "restored"
                             /\ SetIndex(r.order, "removed")
                             /\ result' = [result EXCEPT ![w] = {}]
                             /\ UNCHANGED <<redis, dbStock, status, todo, restored, strained>>
  BY DEF RemoveProcessedExpiry, stocks
<1>2. r.order \in Orders /\ r.rows \in 0..1 /\ restored[r.order] \in 0..1
  BY DEF ExpiryIndInv, Shapes, Results
<1>3. /\ result'[w] = {} /\ \A v \in Workers \ {w} : result'[v] = result[v]
      /\ result[w] = {r} /\ r.order \notin todo[w]
  BY <1>1 DEF ExpiryIndInv, Shapes, OneAtATime
<1>4. /\ Held(w)' = todo[w] /\ Held(w)' \subseteq Held(w) /\ r.order \notin Held(w)'
      /\ r.order \in Held(w)
      /\ \A v \in Workers \ {w} : Held(v)' = Held(v)
  BY <1>1, <1>3 DEF Held
<1>5. /\ index' \in [Orders -> Places]
      /\ \A p \in Orders : index'[p] = IF p = r.order THEN "removed" ELSE index[p]
  BY <1>1 DEF SetIndex, ExpiryIndInv, Shapes
<1>6. Shapes'
  BY <1>1, <1>5 DEF ExpiryIndInv, Shapes
<1>7. OneAtATime'
  <2>1. IsFiniteSet(Held(w)') /\ Cardinality(Held(w)') <= BatchSize
    BY <1>4, FS_Subset, FS_CardinalityType, ExpiryAssumption
    DEF ExpiryIndInv, OneAtATime, ExpiryAssumption
  <2> QED BY <1>1, <1>3, <1>4, <2>1 DEF ExpiryIndInv, OneAtATime
<1>8. \A v \in Workers : Held(v) \subseteq Orders
  BY DEF ExpiryIndInv, Shapes, Held, Results
<1>9. status[r.order] \in {"created", "paid", "closed"}
  BY <1>4 DEF ExpiryIndInv, Facts, HeldIsPlaced
<1>10. HeldIsPlaced'
  BY <1>1, <1>4, <1>5, <1>9 DEF ExpiryIndInv, Facts, HeldIsPlaced
<1>11. ResultsAreTrue' /\ OneCloser' /\ RestoredOnce' /\ NoneHeldTwice'
  BY <1>1, <1>3, <1>4
  DEF ExpiryIndInv, Facts, ResultsAreTrue, OneCloser, RestoredOnce, NoneHeldTwice
<1>12. ClaimsLast'
  <2>1. \A v \in Workers \ {w} : r.order \in Held(v) => r.order \in strained
    BY <1>4 DEF ExpiryIndInv, Facts, NoneHeldTwice
  <2> QED BY <1>1, <1>4, <1>5, <1>8, <2>1 DEF ExpiryIndInv, Facts, ClaimsLast
<1>13. r.rows = 1 => restored[r.order] = 1
  BY <1>1 DEF ExpiryIndInv, Facts, ResultsAreTrue
<1>14. CloserAtWork'
  BY <1>1, <1>2, <1>3, <1>13 DEF ExpiryIndInv, Facts, CloserAtWork
<1>15. r.order \notin strained =>
         \/ status[r.order] = "paid"
         \/ status[r.order] = "closed" /\ restored[r.order] = 1
  <2>1. CASE r.rows = 1
    BY <1>13, <2>1 DEF ExpiryIndInv, Facts, ResultsAreTrue
  <2>2. CASE r.rows = 0
    <3>1. status[r.order] \in {"paid", "closed"}
      BY <2>2 DEF ExpiryIndInv, Facts, ResultsAreTrue
    <3>2. SUFFICES ASSUME r.order \notin strained, status[r.order] = "closed",
                          restored[r.order] = 0
                   PROVE  FALSE
      BY <1>2, <3>1
    <3>3. PICK v \in Workers : \E q \in result[v] : q.order = r.order /\ q.rows = 1
      BY <1>2, <3>2 DEF ExpiryIndInv, Facts, CloserAtWork
    <3>4. v # w
      BY <1>3, <2>2, <3>3
    <3>5. r.order \in Held(v)
      BY <3>3 DEF Held
    <3> QED BY <1>4, <3>2, <3>4, <3>5 DEF ExpiryIndInv, Facts, NoneHeldTwice
  <2> QED BY <1>2, <2>1, <2>2
<1>16. RemovedOnlyWhenSettled'
  BY <1>1, <1>5, <1>15 DEF ExpiryIndInv, Facts, RemovedOnlyWhenSettled
<1> QED BY <1>6, <1>7, <1>10, <1>11, <1>12, <1>14, <1>16 DEF ExpiryIndInv, Facts

\* A scan that ends lets go; what it had closed and not given back is strained.
LEMMA StopKeeps == ASSUME ExpiryIndInv, NEW w \in Workers, Stop(w) PROVE ExpiryIndInv'
<1> USE DEF Statuses, Places
<1> DEFINE lost == {r.order : r \in {q \in result[w] : q.at = "closed" /\ q.rows = 1}}
<1>1. /\ todo' = [todo EXCEPT ![w] = {}] /\ result' = [result EXCEPT ![w] = {}]
      /\ strained' = strained \cup lost
      /\ UNCHANGED <<redis, dbStock, status, index, restored>>
  BY DEF Stop, stocks
<1>2. /\ result'[w] = {} /\ \A v \in Workers \ {w} : result'[v] = result[v]
      /\ todo'[w] = {} /\ \A v \in Workers \ {w} : todo'[v] = todo[v]
  BY <1>1 DEF ExpiryIndInv, Shapes
<1>3. Held(w)' = {} /\ \A v \in Workers \ {w} : Held(v)' = Held(v)
  BY <1>2 DEF Held
<1>4. Shapes'
  <2>1. lost \in SUBSET Orders
    BY DEF ExpiryIndInv, Shapes, Results
  <2> QED BY <1>1, <2>1 DEF ExpiryIndInv, Shapes
<1>5. OneAtATime'
  BY <1>2, <1>3, FS_EmptySet, ExpiryAssumption DEF ExpiryIndInv, OneAtATime, ExpiryAssumption
<1>6. HeldIsPlaced' /\ ResultsAreTrue' /\ OneCloser' /\ RestoredOnce'
  BY <1>1, <1>2, <1>3 DEF ExpiryIndInv, Facts, HeldIsPlaced, ResultsAreTrue, OneCloser, RestoredOnce
<1>7. ClaimsLast' /\ NoneHeldTwice' /\ RemovedOnlyWhenSettled'
  BY <1>1, <1>3 DEF ExpiryIndInv, Facts, ClaimsLast, NoneHeldTwice, RemovedOnlyWhenSettled
<1>8. CloserAtWork'
  <2> SUFFICES ASSUME NEW o \in Orders \ strained', status[o] = "closed", restored[o] = 0
               PROVE  \E v \in Workers : \E r \in result'[v] : r.order = o /\ r.rows = 1
    BY <1>1 DEF CloserAtWork
  <2>0. PICK v \in Workers : \E r \in result[v] : r.order = o /\ r.rows = 1
    BY <1>1 DEF ExpiryIndInv, Facts, CloserAtWork
  <2>1. PICK r \in result[v] : r.order = o /\ r.rows = 1
    BY <2>0
  <2>2. r.at = "closed"
    BY <2>1 DEF ExpiryIndInv, Shapes, Results, Facts, ResultsAreTrue
  <2>3. v # w
    BY <1>1, <2>1, <2>2
  <2> QED BY <1>2, <2>1, <2>3
<1> QED BY <1>4, <1>5, <1>6, <1>7, <1>8 DEF ExpiryIndInv, Facts

-------------------------------------------------------------------------------
\* Every reachable state satisfies the inductive invariant.
THEOREM ExpiryInvariance == ExpirySpec => []ExpiryIndInv
<1>1. ExpiryIndInv /\ [ExpiryNext]_expiryVars => ExpiryIndInv'
  <2> SUFFICES ASSUME ExpiryIndInv, [ExpiryNext]_expiryVars PROVE ExpiryIndInv'
    OBVIOUS
  <2>1. CASE UNCHANGED expiryVars
    <3>1. UNCHANGED <<redis, dbStock, status, index, todo, result, restored, strained>>
      BY <2>1 DEF expiryVars, stocks, scan
    <3>2. \A w \in Workers : Held(w)' = Held(w)
      BY <3>1 DEF Held
    <3>3. Shapes' /\ OneAtATime'
      BY <3>1, <3>2 DEF ExpiryIndInv, Shapes, OneAtATime
    <3>4. HeldIsPlaced' /\ ResultsAreTrue' /\ OneCloser' /\ RestoredOnce'
      BY <3>1, <3>2 DEF ExpiryIndInv, Facts, HeldIsPlaced, ResultsAreTrue, OneCloser, RestoredOnce
    <3>5. ClaimsLast' /\ NoneHeldTwice' /\ CloserAtWork' /\ RemovedOnlyWhenSettled'
      BY <3>1, <3>2
      DEF ExpiryIndInv, Facts, ClaimsLast, NoneHeldTwice, CloserAtWork, RemovedOnlyWhenSettled
    <3> QED BY <3>3, <3>4, <3>5 DEF ExpiryIndInv, Facts
  <2>2. ASSUME NEW o \in Orders, OrderStep(o) PROVE ExpiryIndInv'
    BY <2>2, OrderStepKeeps
  <2> QED BY <2>1, <2>2, ClaimKeeps, CloseKeeps, RestoreKeeps, RemoveKeeps, StopKeeps
          DEF ExpiryNext, Process, OrderStep
<1> QED BY <1>1, ExpiryStarts, PTL DEF ExpirySpec

\* The stock of an order comes back once and only if it was closed, and a claim is
\* exclusive while it lasts (p2_close.go:43, p1_claim.go:34).
THEOREM GivesBackOnce == ExpirySpec => []ExpiryInv
<1>1. ExpiryIndInv => ExpiryInv
  <2> SUFFICES ASSUME ExpiryIndInv PROVE ExpiryInv
    OBVIOUS
  <2>1. \A w \in Workers : Cardinality(result[w]) <= 1
    <3> SUFFICES ASSUME NEW w \in Workers PROVE Cardinality(result[w]) <= 1
      OBVIOUS
    <3>1. CASE result[w] = {}
      BY <3>1, FS_EmptySet
    <3>2. CASE \E r \in result[w] : result[w] = {r}
      <4>1. PICK r : result[w] = {r}
        BY <3>2
      <4>2. Cardinality({r}) = 1
        BY FS_Singleton
      <4> QED BY <4>1, <4>2
    <3> QED BY <3>1, <3>2 DEF ExpiryIndInv, OneAtATime
  <2>2. ExpiryTypeOK
    BY <2>1 DEF ExpiryIndInv, Shapes, Statuses, Places, Results, OneAtATime, ExpiryTypeOK
  <2>3. RestoredOnceIfClosed
    BY DEF ExpiryIndInv, Shapes, Facts, RestoredOnce, RestoredOnceIfClosed
  <2> QED BY <2>2, <2>3 DEF ExpiryIndInv, Facts, ExpiryInv
<1> QED BY <1>1, ExpiryInvariance, PTL

\* Nothing that lacks a restore or a payment leaves the index, but for an order that
\* met a mishap the code has no answer to (p2_close.go:52).
THEOREM NoneLeftBehind == ExpirySpec => []RemovedOnlyWhenSettled
<1>1. ExpiryIndInv => RemovedOnlyWhenSettled
  BY DEF ExpiryIndInv, Facts
<1> QED BY <1>1, ExpiryInvariance, PTL

-------------------------------------------------------------------------------
(* The product cache                                                       *)

\* The readers of a process whose load is under way, or whose result is on its way back.
Loads(r) == call[r] = "loading" \/ HasRow(r)

\* A flight is of one process and has one load.
OneLoad ==
    /\ flight \in [{Instance[r] : r \in Readers} -> SUBSET Readers]
    /\ \A r, s \in Readers : Loads(r) /\ Loads(s) /\ Instance[r] = Instance[s] => r = s

\* Nobody waits for a result that is too old for it.
LoadsAreFresh ==
    \A r \in Readers : call[r] # "idle" =>
        /\ floor[r] <= row
        /\ \A s \in Readers : HasRow(s) /\ Instance[s] = Instance[r] => seen[s] >= floor[r]

CacheIndInv ==
    /\ CacheTypeOK /\ OneLoad /\ LoadsAreFresh
    /\ ReadsAreFresh /\ StaleIsAccountedFor

-------------------------------------------------------------------------------
Users == Readers \cup Warmers
Calling == {"idle", "missed", "loading", "waiting", "filling", "filled"}

LEMMA CacheValues ==
    /\ NoRow = 0 /\ Failed = -1 /\ NoEntry = [held |-> FALSE] /\ ~NoEntry.held
    /\ NoRow \in Versions /\ 1 \in Versions /\ Versions \subseteq Nat
    /\ \A r \in Readers : r \in DOMAIN Instance /\ r \notin Warmers
  BY CacheAssumption DEF NoRow, Failed, NoEntry, Versions

LEMMA CacheStarts == CacheInit => CacheIndInv
<1> SUFFICES ASSUME CacheInit PROVE CacheIndInv
  OBVIOUS
<1>1. CacheTypeOK
  BY CacheValues DEF CacheInit, CacheTypeOK
<1>2. OneLoad /\ LoadsAreFresh
  BY DEF CacheInit, OneLoad, LoadsAreFresh, Loads, HasRow
<1>3. ReadsAreFresh /\ StaleIsAccountedFor
  BY CacheValues DEF CacheInit, ReadsAreFresh, StaleIsAccountedFor, Stale, ProductStatus, PortProduct
<1> QED BY <1>1, <1>2, <1>3 DEF CacheIndInv

\* When nothing is in the way, an entry is of the row that is there.
LEMMA CleanIsCurrent ==
    ASSUME CacheIndInv, Clean, entry.held
    PROVE  entry.version = row
  BY DEF CacheIndInv, Clean, StaleIsAccountedFor, Stale

LEMMA OnlyFailureIsFailed == \A x : ProductStatus(x) # 500 => x # Failed
  BY CacheValues DEF ProductStatus, PortProduct

LEMMA GetKeeps == ASSUME CacheIndInv, NEW r \in Readers, Get(r) PROVE CacheIndInv'
<1> USE DEF CacheIndInv
<1>1. /\ call[r] = "idle" /\ UNCHANGED <<row, entry, flight, seen, update>>
      /\ floor' = [floor EXCEPT ![r] = IF Clean THEN row ELSE NoRow]
  BY DEF Get
<1>2. \/ /\ entry.held
         /\ got' = [got EXCEPT ![r] = entry.version] /\ call' = call
      \/ call' = [call EXCEPT ![r] = "missed"] /\ got' = got
      \/ got' = [got EXCEPT ![r] = Failed] /\ call' = call
  BY DEF Get, GoesTo
<1>3. row \in Nat /\ NoRow = 0 /\ (entry.held => entry.version \in Versions /\ entry.version \in Nat)
  BY CacheValues DEF CacheTypeOK
<1>4. floor'[r] \in Nat /\ floor'[r] <= row /\ (~Clean => floor'[r] = 0) /\ (Clean => floor'[r] = row)
  BY <1>1, <1>3 DEF CacheTypeOK
<1>5. CacheTypeOK'
  <2>1. got' \in [Readers -> Versions \cup {Failed}] /\ floor' \in [Readers -> Versions]
    BY <1>1, <1>2, <1>3, CacheValues DEF CacheTypeOK
  <2>2. call' \in [Readers \cup Warmers -> {"idle", "missed", "loading", "waiting", "filling", "filled"}]
    BY <1>2 DEF CacheTypeOK
  <2>3. \A s \in Readers : call'[s] \in {"loading", "waiting", "filling", "filled"} <=> s \in flight[Instance[s]]
    BY <1>1, <1>2 DEF CacheTypeOK
  <2> QED BY <1>1, <2>1, <2>2, <2>3 DEF CacheTypeOK
<1>6. OneLoad'
  BY <1>1, <1>2 DEF OneLoad, Loads, HasRow, CacheTypeOK
<1>7. \A s \in Users : HasRow(s)' <=> HasRow(s)
  BY <1>1, <1>2 DEF CacheTypeOK, Users, HasRow
<1>8. \A s \in Readers : s # r => call'[s] = call[s] /\ got'[s] = got[s] /\ floor'[s] = floor[s]
  BY <1>1, <1>2 DEF CacheTypeOK
<1>9. LoadsAreFresh'
  <2> SUFFICES ASSUME NEW q \in Readers, call'[q] # "idle"
               PROVE  /\ floor'[q] <= row
                      /\ \A s \in Readers : HasRow(s) /\ Instance[s] = Instance[q] =>
                             seen[s] >= floor'[q]
    BY <1>1, <1>7 DEF LoadsAreFresh, Users
  <2>1. CASE q # r
    BY <1>8, <2>1 DEF LoadsAreFresh
  <2>2. CASE q = r
    <3>1. \A s \in Readers : HasRow(s) /\ Clean => seen[s] = row
      BY DEF Clean, StaleLoad
    <3>2. \A s \in Readers : seen[s] \in Nat
      BY CacheValues DEF CacheTypeOK
    <3> QED BY <1>3, <1>4, <2>2, <3>1, <3>2
  <2> QED BY <2>1, <2>2
<1>10. ReadsAreFresh'
  <2> SUFFICES ASSUME NEW q \in Readers, call'[q] = "idle", ProductStatus(got'[q]) # 500
               PROVE  got'[q] >= floor'[q]
    BY DEF ReadsAreFresh, ProductStatus, PortProduct
  <2>1. CASE q # r
    BY <1>8, <2>1 DEF ReadsAreFresh
  <2>2. CASE q = r
    <3>1. got'[r] # Failed /\ call'[r] = "idle"
      BY <2>2, OnlyFailureIsFailed
    <3>2. entry.held /\ got'[r] = entry.version
      BY <1>1, <1>2, <3>1 DEF CacheTypeOK
    <3>3. Clean => entry.version = row
      BY <3>2, CleanIsCurrent
    <3> QED BY <1>3, <1>4, <2>2, <3>2, <3>3
  <2> QED BY <2>1, <2>2
<1>11. StaleIsAccountedFor'
  BY <1>1 DEF StaleIsAccountedFor, Stale, Updating
<1> QED BY <1>5, <1>6, <1>9, <1>10, <1>11

LEMMA DoKeeps == ASSUME CacheIndInv, NEW r \in Readers, Do(r) PROVE CacheIndInv'
<1> USE DEF CacheIndInv
<1>1. /\ call[r] = "missed" /\ UNCHANGED <<row, entry, seen, got, floor, update>>
      /\ call' = [call EXCEPT ![r] = IF flight[Instance[r]] = {} THEN "loading" ELSE "waiting"]
      /\ flight' = [flight EXCEPT ![Instance[r]] = @ \cup {r}]
  BY DEF Do, GoesTo
<1>2. CacheTypeOK'
  <2>1. call' \in [Readers \cup Warmers -> {"idle", "missed", "loading", "waiting", "filling", "filled"}]
    BY <1>1 DEF CacheTypeOK
  <2>2. \A p \in DOMAIN flight' : \A s \in flight'[p] : Instance[s] = p
    BY <1>1 DEF CacheTypeOK
  <2>3. \A s \in Readers : call'[s] \in {"loading", "waiting", "filling", "filled"} <=> s \in flight'[Instance[s]]
    BY <1>1 DEF CacheTypeOK, OneLoad
  <2> QED BY <1>1, <2>1, <2>2, <2>3 DEF CacheTypeOK
<1>3. OneLoad'
  <2>1. flight' \in [{Instance[s] : s \in Readers} -> SUBSET Readers]
    BY <1>1 DEF OneLoad
  <2>2. ASSUME NEW s \in Readers, s # r, Loads(s)', Loads(r)', Instance[s] = Instance[r]
        PROVE  FALSE
    BY <1>1, <2>2 DEF Loads, HasRow, CacheTypeOK
  <2>3. \A s \in Readers : s # r => (Loads(s)' <=> Loads(s))
    BY <1>1 DEF Loads, HasRow, CacheTypeOK
  <2> QED BY <2>1, <2>2, <2>3 DEF OneLoad
<1>4. \A s \in Readers : /\ HasRow(s)' => HasRow(s)
                         /\ call'[s] # "idle" => call[s] # "idle"
                         /\ call'[s] = "idle" => call[s] = "idle"
  BY <1>1 DEF CacheTypeOK, HasRow
<1>5. LoadsAreFresh' /\ ReadsAreFresh'
  BY <1>1, <1>4 DEF LoadsAreFresh, ReadsAreFresh, ProductStatus, PortProduct
<1>6. StaleIsAccountedFor'
  BY <1>1 DEF StaleIsAccountedFor, Stale, Updating
<1> QED BY <1>2, <1>3, <1>5, <1>6

\* The end of a load: everyone of the flight, and only they, return.
LEMMA LandKeeps ==
    ASSUME CacheIndInv, NEW c \in Users, Loads(c),
           NEW given \in Versions \cup {Failed}, Land(c, given),
           UNCHANGED <<row, floor, update>>,
           given # Failed => HasRow(c) /\ given = seen[c]
    PROVE  /\ call' \in [Users -> Calling] /\ got' \in [Readers -> Versions \cup {Failed}]
           /\ seen' \in [Users -> Versions]
           /\ OneLoad' /\ LoadsAreFresh' /\ ReadsAreFresh'
           /\ \A p \in DOMAIN flight' : \A r \in flight'[p] : Instance[r] = p
           /\ \A r \in Readers : call'[r] \in {"loading", "waiting", "filling", "filled"} <=> r \in flight'[Instance[r]]
<1> USE DEF CacheIndInv
<1>1. /\ call' = [d \in Users |-> IF d \in Merged(c) THEN "idle" ELSE call[d]]
      /\ got' = [r \in Readers |-> IF r \in Merged(c) THEN given ELSE got[r]]
      /\ flight' = [p \in DOMAIN flight |-> flight[p] \ Merged(c)]
      /\ seen' = [seen EXCEPT ![c] = NoRow]
  BY DEF Land, Users
<1>2. call \in [Users -> Calling] /\ seen \in [Users -> Versions]
  BY DEF CacheTypeOK, Users, Calling
<1>3. c \in Merged(c)
  BY DEF Merged, Loads, HasRow, CacheTypeOK, Users
<1>4. ASSUME NEW r \in Readers
      PROVE  r \in Merged(c) <=> c \in Readers /\ r \in flight[Instance[r]] /\ Instance[r] = Instance[c]
  <2>1. CASE c \in Warmers
    BY <2>1, CacheValues DEF Merged, Users
  <2>2. CASE c \notin Warmers
    <3>1. c \in Readers /\ Merged(c) = flight[Instance[c]]
      BY <2>2 DEF Merged, Users
    <3>2. Instance[c] \in DOMAIN flight
      BY <3>1 DEF OneLoad
    <3>3. r \in flight[Instance[c]] => Instance[r] = Instance[c]
      BY <3>2 DEF CacheTypeOK
    <3> QED BY <3>1, <3>3
  <2> QED BY <2>1, <2>2
<1>5. flight' \in [{Instance[r] : r \in Readers} -> SUBSET Readers]
  BY <1>1 DEF OneLoad
<1>6. \A p \in DOMAIN flight' : \A r \in flight'[p] : Instance[r] = p
  BY <1>1 DEF CacheTypeOK
<1>7. ASSUME NEW r \in Readers
      PROVE  call'[r] \in {"loading", "waiting", "filling", "filled"} <=> r \in flight'[Instance[r]]
  <2>1. Instance[r] \in DOMAIN flight /\ r \in Users
    BY DEF OneLoad, Users
  <2>2. r \in flight'[Instance[r]] <=> r \in flight[Instance[r]] /\ r \notin Merged(c)
    BY <1>1, <2>1
  <2>3. call'[r] = IF r \in Merged(c) THEN "idle" ELSE call[r]
    BY <1>1, <2>1
  <2>4. call[r] \in {"loading", "waiting", "filling", "filled"} <=> r \in flight[Instance[r]]
    BY DEF CacheTypeOK
  <2> QED BY <2>2, <2>3, <2>4
<1>8. ASSUME NEW r \in Readers
      PROVE  /\ r \in Users
             /\ r \notin Merged(c) => call'[r] = call[r] /\ got'[r] = got[r] /\ seen'[r] = seen[r]
             /\ r \in Merged(c) => call'[r] = "idle" /\ got'[r] = given
  BY <1>1, <1>2, <1>3 DEF Users
<1>9. OneLoad'
  <2>1. \A r \in Readers : Loads(r)' => Loads(r)
    BY <1>8 DEF Loads, HasRow
  <2> QED BY <1>5, <2>1 DEF OneLoad
<1>10. LoadsAreFresh'
  <2> SUFFICES ASSUME NEW r \in Readers, call'[r] # "idle"
               PROVE  /\ floor[r] <= row
                      /\ \A s \in Readers : HasRow(s)' /\ Instance[s] = Instance[r] =>
                             seen'[s] >= floor[r]
    BY DEF LoadsAreFresh
  <2>1. call[r] # "idle"
    BY <1>8
  <2>2. \A s \in Readers : HasRow(s)' => HasRow(s) /\ seen'[s] = seen[s]
    BY <1>8 DEF HasRow
  <2> QED BY <2>1, <2>2 DEF LoadsAreFresh
<1>11. ReadsAreFresh'
  <2> SUFFICES ASSUME NEW r \in Readers, call'[r] = "idle", ProductStatus(got'[r]) # 500
               PROVE  got'[r] >= floor[r]
    BY DEF ReadsAreFresh, ProductStatus, PortProduct
  <2>1. CASE r \notin Merged(c)
    BY <1>8, <2>1 DEF ReadsAreFresh
  <2>2. CASE r \in Merged(c)
    <3>1. given # Failed /\ got'[r] = given
      BY <1>8, <2>2, OnlyFailureIsFailed
    <3>2. c \in Readers /\ Instance[r] = Instance[c] /\ call[r] # "idle"
      BY <1>4, <2>2 DEF CacheTypeOK
    <3> QED BY <3>1, <3>2 DEF LoadsAreFresh
  <2> QED BY <2>1, <2>2
<1>12. call' \in [Users -> Calling] /\ seen' \in [Users -> Versions]
  BY <1>1, <1>2, CacheValues DEF Calling
<1>13. got' \in [Readers -> Versions \cup {Failed}]
  BY <1>1 DEF CacheTypeOK
<1> QED BY <1>6, <1>7, <1>9, <1>10, <1>11, <1>12, <1>13

LEMMA LoadKeeps == ASSUME CacheIndInv, NEW c \in Users, LoadProduct(c) PROVE CacheIndInv'
<1> USE DEF CacheIndInv
<1>1. call[c] = "loading" /\ Loads(c) /\ UNCHANGED <<row, entry, floor, update>>
  BY DEF LoadProduct, Loads, HasRow
<1>2. StaleIsAccountedFor'
  BY <1>1 DEF StaleIsAccountedFor, Stale, Updating
<1>3. CASE Land(c, Failed)
  BY <1>1, <1>2, <1>3, LandKeeps DEF CacheTypeOK, Users, Calling
<1>4. CASE /\ call' = [call EXCEPT ![c] = "filling"] /\ seen' = [seen EXCEPT ![c] = row]
           /\ UNCHANGED <<got, flight>>
  <2>1. CacheTypeOK'
    BY <1>1, <1>4 DEF CacheTypeOK, Users
  <2>2. OneLoad'
    BY <1>1, <1>4 DEF OneLoad, Loads, HasRow, CacheTypeOK, Users
  <2>3. LoadsAreFresh'
    <3> SUFFICES ASSUME NEW r \in Readers, call'[r] # "idle",
                        NEW s \in Readers, HasRow(s)', Instance[s] = Instance[r]
                 PROVE  floor[r] <= row /\ seen'[s] >= floor[r]
      BY <1>1, <1>4 DEF LoadsAreFresh, CacheTypeOK
    <3>1. call[r] # "idle" /\ floor[r] <= row /\ floor[r] \in Nat /\ row \in Nat
      BY <1>1, <1>4, CacheValues DEF LoadsAreFresh, CacheTypeOK
    <3> QED BY <1>4, <3>1 DEF LoadsAreFresh, CacheTypeOK, HasRow
  <2>4. ReadsAreFresh'
    BY <1>1, <1>4 DEF ReadsAreFresh, ProductStatus, PortProduct, CacheTypeOK
  <2> QED BY <1>2, <2>1, <2>2, <2>3, <2>4
<1> QED BY <1>3, <1>4 DEF LoadProduct, GoesTo

LEMMA FillKeeps == ASSUME CacheIndInv, NEW c \in Users, Fill(c) PROVE CacheIndInv'
<1> USE DEF CacheIndInv
<1>1. /\ call[c] = "filling" /\ call' = [call EXCEPT ![c] = "filled"]
      /\ UNCHANGED <<row, flight, seen, got, floor, update>>
      /\ entry' = Entry(c, TRUE) \/ entry' = entry
  BY DEF Fill, GoesTo, Set
<1>2. seen[c] \in Versions
  BY DEF CacheTypeOK, Users
<1>3. entry' \in {NoEntry} \cup [held : {TRUE}, version : Versions,
                                 raced : BOOLEAN, expires : BOOLEAN]
  <2>1. (seen[c] # row) \in BOOLEAN /\ TRUE \in BOOLEAN
    OBVIOUS
  <2>2. Entry(c, TRUE) \in [held : {TRUE}, version : Versions, raced : BOOLEAN, expires : BOOLEAN]
    BY <1>2, <2>1 DEF Entry
  <2> QED BY <1>1, <2>2 DEF CacheTypeOK
<1>4. StaleIsAccountedFor'
  <2>1. CASE entry' = Entry(c, TRUE)
    <3>1. entry'.version = seen[c] /\ (seen[c] # row => entry'.raced)
      BY <2>1 DEF Entry
    <3> QED BY <1>1, <3>1 DEF StaleIsAccountedFor, Stale
  <2>2. CASE entry' = entry
    BY <1>1, <2>2 DEF StaleIsAccountedFor, Stale, Updating
  <2> QED BY <1>1, <2>1, <2>2
<1>5. \A s \in Users : HasRow(s)' <=> HasRow(s)
  BY <1>1 DEF HasRow, CacheTypeOK, Users
<1>6. \A s \in Readers : (Loads(s)' <=> Loads(s)) /\ (call'[s] = "idle" <=> call[s] = "idle")
  BY <1>1, <1>5 DEF Loads, CacheTypeOK, Users, HasRow
<1>7. OneLoad' /\ LoadsAreFresh' /\ ReadsAreFresh'
  BY <1>1, <1>5, <1>6
  DEF OneLoad, LoadsAreFresh, ReadsAreFresh, ProductStatus, PortProduct, Users
<1>8. CacheTypeOK'
  BY <1>1, <1>3 DEF CacheTypeOK, Users
<1> QED BY <1>4, <1>7, <1>8

LEMMA FinishKeeps == ASSUME CacheIndInv, NEW c \in Users, Finish(c) PROVE CacheIndInv'
<1> USE DEF CacheIndInv
<1>1. /\ HasRow(c) /\ Loads(c) /\ Land(c, seen[c])
      /\ UNCHANGED <<row, entry, floor, update>>
  BY DEF Finish, Loads, HasRow
<1>2. seen[c] \in Versions
  BY DEF CacheTypeOK, Users
<1>3. StaleIsAccountedFor'
  BY <1>1 DEF StaleIsAccountedFor, Stale, Updating
<1> QED BY <1>1, <1>2, <1>3, LandKeeps DEF CacheTypeOK, Users, Calling

\* The row only moves on, and nobody's floor or result with it.
LEMMA RowKeeps ==
    ASSUME CacheIndInv, row' \in Versions, row' >= row, entry' = NoEntry \/ entry'.held = entry.held,
           UNCHANGED <<flight, call, seen, got, floor>>
    PROVE  OneLoad' /\ LoadsAreFresh' /\ ReadsAreFresh'
<1> USE DEF CacheIndInv
<1>1. OneLoad' /\ ReadsAreFresh'
  BY DEF OneLoad, Loads, HasRow, ReadsAreFresh, ProductStatus, PortProduct
<1>2. row \in Nat /\ row' \in Nat /\ \A r \in Readers : floor[r] \in Nat
  BY CacheValues DEF CacheTypeOK
<1>3. \A s \in Readers : HasRow(s)' <=> HasRow(s)
  BY DEF HasRow
<1>4. LoadsAreFresh'
  BY <1>2, <1>3 DEF LoadsAreFresh
<1> QED BY <1>1, <1>4

\* What a change of the row does to an entry that nobody deletes.
BlamedEntry == IF entry.held /\ entry.version # row' THEN [entry EXCEPT !.raced = TRUE] ELSE entry

LEMMA BlameKeeps ==
    ASSUME CacheTypeOK, entry' = BlamedEntry
    PROVE  /\ entry' \in {NoEntry} \cup [held : {TRUE}, version : Versions,
                                         raced : BOOLEAN, expires : BOOLEAN]
           /\ entry'.held = entry.held
           /\ StaleIsAccountedFor'
<1>1. CASE entry.held /\ entry.version # row'
  <2>1. entry \in [held : {TRUE}, version : Versions, raced : BOOLEAN, expires : BOOLEAN]
    BY <1>1, CacheValues DEF CacheTypeOK
  <2>2. entry' = [entry EXCEPT !.raced = TRUE]
    BY <1>1 DEF BlamedEntry
  <2>3. /\ entry' \in [held : {TRUE}, version : Versions, raced : BOOLEAN, expires : BOOLEAN]
        /\ entry'.held = entry.held /\ entry'.raced
    BY <2>1, <2>2
  <2> QED BY <2>3 DEF StaleIsAccountedFor
<1>2. CASE ~(entry.held /\ entry.version # row')
  <2>1. entry' = entry
    BY <1>2 DEF BlamedEntry
  <2>2. ~Stale'
    BY <1>2, <2>1 DEF Stale
  <2>3. entry' \in {NoEntry} \cup [held : {TRUE}, version : Versions,
                                   raced : BOOLEAN, expires : BOOLEAN]
    BY <2>1 DEF CacheTypeOK
  <2> QED BY <2>1, <2>2, <2>3 DEF StaleIsAccountedFor
<1> QED BY <1>1, <1>2

LEMMA WriteKeeps ==
    ASSUME CacheIndInv,
           (\E w \in Writers : UpdateStock(w)) \/ List \/ DeductStock \/ Expire
    PROVE  CacheIndInv'
<1> USE DEF CacheIndInv
<1>n. /\ row \in Nat /\ row \in Versions /\ MaxVersion \in Nat /\ NoRow = 0 /\ 1 \in Versions
      /\ NewVersion => row' = row + 1 /\ row' \in Versions
  BY CacheValues, CacheAssumption DEF CacheTypeOK, NewVersion, Versions
<1>1. ASSUME NEW w \in Writers, UpdateRow(w) PROVE CacheIndInv'
  <2>1. /\ UNCHANGED <<flight, call, seen, got, floor>>
        /\ \/ entry' = entry /\ row' = row /\ update' = [update EXCEPT ![w] = "updated"]
           \/ entry' = entry /\ NewVersion /\ update' = [update EXCEPT ![w] = "updated"]
           \/ entry' = entry /\ row' = row /\ update' = [update EXCEPT ![w] = "failed"]
           \/ entry' = BlamedEntry /\ NewVersion /\ update' = [update EXCEPT ![w] = "failed"]
        /\ ~Updating(w)
    BY <1>1 DEF UpdateRow, Updating, Blamed, BlamedEntry
  <2>2. row' \in Versions /\ row' >= row
    BY <1>n, <2>1
  <2>3. update' \in [Writers -> {"start", "updated", "done", "failed"}]
    BY <2>1 DEF CacheTypeOK
  <2>4. /\ entry' \in {NoEntry} \cup [held : {TRUE}, version : Versions,
                                      raced : BOOLEAN, expires : BOOLEAN]
        /\ entry'.held = entry.held
    BY <2>1, BlameKeeps DEF CacheTypeOK
  <2>5. CacheTypeOK'
    BY <2>1, <2>2, <2>3, <2>4 DEF CacheTypeOK
  <2>6. StaleIsAccountedFor'
    <3>1. \A x \in Writers : Updating(x) => Updating(x)'
      BY <2>1 DEF Updating, CacheTypeOK
    <3>2. CASE entry' = BlamedEntry
      BY <3>2, BlameKeeps
    <3>3. CASE entry' = entry /\ row' = row
      BY <3>1, <3>3 DEF StaleIsAccountedFor, Stale
    <3>4. CASE update' = [update EXCEPT ![w] = "updated"]
      BY <3>4 DEF StaleIsAccountedFor, Updating, CacheTypeOK
    <3> QED BY <2>1, <3>2, <3>3, <3>4
  <2> QED BY <2>1, <2>2, <2>4, <2>5, <2>6, RowKeeps
<1>2. ASSUME NEW w \in Writers, DeleteKey(w) PROVE CacheIndInv'
  <2>1. /\ UNCHANGED <<row, flight, call, seen, got, floor>>
        /\ entry' = NoEntry \/ entry' = BlamedEntry
        /\ \E s \in {"done", "failed"} : update' = [update EXCEPT ![w] = s]
    BY <1>2 DEF DeleteKey, Blamed, BlamedEntry
  <2>2. update' \in [Writers -> {"start", "updated", "done", "failed"}]
    BY <2>1 DEF CacheTypeOK
  <2>3. /\ entry' \in {NoEntry} \cup [held : {TRUE}, version : Versions,
                                      raced : BOOLEAN, expires : BOOLEAN]
        /\ entry' = NoEntry \/ entry'.held = entry.held
        /\ StaleIsAccountedFor'
    <3>1. CASE entry' = BlamedEntry
      BY <3>1, BlameKeeps
    <3>2. CASE entry' = NoEntry
      BY <3>2, CacheValues DEF StaleIsAccountedFor, Stale
    <3> QED BY <2>1, <3>1, <3>2
  <2>4. CacheTypeOK'
    BY <2>1, <2>2, <2>3 DEF CacheTypeOK
  <2> QED BY <1>n, <2>1, <2>3, <2>4, RowKeeps
<1>3. ASSUME List \/ DeductStock PROVE CacheIndInv'
  <2>1. /\ NewVersion \/ (row = 0 /\ row' = 1)
        /\ entry' = BlamedEntry
        /\ UNCHANGED <<flight, call, seen, got, floor, update>>
    BY <1>3, <1>n DEF List, DeductStock, Blamed, BlamedEntry
  <2>2. row' \in Versions /\ row' >= row
    BY <1>n, <2>1
  <2>3. /\ entry' \in {NoEntry} \cup [held : {TRUE}, version : Versions,
                                      raced : BOOLEAN, expires : BOOLEAN]
        /\ entry'.held = entry.held /\ StaleIsAccountedFor'
    BY <2>1, BlameKeeps
  <2>4. CacheTypeOK'
    BY <2>1, <2>2, <2>3 DEF CacheTypeOK
  <2> QED BY <2>1, <2>2, <2>3, <2>4, RowKeeps
<1>4. ASSUME Expire PROVE CacheIndInv'
  <2>1. entry' = NoEntry /\ UNCHANGED <<row, flight, call, seen, got, floor, update>>
    BY <1>4 DEF Expire
  <2>2. CacheTypeOK' /\ StaleIsAccountedFor'
    BY <2>1, CacheValues DEF CacheTypeOK, StaleIsAccountedFor, Stale
  <2> QED BY <1>n, <2>1, <2>2, RowKeeps
<1> QED BY <1>1, <1>2, <1>3, <1>4 DEF UpdateStock

LEMMA WarmKeeps == ASSUME CacheIndInv, NEW c \in Warmers, Warm(c) PROVE CacheIndInv'
<1> USE DEF CacheIndInv
<1>1. /\ call[c] = "idle" /\ call' = [call EXCEPT ![c] = "loading"]
      /\ UNCHANGED <<row, entry, flight, seen, got, floor, update>>
  BY DEF Warm, GoesTo
<1>2. \A r \in Readers : call'[r] = call[r]
  BY <1>1, CacheValues DEF CacheTypeOK
<1>3. CacheTypeOK'
  BY <1>1, <1>2 DEF CacheTypeOK
<1>4. OneLoad' /\ LoadsAreFresh' /\ ReadsAreFresh' /\ StaleIsAccountedFor'
  BY <1>1, <1>2
  DEF OneLoad, Loads, HasRow, LoadsAreFresh, ReadsAreFresh, ProductStatus, PortProduct,
      StaleIsAccountedFor, Stale, Updating
<1> QED BY <1>3, <1>4

\* Every reachable state of the cache satisfies the inductive invariant.
THEOREM CacheInvariance == CacheSpec => []CacheIndInv
<1>1. CacheIndInv /\ [CacheNext]_cacheVars => CacheIndInv'
  <2> SUFFICES ASSUME CacheIndInv, [CacheNext]_cacheVars PROVE CacheIndInv'
    OBVIOUS
  <2>1. CASE UNCHANGED cacheVars
    <3>1. CacheTypeOK' /\ OneLoad' /\ LoadsAreFresh'
      BY <2>1 DEF cacheVars, CacheIndInv, CacheTypeOK, OneLoad, Loads, HasRow, LoadsAreFresh
    <3>2. ReadsAreFresh' /\ StaleIsAccountedFor'
      BY <2>1
      DEF cacheVars, CacheIndInv, ReadsAreFresh, ProductStatus, PortProduct,
          StaleIsAccountedFor, Stale, Updating
    <3> QED BY <3>1, <3>2 DEF CacheIndInv
  <2> QED BY <2>1, GetKeeps, DoKeeps, WarmKeeps, LoadKeeps, FillKeeps, FinishKeeps, WriteKeeps
          DEF CacheNext, Users
<1> QED BY <1>1, CacheStarts, PTL DEF CacheSpec

\* Whatever expires, fails or races: the misses of a process share one load
\* (product.go:46), and a read that starts when nothing is in the way returns the row of
\* that moment or a later one (consistency_test.go:13).
THEOREM ReadsAreCurrent == CacheSpec => []CacheInv
<1>1. CacheIndInv => CacheInv
  <2> SUFFICES ASSUME CacheIndInv PROVE LoadsAreMerged
    BY DEF CacheIndInv, CacheInv
  <2> SUFFICES ASSUME NEW p \in DOMAIN flight
               PROVE  Cardinality({r \in flight[p] : Loads(r)}) <= 1
    BY DEF LoadsAreMerged, Loads, HasRow
  <2>1. flight[p] \subseteq Readers /\ \A r \in flight[p] : Instance[r] = p
    BY DEF CacheIndInv, CacheTypeOK, OneLoad
  <2>2. CASE {r \in flight[p] : Loads(r)} = {}
    BY <2>2, FS_EmptySet
  <2>3. CASE {r \in flight[p] : Loads(r)} # {}
    <3>1. PICK r \in flight[p] : Loads(r)
      BY <2>3
    <3>2. {s \in flight[p] : Loads(s)} = {r}
      BY <2>1, <3>1 DEF CacheIndInv, OneLoad
    <3>3. Cardinality({s \in flight[p] : Loads(s)}) = 1
      BY <3>2, FS_Singleton
    <3> QED BY <3>3
  <2> QED BY <2>2, <2>3
<1> QED BY <1>1, CacheInvariance, PTL

\* A stale entry has one of the causes the code knows: no other order of fills, updates and
\* deletes leaves one behind (m02-cache.md:75-85).
THEOREM StalenessHasACause == CacheSpec => []StaleIsAccountedFor
<1>1. CacheIndInv => StaleIsAccountedFor
  BY DEF CacheIndInv
<1> QED BY <1>1, CacheInvariance, PTL
===============================================================================
