---------------------------- MODULE OrderConsumer ----------------------------
(***************************************************************************)
(* The consumer loop of cmd/api/main.go over one partition of              *)
(* order.created: PollBatch, ProcessWithRetry around PlaceRecord, the      *)
(* dead-letter topic and CommitProcessed, run by the members of one        *)
(* consumer group.                                                         *)
(*                                                                         *)
(* The partition is an append-only log with offsets 0, 1, 2, ...; a        *)
(* committed offset c means that a member which takes the partition over   *)
(* starts at c.  The broker does not check that the member that commits    *)
(* still owns the partition, so a member that lost it goes on with its     *)
(* batch and may commit late.                                              *)
(*                                                                         *)
(* In two cases the loop goes past a record that it did not handle:        *)
(* ProcessWithRetry returns an error (its context expired in a backoff, or *)
(* the dead letter could not be produced), and PollFetches returns records *)
(* together with an error.  "abandoned" is the history of these records.   *)
(***************************************************************************)
EXTENDS Integers

CONSTANTS Members,      \* processes that run the loop
          MaxRecords,   \* bound: records produced to the partition
          MaxAttempts,  \* RetryPolicy.MaxAttempts
          MaxMoves,     \* bound: crashes and rebalances
          Poison,       \* records that cannot be placed: undecodable, sold out
          NoMember

ASSUME ConsumerAssumption ==
    /\ MaxRecords \in Nat
    /\ MaxAttempts \in Nat \ {0}
    /\ MaxMoves \in Nat
    /\ NoMember \notin Members

Offsets == 0..(MaxRecords - 1)
Bounds == 0..MaxRecords

VARIABLES end,        \* the log end offset
          committed,  \* the group's committed offset
          owner,      \* the member the partition is assigned to
          position,   \* where each member fetches next
          step,       \* where each member is in the loop
          next,       \* the record a member is handling ...
          batchEnd,   \* ... of the batch that ends before this offset
          attempt,    \* the attempt ProcessWithRetry is at
          landed,     \* the records whose order is in MySQL
          dead,       \* the records in order.created.DLT
          abandoned,  \* the records the loop went past without handling them
          moves,      \* crashes and rebalances so far
          scrape      \* the read of the lag that is under way

broker == <<end, committed>>
loop == <<step, next, batchEnd, attempt>>
effects == <<landed, dead, abandoned>>
group == <<broker, owner, position, loop, effects, moves>>
vars == <<group, scrape>>

\* GroupLagTotal has the log end offset or the committed one, and asks for the
\* other.  "logged" is the log end when it asked first.
Fetched(has, offset, logged) == [has |-> has, offset |-> offset, logged |-> logged]
NoScrape == Fetched("nothing", 0, 0)

Steps == {"poll", "attempt", "backoff", "dead_letter", "commit", "down"}

Init == /\ end = 0
        /\ committed = 0
        /\ owner = NoMember
        /\ position = [m \in Members |-> 0]
        /\ step = [m \in Members |-> "poll"]
        /\ next = [m \in Members |-> 0]
        /\ batchEnd = [m \in Members |-> 0]
        /\ attempt = [m \in Members |-> 1]
        /\ landed = {}
        /\ dead = {}
        /\ abandoned = {}
        /\ moves = 0
        /\ scrape = NoScrape

Handled == landed \cup dead
Accounted == Handled \cup abandoned
Abandon(K) == abandoned' = abandoned \cup K

Goto(m, s) == step' = [step EXCEPT ![m] = s]

-------------------------------------------------------------------------------
\* EnqueueOrder's ProduceSync appends a record.
Produce ==
    /\ end < MaxRecords
    /\ end' = end + 1
    /\ UNCHANGED <<committed, owner, position, loop, effects, moves>>

\* Faulty variant: only the newest record of a fetch is kept, as PollOne keeps one.
PollLatest(m) ==
    /\ step[m] = "poll"
    /\ owner = m
    /\ \E e \in (position[m] + 1)..end :
         /\ position' = [position EXCEPT ![m] = e]
         /\ Goto(m, "attempt")
         /\ next' = [next EXCEPT ![m] = e - 1]
         /\ batchEnd' = [batchEnd EXCEPT ![m] = e]
         /\ attempt' = [attempt EXCEPT ![m] = 1]
    /\ UNCHANGED <<broker, owner, effects, moves>>

\* PollBatch: the client hands out what it fetched and moves its position past
\* it.  With an error beside the records, PollBatch returns the error alone.
Poll(m) ==
    /\ step[m] = "poll"
    /\ owner = m
    /\ \E e \in (position[m] + 1)..end :
         /\ position' = [position EXCEPT ![m] = e]
         /\ \/ /\ Goto(m, "attempt")
               /\ next' = [next EXCEPT ![m] = position[m]]
               /\ batchEnd' = [batchEnd EXCEPT ![m] = e]
               /\ attempt' = [attempt EXCEPT ![m] = 1]
               /\ UNCHANGED abandoned
            \/ /\ Abandon(position[m]..(e - 1))
               /\ UNCHANGED loop
    /\ UNCHANGED <<broker, owner, landed, dead, moves>>

\* On to the next record of the batch, or back to the top of the loop.
Advance(m) ==
    /\ next' = [next EXCEPT ![m] = @ + 1]
    /\ attempt' = [attempt EXCEPT ![m] = 1]
    /\ Goto(m, IF next[m] + 1 < batchEnd[m] THEN "attempt" ELSE "poll")
    /\ UNCHANGED batchEnd

AfterFailure(m) == IF attempt[m] < MaxAttempts THEN "backoff" ELSE "dead_letter"

\* The record decodes to a request, which PlaceOrderTx does not refuse.
Placeable(k) == k \notin Poison

\* PlaceRecord.  PlaceOrderTx may return an error for an order it committed; a
\* record that is seen again is answered with the order it has.
Attempt(m) ==
    /\ step[m] = "attempt"
    /\ \/ /\ Placeable(next[m])
          /\ landed' = landed \cup {next[m]}
          /\ Goto(m, "commit")
       \/ /\ Placeable(next[m])
          /\ landed' = landed \cup {next[m]}
          /\ Goto(m, AfterFailure(m))
       \/ /\ Goto(m, AfterFailure(m))
          /\ UNCHANGED landed
    /\ UNCHANGED <<broker, owner, position, next, batchEnd, attempt, dead, abandoned, moves>>

\* Faulty variant: the attempts are not counted.
BackoffUncounted(m) ==
    /\ step[m] = "backoff"
    /\ Goto(m, "attempt")
    /\ UNCHANGED <<broker, owner, position, next, batchEnd, attempt, effects, moves>>

\* The timer fires, or the 5 s of the record are over.
Backoff(m) ==
    /\ step[m] = "backoff"
    /\ \/ /\ Goto(m, "attempt")
          /\ attempt' = [attempt EXCEPT ![m] = @ + 1]
          /\ UNCHANGED <<next, batchEnd, abandoned>>
       \/ Advance(m) /\ Abandon({next[m]})
    /\ UNCHANGED <<broker, owner, position, landed, dead, moves>>

\* ProduceSync to the dead-letter topic.  Its error leaves the record uncommitted
\* and the loop goes on with the next one.
DeadLetter(m) ==
    /\ step[m] = "dead_letter"
    /\ \/ /\ dead' = dead \cup {next[m]}
          /\ Goto(m, "commit")
          /\ UNCHANGED <<next, batchEnd, attempt, abandoned>>
       \/ /\ dead' \in {dead, dead \cup {next[m]}}
          /\ Advance(m)
          /\ Abandon({next[m]})
    /\ UNCHANGED <<broker, owner, position, landed, moves>>

\* Faulty variant: the position of the client is committed, not the record.
CommitPosition(m) ==
    /\ step[m] = "commit"
    /\ committed' \in {committed, position[m]}
    /\ Advance(m)
    /\ UNCHANGED <<end, owner, position, effects, moves>>

\* CommitProcessed.  An error, of a commit that was made or not, is only logged.
Commit(m) ==
    /\ step[m] = "commit"
    /\ committed' \in {committed, next[m] + 1}
    /\ Advance(m)
    /\ UNCHANGED <<end, owner, position, effects, moves>>

-------------------------------------------------------------------------------
(* The lag gauge.  kadm fetches the committed offset and the log end in two *)
(* requests, whose order is kadm's own; both may change in between.         *)

\* Faulty variant: what the running consumer has fetched counts as committed.
CommittedAsFetched == IF owner = NoMember THEN committed ELSE position[owner]

CommittedOffset == committed

FetchFirst ==
    /\ scrape = NoScrape
    /\ scrape' \in {Fetched("end", end, end), Fetched("committed", CommittedOffset, end)}
    /\ UNCHANGED group

\* A commit beyond the log end that was read is no lag.
Lag(e, c) == IF e > c THEN e - c ELSE 0

\* What a scrape can show now that has one offset: the lag with the other one, or
\* -1 when the broker did not answer in the 2 s of a scrape.
LagGauge ==
    {-1} \cup (IF scrape.has = "end" THEN {Lag(scrape.offset, CommittedOffset)} ELSE {})
         \cup (IF scrape.has = "committed" THEN {Lag(end, scrape.offset)} ELSE {})

\* The other offset is there, or the deadline is.
ShowLag ==
    /\ scrape # NoScrape
    /\ scrape' = NoScrape
    /\ UNCHANGED group

-------------------------------------------------------------------------------
\* The process of a member dies, or is shut down between two batches.
Crash(m) ==
    /\ step[m] # "down"
    /\ moves < MaxMoves
    /\ moves' = moves + 1
    /\ Goto(m, "down")
    /\ owner' = IF owner = m THEN NoMember ELSE owner
    /\ UNCHANGED <<broker, position, next, batchEnd, attempt, effects>>

Restart(m) ==
    /\ step[m] = "down"
    /\ Goto(m, "poll")
    /\ UNCHANGED <<broker, owner, position, next, batchEnd, attempt, effects, moves>>

\* The coordinator assigns the partition; what m was handling it goes on with.
TakeOver(m) ==
    /\ owner' = m
    /\ position' = [position EXCEPT ![m] = committed]
    /\ UNCHANGED <<broker, loop, effects>>

Assign(m) ==
    /\ owner = NoMember
    /\ step[m] # "down"
    /\ TakeOver(m)
    /\ UNCHANGED moves

\* A rebalance takes the partition from a live member.
Rebalance(m) ==
    /\ owner \notin {NoMember, m}
    /\ step[m] # "down"
    /\ moves < MaxMoves
    /\ moves' = moves + 1
    /\ TakeOver(m)

-------------------------------------------------------------------------------
Loop(m) == Poll(m) \/ Attempt(m) \/ Backoff(m) \/ DeadLetter(m) \/ Commit(m)

GroupNext ==
    \/ Produce
    \/ \E m \in Members : Loop(m) \/ Crash(m) \/ Restart(m) \/ Assign(m) \/ Rebalance(m)

Next == \/ GroupNext /\ UNCHANGED scrape
        \/ FetchFirst \/ ShowLag

Spec == Init /\ [][Next]_vars

(***************************************************************************)
(* A live loop goes on: its waits are timers and calls with a deadline.  A *)
(* process that died is started again, and the coordinator assigns a       *)
(* partition that nobody has.                                              *)
(***************************************************************************)
FairSpec ==
    /\ Spec
    /\ \A m \in Members : WF_group(Loop(m)) /\ WF_group(Restart(m))
    /\ WF_group(\E m \in Members : Assign(m))

-------------------------------------------------------------------------------
\* The shape of the state; the attempts never exceed the policy's.
TypeOK ==
    /\ end \in Bounds
    /\ committed \in 0..end
    /\ owner \in Members \cup {NoMember}
    /\ position \in [Members -> 0..end]
    /\ step \in [Members -> Steps]
    /\ next \in [Members -> 0..end]
    /\ batchEnd \in [Members -> 0..end]
    /\ attempt \in [Members -> 1..MaxAttempts]
    /\ landed \in SUBSET Offsets
    /\ dead \in SUBSET Offsets
    /\ abandoned \in SUBSET Offsets
    /\ moves \in 0..MaxMoves

\* A record below the committed offset, which no member will ever fetch again, is
\* in MySQL or in the dead-letter topic (p2_commit.go:23-24, m04-mq.md:30), or an
\* error of its own made the loop go past it: never a crash, a rebalance, a late
\* commit or the fate of another record.
NoSilentLoss == \A k \in 0..(committed - 1) : k \in Accounted

\* The lag on /metrics does not hide work: whatever a scrape shows but -1, a record that
\* was in the log when it asked first and is not accounted for when it shows it is among
\* the last so many of them, although the members go on and the commits go up and down
\* between its two requests (p4_lag.go:37-38: no counter that drifts from the commits).
LagCoversBacklog ==
    \A lag \in LagGauge \ {-1} : \A k \in 0..(scrape.logged - 1) :
        k \notin Accounted => k >= scrape.logged - lag

\* A loop that is not between batches works on a record of its batch, and was
\* about to commit it only after it was placed or dead-lettered.
InBatch(m) ==
    step[m] \in {"attempt", "backoff", "dead_letter", "commit"} =>
        /\ next[m] < batchEnd[m]
        /\ step[m] = "commit" => next[m] \in Handled
        /\ step[m] = "backoff" => attempt[m] < MaxAttempts

\* What the owner has fetched is accounted for or still ahead in its batch, and all that
\* lies before the record a member is at is accounted for: nothing is lost in memory,
\* however often the partition moved while the members worked.
NothingDropped(m) ==
    /\ \A k \in 0..(next[m] - 1) : k \in Accounted
    /\ owner = m =>
          /\ step[m] # "down"
          /\ \A k \in 0..(position[m] - 1) :
                \/ k \in Accounted
                \/ step[m] # "poll" /\ k \in next[m]..(batchEnd[m] - 1)

\* What a scrape read first stays true of the log: the end lies behind, and what the
\* committed offset had passed stays accounted for.
ScrapeIsSound ==
    /\ scrape \in [has : {"nothing", "end", "committed"}, offset : 0..end, logged : 0..end]
    /\ scrape.has = "end" => scrape.offset = scrape.logged
    /\ scrape.has = "committed" => \A k \in 0..(scrape.offset - 1) : k \in Accounted

\* The inductive invariant of BackgroundProofs.
LoopInv ==
    /\ TypeOK
    /\ NoSilentLoss
    /\ \A m \in Members : InBatch(m) /\ NothingDropped(m)

IndInv == LoopInv /\ ScrapeIsSound

\* Every record ends in MySQL, in the dead-letter topic or in the log of an error, a
\* poisoned one does not hold up those behind it, and no move of the partition
\* strands one.
EveryRecordHandled == \A k \in Offsets : (k < end) ~> (k \in Accounted)
===============================================================================
