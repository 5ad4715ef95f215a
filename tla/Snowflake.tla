------------------------------ MODULE Snowflake ------------------------------
(***************************************************************************)
(* Order ids: idgen.Node packs a millisecond, a node number and a sequence *)
(* number into one integer, under a mutex.  NextID is one step, but for    *)
(* the busy wait of a caller that used up the millisecond: it keeps the    *)
(* mutex, and the clock goes on, forwards or back, while it waits.  A call *)
(* that reads a clock behind lastTs returns an error and changes nothing.  *)
(*                                                                         *)
(* The clock is the environment's and may step back at any time.  Nothing  *)
(* in a Node outlives its process, and nothing tells a process which node  *)
(* numbers others have (NODE_ID is 1 unless it is set).  A life is what a  *)
(* process does from one start to the next.  The width of the timestamp    *)
(* (41 bits, 69 years) is left out.                                        *)
(***************************************************************************)
EXTENDS Integers, Sequences

CONSTANTS
  MaxNodeID,   \* node numbers are 0..MaxNodeID
  MaxSeq,      \* sequence numbers are 0..MaxSeq
  Epoch,       \* the millisecond that timestamps count from
  Processes,   \* the processes that make ids
  MaxClock,    \* bound: the last millisecond of the clock
  MaxBack,     \* bound: how often the clock steps back
  MaxRestarts, \* bound: how often each process starts again
  MaxIds       \* bound: how many ids are made, before a call is let in

NodeIDs == 0..MaxNodeID
Seqs == 0..MaxSeq

ASSUME SnowflakeAssumption ==
  /\ MaxNodeID \in Nat /\ MaxSeq \in Nat /\ Epoch \in Nat
  /\ MaxClock \in Nat /\ MaxBack \in Nat /\ MaxRestarts \in Nat /\ MaxIds \in Nat

VARIABLES
  clock,     \* the clock of the machines, in milliseconds
  backs,     \* how often it stepped back
  number,    \* Node.nodeID of each process
  life,      \* how often it has started again
  lastTs,    \* Node.lastTs, -1 in a fresh process
  seq,       \* Node.seq
  waiting,   \* the processes whose mutex a caller holds in the busy wait
  issued     \* history: the ids in the order they were made

idVars == <<clock, backs, number, life, lastTs, seq, waiting, issued>>

\* Shifts and bitwise or of fields that do not overlap.
Pack(ts, node, s) == ((ts - Epoch) * (MaxNodeID + 1) + node) * (MaxSeq + 1) + s

Id(made) == Pack(made.ts, made.node, made.seq)

Ids == [proc : Processes, life : Nat, node : NodeIDs, ts : Nat, seq : Seqs]

IdTypeOK ==
  /\ clock \in Nat /\ backs \in Nat
  /\ number \in [Processes -> NodeIDs]
  /\ life \in [Processes -> Nat]
  /\ lastTs \in [Processes -> Nat \cup {-1}]
  /\ seq \in [Processes -> Seqs]
  /\ waiting \subseteq Processes
  /\ issued \in Seq(Ids)

IdInit ==
  /\ clock \in 0..MaxClock
  /\ backs = 0
  /\ number \in [Processes -> NodeIDs]
  /\ life = [p \in Processes |-> 0]
  /\ lastTs = [p \in Processes |-> -1]
  /\ seq = [p \in Processes |-> 0]
  /\ waiting = {}
  /\ issued = <<>>

-----------------------------------------------------------------------------
(* NextID                                                                  *)

\* n.mu is free.
Enters(p) == p \notin waiting /\ Len(issued) < MaxIds

\* n.lastTs = now, and the id is returned.
Issue(p, s) ==
  /\ lastTs' = [lastTs EXCEPT ![p] = clock]
  /\ seq' = [seq EXCEPT ![p] = s]
  /\ issued' = Append(issued, [proc |-> p, life |-> life[p], node |-> number[p],
                               ts |-> clock, seq |-> s])
  /\ UNCHANGED <<clock, backs, number, life>>

\* Faulty variant: a clock that stepped back is not refused.
NewMillisecondOrOlder(p) ==
  /\ Enters(p)
  /\ clock # lastTs[p]
  /\ Issue(p, 0)
  /\ UNCHANGED waiting

\* A later millisecond starts at sequence number zero.
NewMillisecond(p) ==
  /\ Enters(p)
  /\ clock > lastTs[p]
  /\ Issue(p, 0)
  /\ UNCHANGED waiting

NextSeq(s) == (s + 1) % (MaxSeq + 1)

\* The same millisecond goes on counting.
SameMillisecond(p) ==
  /\ Enters(p)
  /\ clock = lastTs[p]
  /\ NextSeq(seq[p]) # 0
  /\ Issue(p, NextSeq(seq[p]))
  /\ UNCHANGED waiting

\* The millisecond is used up: the caller starts the busy wait.
UsedUp(p) ==
  /\ Enters(p)
  /\ clock = lastTs[p] /\ lastTs[p] < MaxClock
  /\ NextSeq(seq[p]) = 0
  /\ seq' = [seq EXCEPT ![p] = 0]
  /\ waiting' = waiting \cup {p}
  /\ UNCHANGED <<clock, backs, number, life, lastTs, issued>>

\* Faulty variants: the busy wait ends with the millisecond it should outwait,
\* and it never reads the clock again.
WaitOverAtOnce(p) ==
  /\ p \in waiting
  /\ clock >= lastTs[p]
  /\ Issue(p, seq[p])
  /\ waiting' = waiting \ {p}
WaitOverUnread(p) == p \in waiting /\ lastTs[p] > lastTs[p] /\ Issue(p, seq[p]) /\ UNCHANGED waiting

\* The busy wait reads a later millisecond.
WaitOver(p) ==
  /\ p \in waiting
  /\ clock > lastTs[p]
  /\ Issue(p, seq[p])
  /\ waiting' = waiting \ {p}

-----------------------------------------------------------------------------
(* The environment                                                         *)

Tick ==
  /\ clock < MaxClock
  /\ clock' = clock + 1
  /\ UNCHANGED <<backs, number, life, lastTs, seq, waiting, issued>>

\* Nobody asks the processes before the clock is set back.
StepBack ==
  /\ backs < MaxBack
  /\ clock' \in 0..(clock - 1)
  /\ backs' = backs + 1
  /\ UNCHANGED <<number, life, lastTs, seq, waiting, issued>>

\* Process p dies, at any time, and NewNode makes its successor, with the node
\* number that it is configured with then.
Restart(p) ==
  /\ life[p] < MaxRestarts
  /\ life' = [life EXCEPT ![p] = @ + 1]
  /\ \E k \in NodeIDs : number' = [number EXCEPT ![p] = k]
  /\ lastTs' = [lastTs EXCEPT ![p] = -1]
  /\ seq' = [seq EXCEPT ![p] = 0]
  /\ waiting' = waiting \ {p}
  /\ UNCHANGED <<clock, backs, issued>>

IdNext ==
  \/ \E p \in Processes : \/ NewMillisecond(p) \/ SameMillisecond(p)
                          \/ UsedUp(p) \/ WaitOver(p) \/ Restart(p)
  \/ Tick \/ StepBack

IdSpec == IdInit /\ [][IdNext]_idVars

\* Clocks go on, and a goroutine in the busy wait is scheduled.
IdFairSpec == IdSpec /\ WF_idVars(Tick) /\ \A p \in Processes : WF_idVars(WaitOver(p))

-----------------------------------------------------------------------------
(* Properties                                                              *)

SameLife(i, j) == issued[i].proc = issued[j].proc /\ issued[i].life = issued[j].life

\* An id is made twice only by two lives that have one node number, which means
\* two processes left at the default, or a process and its successor after the
\* clock was set back or within one millisecond (snowflake.go:43 promises that
\* ids do not conflict across processes).
UniqueIds ==
  \A i, j \in DOMAIN issued :
    i # j /\ Id(issued[i]) = Id(issued[j]) =>
      /\ issued[i].node = issued[j].node /\ issued[i].ts = issued[j].ts
      /\ ~SameLife(i, j)

\* The ids that a process makes in one life grow, over a used-up millisecond
\* and whatever the clock does (snowflake.go:43: monotonic).
GrowingIds ==
  \A i, j \in DOMAIN issued : i < j /\ SameLife(i, j) => Id(issued[i]) < Id(issued[j])

\* What makes GrowingIds inductive: every id lies behind what its process
\* holds, unless that has started again since.
Behind ==
  \A i \in DOMAIN issued :
    LET made == issued[i]
        p == made.proc
    IN  \/ made.life < life[p]
        \/ /\ made.life = life[p] /\ made.node = number[p]
           /\ \/ made.ts < lastTs[p]
              \/ made.ts = lastTs[p] /\ (p \in waiting \/ made.seq <= seq[p])

IdInv == IdTypeOK /\ GrowingIds /\ Behind

\* A caller that used up the millisecond gets its id once the clock has
\* caught up, and gives the mutex back, or its process dies.
EveryWaitEnds == \A p \in Processes : p \in waiting ~> p \notin waiting
=============================================================================
