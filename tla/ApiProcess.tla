----------------------------- MODULE ApiProcess -----------------------------
(***************************************************************************)
(* An api process from its overload gate to its shutdown (cmd/api and      *)
(* package overload): a request of the write path passes the token bucket  *)
(* and the admission slots before its handler; the consumer loop works on  *)
(* batches; a signal starts the five shutdown steps under one deadline.    *)
(*                                                                         *)
(* Time is counted in ticks in which the bucket gains Rate tokens, so that *)
(* tokens are whole; the fractions of the code's floats are left out.  The *)
(* wait budget of Acquire may end at any time.  What handlers and records  *)
(* do is the business of the other modules; here they take time, and a     *)
(* handler may hang.                                                       *)
(***************************************************************************)
EXTENDS Integers, FiniteSets

CONSTANTS Requests, Capacity, BucketCapacity, Rate,
          MaxTime,   \* bound: ticks
          Backlog    \* bound: records in Kafka

ASSUME ApiAssumption == /\ IsFiniteSet(Requests)
                        /\ Capacity \in Nat \ {0} /\ BucketCapacity \in Nat
                        /\ Rate \in Nat /\ MaxTime \in Nat /\ Backlog \in Nat

VARIABLES clock, tokens, last,   \* TokenBucket, and the clock it reads
          eager,                 \* history: a bucket that is filled at every tick
          call,                  \* where each request is
          slots, inFlight,       \* Admission: the channel and the counter
          batch, backlog,        \* records the consumer holds, and has not polled
          loop,                  \* where the consumer loop is
          accepting,             \* a connection may still bring a request
          at,                    \* the shutdown step that runs, 0 before the signal
          expired,               \* the shutdown deadline has passed
          failed                 \* ShutdownReport.Failed, 0 if none

bucketVars == <<clock, tokens, last, eager>>
callVars == <<call, slots, inFlight>>
loopVars == <<batch, backlog, loop>>
stopVars == <<accepting, at, expired, failed>>
vars == <<bucketVars, callVars, loopVars, stopVars>>

StopHTTP == 1  DrainInflight == 2  StopConsumer == 3  FlushProducer == 4  CloseDeps == 5
Exited == 6

Lesser(a, b) == IF a < b THEN a ELSE b

Init == /\ clock = 0 /\ last = 0
        /\ tokens = BucketCapacity /\ eager = BucketCapacity
        /\ call = [r \in Requests |-> "new"]
        /\ slots = 0 /\ inFlight = 0
        /\ batch = 0 /\ backlog = Backlog /\ loop = "top"
        /\ accepting = TRUE /\ at = 0 /\ expired = FALSE /\ failed = 0

Running == at < Exited
Goto(r, s) == call' = [call EXCEPT ![r] = s]

-------------------------------------------------------------------------------
(***************************************************************************)
(* TokenBucket.                                                            *)
(***************************************************************************)
Tick == /\ clock < MaxTime
        /\ clock' = clock + 1
        /\ eager' = Lesser(eager + Rate, BucketCapacity)
        /\ UNCHANGED <<tokens, last, callVars, loopVars, stopVars>>

Tokens == Lesser(tokens + (clock - last) * Rate, BucketCapacity)

\* Faulty variant: "last" is not moved.
AllowForgetful(r) ==
    /\ Running /\ accepting /\ call[r] = "new"
    /\ IF Tokens >= 1
       THEN Goto(r, "waiting") /\ tokens' = Tokens - 1 /\ eager' = eager - 1
       ELSE Goto(r, "refused") /\ tokens' = Tokens /\ UNCHANGED eager
    /\ UNCHANGED <<clock, last, slots, inFlight, loopVars, stopVars>>

\* Allow, and what the gate does with it.  The signal does not close the gate: requests
\* come in until srv.Shutdown has closed the listener and the idle connections.
Allow(r) ==
    /\ Running /\ accepting /\ call[r] = "new"
    /\ IF Tokens >= 1
       THEN Goto(r, "waiting") /\ tokens' = Tokens - 1 /\ eager' = eager - 1
       ELSE Goto(r, "refused") /\ tokens' = Tokens /\ UNCHANGED eager
    /\ last' = clock
    /\ UNCHANGED <<clock, slots, inFlight, loopVars, stopVars>>

-------------------------------------------------------------------------------
(***************************************************************************)
(* Admission.  Acquire and Release touch the channel, then the counter.    *)
(***************************************************************************)
SlotFree == slots < Capacity

Acquire(r) ==
    /\ Running /\ call[r] = "waiting" /\ SlotFree
    /\ slots' = slots + 1
    /\ Goto(r, "slotted")
    /\ UNCHANGED <<inFlight, bucketVars, loopVars, stopVars>>

Count(r) ==
    /\ Running /\ call[r] = "slotted"
    /\ inFlight' = inFlight + 1
    /\ Goto(r, "serving")
    /\ UNCHANGED <<slots, bucketVars, loopVars, stopVars>>

\* The wait budget or the request's context ends; it may, although a slot is free.
GiveUp(r) ==
    /\ Running /\ call[r] = "waiting"
    /\ Goto(r, "refused")
    /\ UNCHANGED <<slots, inFlight, bucketVars, loopVars, stopVars>>

\* The handler ends, by a panic too, and Release runs.
FreeSlot(r) ==
    /\ Running /\ call[r] = "serving"
    /\ slots' = slots - 1
    /\ Goto(r, "releasing")
    /\ UNCHANGED <<inFlight, bucketVars, loopVars, stopVars>>

Uncount(r) ==
    /\ Running /\ call[r] = "releasing"
    /\ inFlight' = inFlight - 1
    /\ Goto(r, "answered")
    /\ UNCHANGED <<slots, bucketVars, loopVars, stopVars>>

-------------------------------------------------------------------------------
(***************************************************************************)
(* The consumer loop: it looks at its context between batches.             *)
(***************************************************************************)
LoopTop ==
    /\ Running /\ loop = "top"
    /\ loop' = IF at >= StopConsumer THEN "stopped" ELSE "polling"
    /\ UNCHANGED <<batch, backlog, bucketVars, callVars, stopVars>>

\* PollBatch returns records, or its context ends.
PollBatch ==
    /\ Running /\ loop = "polling"
    /\ \/ \E n \in 1..backlog : /\ batch' = n /\ backlog' = backlog - n
                                /\ loop' = "processing"
       \/ loop' = "top" /\ UNCHANGED <<batch, backlog>>
    /\ UNCHANGED <<bucketVars, callVars, stopVars>>

ProcessRecord ==
    /\ Running /\ loop = "processing"
    /\ batch' = batch - 1
    /\ loop' = IF batch = 1 THEN "top" ELSE "processing"
    /\ UNCHANGED <<backlog, bucketVars, callVars, stopVars>>

-------------------------------------------------------------------------------
(***************************************************************************)
(* Shutdown.                                                               *)
(***************************************************************************)
Active(r) == call[r] \in {"waiting", "slotted", "serving", "releasing"}

Signal == /\ at = 0
          /\ at' = StopHTTP
          /\ UNCHANGED <<accepting, expired, failed, bucketVars, callVars, loopVars>>

\* srv.Shutdown, before it waits for the requests it has let in.
CloseListener == /\ at = StopHTTP /\ accepting
                 /\ accepting' = FALSE
                 /\ UNCHANGED <<at, expired, failed, bucketVars, callVars, loopVars>>

Deadline == /\ at \in StopHTTP..CloseDeps /\ ~expired
            /\ expired' = TRUE
            /\ UNCHANGED <<accepting, at, failed, bucketVars, callVars, loopVars>>

\* Faulty variant: the loop is told to stop and not waited for.
NotAwaited == TRUE
Idle == \A r \in Requests : ~Active(r)
LoopDone == loop = "stopped"

\* What srv.Shutdown waits for; the error of closing the listener it keeps until then.
ServerIdle == ~accepting /\ Idle

\* Faulty variant: srv.Shutdown on a context without deadline.
StepFailsLate == \/ expired /\ at \in DrainInflight..FlushProducer
                 \/ at = StopHTTP /\ ServerIdle
                 \/ at = CloseDeps

\* When the function of a step may return nil, and when it may return an error:
\* that of the context, of the listener, or of a Close.
StepDone == /\ at = StopHTTP => ServerIdle
            /\ at = DrainInflight => inFlight = 0
            /\ at = StopConsumer => LoopDone

StepFails == \/ expired /\ at \in StopHTTP..FlushProducer
             \/ at = StopHTTP /\ ServerIdle
             \/ at = CloseDeps

Fail(step) == failed' = step /\ at' = Exited

\* The deadline is looked at between the steps, not after the last one.
NextStep ==
    /\ at \in StopHTTP..CloseDeps
    /\ \/ /\ StepDone
          /\ IF expired /\ at < CloseDeps
             THEN Fail(at + 1)
             ELSE at' = at + 1 /\ UNCHANGED failed
       \/ StepFails /\ Fail(at)
    /\ UNCHANGED <<accepting, expired, bucketVars, callVars, loopVars>>

-------------------------------------------------------------------------------
Next ==
    \/ Tick \/ Signal \/ CloseListener \/ Deadline \/ NextStep
    \/ LoopTop \/ PollBatch \/ ProcessRecord
    \/ \E r \in Requests : \/ Allow(r) \/ Acquire(r) \/ Count(r) \/ GiveUp(r)
                           \/ FreeSlot(r) \/ Uncount(r)

\* The main goroutine runs and the timer of the deadline fires.  Nothing is assumed
\* of handlers and records: they may hang.
Fairness == WF_vars(Deadline) /\ WF_vars(NextStep)

Spec == Init /\ [][Next]_vars
FairSpec == Spec /\ Fairness

-------------------------------------------------------------------------------
\* The shape of the state: no more tokens than the bucket holds, no negative count.
TypeOK ==
    /\ clock \in 0..MaxTime /\ last \in 0..clock
    /\ tokens \in 0..BucketCapacity /\ eager \in 0..BucketCapacity
    /\ call \in [Requests -> {"new", "refused", "waiting", "slotted", "serving",
                              "releasing", "answered"}]
    /\ slots \in Nat /\ inFlight \in 0..Cardinality(Requests)
    /\ batch \in 0..Backlog /\ backlog \in 0..Backlog
    /\ loop \in {"top", "polling", "processing", "stopped"}
    /\ accepting \in BOOLEAN
    /\ at \in 0..Exited /\ expired \in BOOLEAN /\ failed \in 0..CloseDeps

\* A bucket that is refilled when somebody looks is worth one that a ticker fills
\* (p2_bucket.go:13-15).
RefillsAreExact == Tokens = eager

\* No more handlers than slots run, whatever the order of channel and counter
\* (p1_admission.go:10-13).
ServedWithinCapacity ==
    Cardinality({r \in Requests : call[r] \in {"slotted", "serving"}}) <= Capacity

\* No slot leaks, and Stats counts more calls than there are slots only by those that
\* have given theirs back and are not yet off the counter (p1_admission.go:14-16, 58-62).
SlotsAccounted ==
    /\ slots = Cardinality({r \in Requests : call[r] \in {"slotted", "serving"}})
    /\ inFlight <= Capacity + Cardinality({r \in Requests : call[r] = "releasing"})

\* What the gate keeps in every state, before and during the shutdown.
Inv == TypeOK /\ RefillsAreExact /\ ServedWithinCapacity /\ SlotsAccounted

\* Nobody is left to use what close-deps closes: its four predecessors together see
\* to it, not any one of them (p4_shutdown.go:9-13).
DepsOutliveWork ==
    at = CloseDeps => loop = "stopped" /\ \A r \in Requests : ~Active(r)

\* Work is cut off by the end of the process only if the deadline passed: a request
\* that was let in, or a batch that was polled (main.go:683-701).  The batch, but no
\* request, is cut off also by a listener that does not close: its error ends the
\* sequence before the loop is told to stop.
CutOffOnlyByDeadline ==
    at = Exited /\ ~expired => /\ batch = 0 \/ failed = StopHTTP
                              /\ \A r \in Requests : ~Active(r)

\* The five steps of the shutdown, taken together, let nothing fall between them.
StopsInOrder == DepsOutliveWork /\ CutOffOnlyByDeadline

\* A signal ends the process, although handlers and records hang.
EveryStopEnds == at = StopHTTP ~> at = Exited
===============================================================================
