---------------------------- MODULE OverloadProofs ----------------------------
(***************************************************************************)
(* The protection of internal/overload, that is the gate and the shutdown  *)
(* of an api process and the circuit breaker, and the bucketed stock of    *)
(* internal/bucket.  The three share no state; they are proved in one      *)
(* place.                                                                  *)
(*                                                                         *)
(* The gate keeps its promises, and the shutdown lets nothing fall between *)
(* its steps, for every number of requests and records, every capacity,    *)
(* and whichever step the deadline hits.                                   *)
(*                                                                         *)
(* The breaker's bookkeeping is right for any number of goroutines, any    *)
(* threshold and any number of probes, however late the results come in.   *)
(* BreakerInv is inductive as it stands: a step adds at most one probe, and *)
(* one that runs, and takes off at most one, whose goroutine is done.      *)
(*                                                                         *)
(* The buckets keep their books for any orders, each with its own number   *)
(* of buckets and of probes, any spreads, each of a width of its own, and  *)
(* any sales elsewhere.  BucketIndInv adds what the properties need of the *)
(* way there: that a call at work knows the bucket that paid, where the    *)
(* stock of each read went, that the buckets of the last spread hold no    *)
(* more than that spread handed out, and that the buckets a call has       *)
(* visited in vain stay short.                                             *)
(***************************************************************************)
EXTENDS ApiProcess, Breaker, BucketStock, UnitCounting, FiniteSetTheorems, TLAPS

-------------------------------------------------------------------------------
(* The gate and the shutdown                                               *)

Slotted == {r \in Requests : call[r] \in {"slotted", "serving"}}
Tallied == {r \in Requests : call[r] \in {"serving", "releasing"}}

\* The channel and the counter, each in step with the calls that have been there.
Admitted == /\ slots = Cardinality(Slotted) /\ slots <= Capacity
            /\ inFlight = Cardinality(Tallied)

\* The loop holds records only while it works on them.
BatchInWork == batch = 0 <=> loop # "processing"

\* What is left behind by each step that came to its end.
StepsBehind ==
    /\ at \in DrainInflight..CloseDeps => ServerIdle
    /\ at \in FlushProducer..CloseDeps => LoopDone
    /\ at = Exited /\ ~expired => Idle /\ (LoopDone \/ failed = StopHTTP)

Shapes ==
    /\ clock \in 0..MaxTime /\ last \in 0..clock
    /\ tokens \in 0..BucketCapacity /\ eager \in 0..BucketCapacity
    /\ call \in [Requests -> {"new", "refused", "waiting", "slotted", "serving",
                              "releasing", "answered"}]
    /\ batch \in 0..Backlog /\ backlog \in 0..Backlog
    /\ loop \in {"top", "polling", "processing", "stopped"}
    /\ accepting \in BOOLEAN
    /\ at \in 0..Exited /\ expired \in BOOLEAN /\ failed \in 0..CloseDeps

IndInv == Shapes /\ RefillsAreExact /\ Admitted /\ BatchInWork /\ StepsBehind

-------------------------------------------------------------------------------
USE DEF StopHTTP, DrainInflight, StopConsumer, FlushProducer, CloseDeps, Exited

LEMMA SetsAreFinite ==
    /\ IsFiniteSet(Slotted) /\ Cardinality(Slotted) \in Nat
    /\ IsFiniteSet(Tallied) /\ Cardinality(Tallied) \in Nat
    /\ Cardinality(Tallied) <= Cardinality(Requests) /\ Cardinality(Requests) \in Nat
<1>1. IsFiniteSet(Requests) /\ Slotted \in SUBSET Requests /\ Tallied \in SUBSET Requests
  BY ApiAssumption DEF ApiAssumption, Slotted, Tallied
<1> QED BY <1>1, FS_Subset, FS_CardinalityType

LEMMA InitEstablishes == Init => IndInv
<1> SUFFICES ASSUME Init PROVE IndInv
  OBVIOUS
<1>1. Slotted = {} /\ Tallied = {}
  BY DEF Init, Slotted, Tallied
<1>2. Admitted
  BY <1>1, FS_EmptySet, ApiAssumption DEF Init, Admitted, ApiAssumption
<1>3. RefillsAreExact
  BY ApiAssumption DEF Init, RefillsAreExact, Tokens, Lesser, ApiAssumption
<1>4. Shapes
  <2>1. /\ 0 \in 0..MaxTime /\ 0 \in 0..0 /\ BucketCapacity \in 0..BucketCapacity
        /\ 0 \in 0..Backlog /\ Backlog \in 0..Backlog /\ 0 \in 0..6 /\ 0 \in 0..5
    BY ApiAssumption DEF ApiAssumption
  <2>2. call \in [Requests -> {"new", "refused", "waiting", "slotted", "serving",
                              "releasing", "answered"}]
    BY DEF Init
  <2> QED BY <2>1, <2>2 DEF Init, Shapes
<1>5. BatchInWork /\ StepsBehind
  BY DEF Init, BatchInWork, StepsBehind
<1> QED BY <1>2, <1>3, <1>4, <1>5 DEF IndInv

-------------------------------------------------------------------------------
\* A bucket that a ticker fills is worth one that is filled when somebody asks.
LEMMA TickKeepsTokens ==
    ASSUME Shapes, RefillsAreExact, Tick
    PROVE  RefillsAreExact' /\ eager' \in 0..BucketCapacity
<1> DEFINE owed == (clock - last) * Rate
<1>1. /\ Rate \in Nat /\ BucketCapacity \in Nat
      /\ clock \in Nat /\ last \in Nat /\ tokens \in Nat /\ clock - last \in Nat
  BY ApiAssumption DEF ApiAssumption, Shapes
<1>2. owed \in Nat /\ (clock + 1 - last) * Rate = owed + Rate
  BY <1>1
<1>3. eager = Lesser(tokens + owed, BucketCapacity)
  BY DEF RefillsAreExact, Tokens
<1>4. eager' = Lesser(eager + Rate, BucketCapacity)
      /\ Tokens' = Lesser(tokens + (clock + 1 - last) * Rate, BucketCapacity)
  <2>1. tokens' = tokens /\ last' = last /\ clock' = clock + 1
    BY DEF Tick
  <2>2. Tokens' = Lesser(tokens + (clock + 1 - last) * Rate, BucketCapacity)
    BY <1>1, <2>1 DEF Tokens, Lesser
  <2> QED BY <2>2 DEF Tick
<1> HIDE DEF owed
<1>5. Lesser(Lesser(tokens + owed, BucketCapacity) + Rate, BucketCapacity)
        = Lesser(tokens + (owed + Rate), BucketCapacity)
  BY <1>1, <1>2 DEF Lesser
<1>6. RefillsAreExact'
  BY <1>2, <1>3, <1>4, <1>5 DEF RefillsAreExact
<1>7. eager \in 0..BucketCapacity
  BY DEF Shapes
<1>8. eager' \in 0..BucketCapacity
  BY <1>1, <1>4, <1>7 DEF Lesser
<1> QED BY <1>6, <1>8

LEMMA AllowKeepsTokens ==
    ASSUME Shapes, RefillsAreExact, NEW r \in Requests, Allow(r)
    PROVE  /\ RefillsAreExact'
           /\ tokens' \in 0..BucketCapacity /\ eager' \in 0..BucketCapacity
<1>1. /\ Rate \in Nat /\ BucketCapacity \in Nat /\ clock \in Nat
      /\ eager \in 0..BucketCapacity
  BY ApiAssumption DEF ApiAssumption, Shapes
<1>2. Tokens = eager /\ clock' = clock /\ last' = clock
  BY DEF RefillsAreExact, Allow
<1>3. tokens' = eager' /\ eager' \in 0..BucketCapacity
  BY <1>1, <1>2 DEF Allow
<1>4. Tokens' = Lesser(tokens' + (clock - clock) * Rate, BucketCapacity)
  BY <1>2 DEF Tokens, Lesser
<1>5. (clock - clock) * Rate = 0
  BY <1>1
<1>6. \A n \in 0..BucketCapacity : n + 0 = n /\ Lesser(n, BucketCapacity) = n
  BY <1>1 DEF Lesser
<1>7. Tokens' = eager'
  BY <1>3, <1>4, <1>5, <1>6 DEF Lesser
<1> QED BY <1>3, <1>7 DEF RefillsAreExact

LEMMA TokensStand ==
    ASSUME RefillsAreExact, UNCHANGED bucketVars
    PROVE  RefillsAreExact'
  BY DEF RefillsAreExact, Tokens, Lesser, bucketVars

-------------------------------------------------------------------------------
LEMMA TickKeeps == ASSUME IndInv, Tick PROVE IndInv'
<1>1. RefillsAreExact' /\ eager' \in 0..BucketCapacity
  BY TickKeepsTokens DEF IndInv
<1> QED BY <1>1, ApiAssumption
        DEF IndInv, Shapes, Admitted, Slotted, Tallied, BatchInWork, StepsBehind,
            ServerIdle, Idle, Active, LoopDone, Tick, callVars, loopVars, stopVars, ApiAssumption

\* A request comes in only as long as the server accepts.
LEMMA AllowKeeps == ASSUME IndInv, NEW r \in Requests, Allow(r) PROVE IndInv'
<1>1. /\ RefillsAreExact'
      /\ tokens' \in 0..BucketCapacity /\ eager' \in 0..BucketCapacity
  BY AllowKeepsTokens DEF IndInv
<1>2. PICK s \in {"waiting", "refused"} : call' = [call EXCEPT ![r] = s]
  BY DEF Allow, Goto
<1>3. Slotted' = Slotted /\ Tallied' = Tallied
  BY <1>2 DEF Allow, Slotted, Tallied, IndInv, Shapes
<1>4. Shapes'
  BY <1>1, <1>2 DEF Allow, IndInv, Shapes, loopVars, stopVars
<1> QED BY <1>1, <1>3, <1>4
        DEF Allow, IndInv, Shapes, Admitted, BatchInWork, StepsBehind, ServerIdle, Running,
            loopVars, stopVars

\* The steps of a request inside the gate, by what they do to the two sets.
GateStep(r) == Acquire(r) \/ Count(r) \/ GiveUp(r) \/ FreeSlot(r) \/ Uncount(r)

LEMMA GateKeepsShapes ==
    ASSUME IndInv, NEW r \in Requests, GateStep(r)
    PROVE  Shapes' /\ RefillsAreExact' /\ BatchInWork' /\ StepsBehind'
<1>1. UNCHANGED <<bucketVars, loopVars, stopVars>> /\ Running /\ Active(r)
  BY DEF GateStep, Acquire, Count, GiveUp, FreeSlot, Uncount, Active
<1>2. PICK s \in {"refused", "slotted", "serving", "releasing", "answered"} :
          call' = [call EXCEPT ![r] = s]
  BY DEF GateStep, Acquire, Count, GiveUp, FreeSlot, Uncount, Goto
<1>3. Shapes'
  BY <1>1, <1>2 DEF IndInv, Shapes, bucketVars, loopVars, stopVars
<1>4. ~Idle
  BY <1>1 DEF Idle
<1>5. StepsBehind'
  BY <1>1, <1>4 DEF IndInv, StepsBehind, ServerIdle, Running, Shapes, stopVars
<1> QED BY <1>1, <1>3, <1>5, TokensStand DEF IndInv, BatchInWork, loopVars

LEMMA GateKeepsCounts ==
    ASSUME IndInv, NEW r \in Requests, GateStep(r)
    PROVE  Admitted'
<1> USE SetsAreFinite
<1>1. call \in [Requests -> {"new", "refused", "waiting", "slotted", "serving",
                             "releasing", "answered"}]
  BY DEF IndInv, Shapes
<1>2. CASE Acquire(r)
  <2>1. r \notin Slotted /\ Slotted' = Slotted \cup {r} /\ Tallied' = Tallied
    BY <1>1, <1>2 DEF Acquire, Goto, Slotted, Tallied
  <2>2. Cardinality(Slotted') = Cardinality(Slotted) + 1
    BY <2>1, FS_AddElement
  <2> QED BY <1>2, <2>1, <2>2, ApiAssumption
          DEF Acquire, SlotFree, IndInv, Admitted, ApiAssumption
<1>3. CASE Count(r)
  <2>1. r \notin Tallied /\ Tallied' = Tallied \cup {r} /\ Slotted' = Slotted
    BY <1>1, <1>3 DEF Count, Goto, Slotted, Tallied
  <2>2. Cardinality(Tallied') = Cardinality(Tallied) + 1
    BY <2>1, FS_AddElement
  <2> QED BY <1>3, <2>1, <2>2 DEF Count, IndInv, Admitted
<1>4. CASE GiveUp(r)
  <2>1. Slotted' = Slotted /\ Tallied' = Tallied
    BY <1>1, <1>4 DEF GiveUp, Goto, Slotted, Tallied
  <2> QED BY <1>4, <2>1 DEF GiveUp, IndInv, Admitted
<1>5. CASE FreeSlot(r)
  <2>1. r \in Slotted /\ Slotted' = Slotted \ {r} /\ Tallied' = Tallied
    BY <1>1, <1>5 DEF FreeSlot, Goto, Slotted, Tallied
  <2>2. Cardinality(Slotted') = Cardinality(Slotted) - 1
    BY <2>1, FS_RemoveElement
  <2> QED BY <1>5, <2>1, <2>2, ApiAssumption
          DEF FreeSlot, IndInv, Admitted, ApiAssumption
<1>6. CASE Uncount(r)
  <2>1. r \in Tallied /\ Tallied' = Tallied \ {r} /\ Slotted' = Slotted
    BY <1>1, <1>6 DEF Uncount, Goto, Slotted, Tallied
  <2>2. Cardinality(Tallied') = Cardinality(Tallied) - 1
    BY <2>1, FS_RemoveElement
  <2> QED BY <1>6, <2>1, <2>2 DEF Uncount, IndInv, Admitted
<1> QED BY <1>2, <1>3, <1>4, <1>5, <1>6 DEF GateStep

-------------------------------------------------------------------------------
LEMMA LoopKeeps == ASSUME IndInv, LoopTop \/ PollBatch \/ ProcessRecord PROVE IndInv'
<1>1. UNCHANGED <<bucketVars, callVars, stopVars>> /\ Running /\ loop # "stopped"
  BY DEF LoopTop, PollBatch, ProcessRecord
<1>2. Backlog \in Nat
  BY ApiAssumption DEF ApiAssumption
<1>3. /\ batch' \in 0..Backlog /\ backlog' \in 0..Backlog
      /\ loop' \in {"top", "polling", "processing", "stopped"} /\ BatchInWork'
  <2>1. CASE LoopTop
    BY <2>1 DEF LoopTop, IndInv, Shapes, BatchInWork
  <2>2. CASE PollBatch
    BY <1>2, <2>2 DEF PollBatch, IndInv, Shapes, BatchInWork
  <2>3. CASE ProcessRecord
    BY <1>2, <2>3 DEF ProcessRecord, IndInv, Shapes, BatchInWork
  <2> QED BY <2>1, <2>2, <2>3
<1>4. Admitted' /\ RefillsAreExact'
  BY <1>1, TokensStand DEF IndInv, Admitted, Slotted, Tallied, callVars
<1>5. Shapes'
  BY <1>1, <1>3 DEF IndInv, Shapes, bucketVars, callVars, stopVars
<1>6. StepsBehind'
  <2>1. at' = at /\ expired' = expired /\ Idle' = Idle /\ at \in 0..5
    BY <1>1 DEF IndInv, Shapes, Running, Idle, Active, callVars, stopVars
  <2>2. ~LoopDone
    BY <1>1 DEF LoopDone
  <2>3. at \notin FlushProducer..CloseDeps /\ at # Exited
    BY <2>1, <2>2 DEF IndInv, StepsBehind
  <2>4. accepting' = accepting
    BY <1>1 DEF stopVars
  <2> QED BY <2>1, <2>3, <2>4 DEF IndInv, StepsBehind, ServerIdle
<1> QED BY <1>3, <1>4, <1>5, <1>6 DEF IndInv

LEMMA StopKeeps ==
    ASSUME IndInv, Signal \/ CloseListener \/ Deadline \/ NextStep
    PROVE  IndInv'
<1>1. UNCHANGED <<bucketVars, callVars, loopVars>>
  BY DEF Signal, CloseListener, Deadline, NextStep
<1>2. /\ accepting' \in BOOLEAN
      /\ at' \in 0..Exited /\ expired' \in BOOLEAN /\ failed' \in 0..CloseDeps
  <2>1. /\ accepting \in BOOLEAN
        /\ at \in 0..Exited /\ expired \in BOOLEAN /\ failed \in 0..CloseDeps
    BY DEF IndInv, Shapes
  <2>2. CASE Signal
    BY <2>1, <2>2 DEF Signal
  <2>3. CASE CloseListener
    BY <2>1, <2>3 DEF CloseListener
  <2>4. CASE Deadline
    BY <2>1, <2>4 DEF Deadline
  <2>5. CASE NextStep
    BY <2>1, <2>5 DEF NextStep, Fail
  <2> QED BY <2>2, <2>3, <2>4, <2>5
<1>3. /\ Idle' = Idle /\ LoopDone' = LoopDone
  BY <1>1 DEF Idle, Active, LoopDone, callVars, loopVars
<1>4. StepsBehind'
  <2>1. CASE Signal \/ CloseListener \/ Deadline
    BY <1>3, <2>1 DEF Signal, CloseListener, Deadline, IndInv, Shapes, StepsBehind, ServerIdle
  <2>2. CASE NextStep
    BY <1>3, <2>2 DEF NextStep, StepDone, StepFails, Fail, IndInv, Shapes, StepsBehind, ServerIdle
  <2> QED BY <2>1, <2>2
<1>5. Admitted' /\ RefillsAreExact' /\ BatchInWork'
  BY <1>1, TokensStand
  DEF IndInv, Admitted, Slotted, Tallied, BatchInWork, callVars, loopVars
<1> QED BY <1>1, <1>2, <1>4, <1>5 DEF IndInv, Shapes, bucketVars, callVars, loopVars

-------------------------------------------------------------------------------
\* Every reachable state satisfies the inductive invariant.
THEOREM Invariance == Spec => []IndInv
<1>1. IndInv /\ [Next]_vars => IndInv'
  <2> SUFFICES ASSUME IndInv, [Next]_vars PROVE IndInv'
    OBVIOUS
  <2>1. CASE UNCHANGED vars
    BY <2>1, TokensStand
    DEF vars, bucketVars, callVars, loopVars, stopVars, IndInv, Shapes, Admitted, Slotted,
        Tallied, BatchInWork, StepsBehind, ServerIdle, Idle, Active, LoopDone
  <2>2. ASSUME NEW r \in Requests, GateStep(r) PROVE IndInv'
    BY <2>2, GateKeepsShapes, GateKeepsCounts DEF IndInv
  <2> QED BY <2>1, <2>2, TickKeeps, AllowKeeps, LoopKeeps, StopKeeps DEF Next, GateStep
<1> QED BY <1>1, InitEstablishes, PTL DEF Spec

\* The gate: the refill of the bucket is exact, no more handlers than slots run, no slot
\* leaks (p2_bucket.go:13-15, p1_admission.go:10-16).
THEOREM GateKeepsItsLimits == Spec => []Inv
<1>1. IndInv => Inv
  <2> SUFFICES ASSUME IndInv PROVE Inv
    OBVIOUS
  <2>1. ServedWithinCapacity
    BY DEF IndInv, Admitted, Slotted, ServedWithinCapacity
  <2>2. TypeOK
    BY SetsAreFinite DEF IndInv, Shapes, Admitted, TypeOK
  <2>3. SlotsAccounted
    <3> DEFINE S == {r \in Requests : call[r] = "serving"}
               R == {r \in Requests : call[r] = "releasing"}
    <3>1. S \subseteq Slotted /\ R \subseteq Tallied /\ S \subseteq Tallied /\ Tallied = S \cup R
      BY DEF Slotted, Tallied
    <3>2. /\ IsFiniteSet(S) /\ IsFiniteSet(R) /\ Cardinality(S) <= Cardinality(Slotted)
          /\ Cardinality(S) \in Nat /\ Cardinality(R) \in Nat
      BY <3>1, SetsAreFinite, FS_Subset, FS_CardinalityType
    <3> HIDE DEF S, R
    <3>3. /\ Cardinality(S \cup R) = Cardinality(S) + Cardinality(R) - Cardinality(S \cap R)
          /\ Cardinality(S \cap R) \in Nat
      BY <3>2, FS_Union, FS_Intersection, FS_CardinalityType
    <3>4. Cardinality(Slotted) <= Capacity /\ slots = Cardinality(Slotted)
          /\ inFlight = Cardinality(S \cup R) /\ Capacity \in Nat
      BY <3>1, ApiAssumption DEF IndInv, Admitted, ApiAssumption
    <3>5. inFlight <= Capacity + Cardinality(R)
      BY <3>2, <3>3, <3>4, SetsAreFinite
    <3> QED BY <3>4, <3>5 DEF R, Slotted, SlotsAccounted
  <2> QED BY <2>1, <2>2, <2>3 DEF IndInv, Inv
<1> QED BY <1>1, Invariance, PTL

\* The shutdown: what close-deps closes nobody uses any more, only the deadline cuts off
\* a request, and only the deadline or a listener that does not close cuts off a batch
\* (p4_shutdown.go:9-13, cmd/api/main.go:683-701).
THEOREM ShutdownStopsInOrder == Spec => []StopsInOrder
<1>1. IndInv => StopsInOrder
  BY DEF IndInv, Shapes, BatchInWork, StepsBehind, ServerIdle, Idle, LoopDone, StopsInOrder,
         DepsOutliveWork, CutOffOnlyByDeadline
<1> QED BY <1>1, Invariance, PTL

-------------------------------------------------------------------------------
(* The circuit breaker                                                     *)

\* The goroutines that run a probe are finitely many.
LEMMA ProbesFinite == IsFiniteSet(Probes) /\ Cardinality(Probes) \in Nat
  <1>1. Probes \subseteq Calls  BY DEF Probes
  <1>2. IsFiniteSet(Probes)  BY <1>1, BreakerAssumption, FS_Subset
  <1>. QED  BY <1>2, FS_CardinalityType

\* What Enter does to the set of probes when it lets a probe through.
LEMMA ProbeAdded ==
  ASSUME BreakerTypeOK, NEW c \in Calls, running[c] = "nothing",
         running' = [running EXCEPT ![c] = "probe"]
  PROVE  Cardinality(Probes') = Cardinality(Probes) + 1
  <1>1. Probes' = Probes \cup {c}  BY DEF Probes, BreakerTypeOK
  <1>2. c \notin Probes  BY DEF Probes
  <1>. QED  BY <1>1, <1>2, ProbesFinite, FS_AddElement

\* What the return of a probe does to it.
LEMMA ProbeRemoved ==
  ASSUME BreakerTypeOK, NEW c \in Calls, running[c] = "probe",
         running' = [running EXCEPT ![c] = "nothing"]
  PROVE  Cardinality(Probes') = Cardinality(Probes) - 1
  <1>1. Probes' = Probes \ {c}  BY DEF Probes, BreakerTypeOK
  <1>2. c \in Probes  BY DEF Probes
  <1>. QED  BY <1>1, <1>2, ProbesFinite, FS_RemoveElement

\* An ordinary call is no probe, before or after.
LEMMA ProbesKept ==
  ASSUME BreakerTypeOK, NEW c \in Calls, NEW k \in {"nothing", "call"}, running[c] # "probe",
         running' = [running EXCEPT ![c] = k]
  PROVE  Probes' = Probes
  BY DEF Probes, BreakerTypeOK

\* A breaker starts closed, with nothing counted.
LEMMA BreakerStarts == BreakerInit => BreakerInv
  <1>. SUFFICES ASSUME BreakerInit PROVE BreakerInv  OBVIOUS
  <1>1. Probes = {}  BY DEF BreakerInit, Probes
  <1>2. Cardinality(Probes) = 0  BY <1>1, FS_EmptySet
  <1>b. cooled \in BOOLEAN /\ healthy \in BOOLEAN  BY Zenon DEF BreakerInit
  <1>3. BreakerTypeOK  BY <1>b, BreakerAssumption DEF BreakerInit, BreakerTypeOK
  <1>4. ClosedBelowThreshold  BY BreakerAssumption DEF BreakerInit, ClosedBelowThreshold
  <1>5. NeverOvercounts  BY <1>2 DEF BreakerInit, NeverOvercounts
  <1>. QED  BY <1>3, <1>4, <1>5 DEF BreakerInv

\* One step per action.
LEMMA BreakerKeeps == BreakerInv /\ [BreakerNext]_breakerVars => BreakerInv'
  <1>. SUFFICES ASSUME BreakerInv, [BreakerNext]_breakerVars PROVE BreakerInv'  OBVIOUS
  <1>. USE BreakerAssumption DEF BreakerInv
  <1>a. Cardinality(Probes) \in Nat  BY ProbesFinite
  \* The steps that only look leave everything, or a fresh half-open breaker.
  <1>l. ASSUME state' = Looked, probesInFlight' = Counted, leaked' = Leaked,
               UNCHANGED <<failures, cooled, running, exposed, healthy, panics>>
        PROVE  BreakerInv'
    <2>1. Probes' = Probes  BY <1>l DEF Probes
    <2>. QED
      BY <1>l, <2>1, <1>a
      DEF Looked, Counted, Leaked, BreakerTypeOK, ClosedBelowThreshold, NeverOvercounts
  <1>1. CASE Refuse  BY <1>1, <1>l DEF Refuse
  <1>2. CASE Observe  BY <1>2, <1>l DEF Observe
  <1>3. CASE Cool
    <2>1. Probes' = Probes  BY <1>3 DEF Cool, Probes
    <2>. QED  BY <1>3, <2>1 DEF Cool, BreakerTypeOK, ClosedBelowThreshold, NeverOvercounts
  <1>4. CASE Heal
    <2>1. Probes' = Probes  BY <1>4 DEF Heal, policy, Probes
    <2>. QED  BY <1>4, <2>1 DEF Heal, policy, BreakerTypeOK, ClosedBelowThreshold, NeverOvercounts
  <1>5. ASSUME NEW c \in Calls, Enter(c) PROVE BreakerInv'
    <2>1. CASE Looked = "closed" /\ running' = [running EXCEPT ![c] = "call"]
               /\ UNCHANGED <<state, probesInFlight>>
      <3>1. Probes' = Probes  BY <1>5, <2>1, ProbesKept DEF Enter
      <3>. QED
        BY <1>5, <2>1, <3>1
        DEF Enter, Looked, Leaked, BreakerTypeOK, ClosedBelowThreshold, NeverOvercounts
    <2>2. CASE MayProbe /\ running' = [running EXCEPT ![c] = "probe"]
               /\ state' = "half-open" /\ probesInFlight' = Counted + 1
      <3>1. Cardinality(Probes') = Cardinality(Probes) + 1
        BY <1>5, <2>2, ProbeAdded DEF Enter
      <3>. QED
        BY <1>5, <2>2, <3>1, <1>a
        DEF Enter, Counted, Leaked, MayProbe, BreakerTypeOK, ClosedBelowThreshold, NeverOvercounts
    <2>. QED  BY <1>5, <2>1, <2>2 DEF Enter
  <1>6. ASSUME NEW c \in Calls, Return(c) PROVE BreakerInv'
    <2>1. CASE ProbeSucceeded(c) \/ ProbeFailed(c)
      <3>1. Cardinality(Probes') = Cardinality(Probes) - 1
        BY <1>6, <2>1, ProbeRemoved DEF Return, ProbeSucceeded, ProbeFailed
      <3>b. (cooled \in BOOLEAN)'
        BY <2>1, Zenon DEF ProbeSucceeded, ProbeFailed, Open, BreakerTypeOK
      <3>2. BreakerTypeOK'
        BY <1>6, <2>1, <3>b DEF Return, ProbeSucceeded, ProbeFailed, Open, BreakerTypeOK
      <3>3. ClosedBelowThreshold'
        BY <2>1 DEF ProbeSucceeded, ProbeFailed, Open, ClosedBelowThreshold
      <3>4. probesInFlight' = probesInFlight - 1 /\ leaked' = leaked
        BY <2>1 DEF ProbeSucceeded, ProbeFailed
      <3>5. NeverOvercounts'  BY <3>1, <3>4, <1>a DEF BreakerTypeOK, NeverOvercounts
      <3>. QED  BY <3>2, <3>3, <3>5
    <2>2. CASE CallSucceeded(c) \/ CallFailed(c)
      <3>1. Probes' = Probes
        BY <1>6, <2>2, ProbesKept DEF Return, CallSucceeded, CallFailed
      <3>b. (cooled \in BOOLEAN)'
        BY <2>2, Zenon DEF CallSucceeded, CallFailed, Open, BreakerTypeOK
      <3>2. BreakerTypeOK'
        BY <1>6, <2>2, <3>b DEF Return, CallSucceeded, CallFailed, Open, BreakerTypeOK
      <3>3. ClosedBelowThreshold'
        BY <2>2 DEF CallSucceeded, CallFailed, Open, BreakerTypeOK, ClosedBelowThreshold
      <3>4. NeverOvercounts'
        BY <2>2, <3>1 DEF CallSucceeded, CallFailed, NeverOvercounts
      <3>. QED  BY <3>2, <3>3, <3>4
    <2>. QED  BY <1>6, <2>1, <2>2 DEF Return
  <1>7. ASSUME NEW c \in Calls, Panic(c) PROVE BreakerInv'
    <2>1. running' = [running EXCEPT ![c] = "nothing"]
          /\ UNCHANGED <<state, failures, probesInFlight, cooled, exposed, healthy>>
      BY <1>7 DEF Panic
    <2>2. BreakerTypeOK' /\ ClosedBelowThreshold'
      BY <1>7, <2>1 DEF Panic, BreakerTypeOK, ClosedBelowThreshold
    <2>3. CASE running[c] = "probe"
      <3>1. Cardinality(Probes') = Cardinality(Probes) - 1
        BY <2>1, <2>3, ProbeRemoved
      <3>2. leaked' = leaked + 1 /\ leaked \in Nat
        BY <1>7, <2>3 DEF Panic, BreakerTypeOK
      <3>. QED  BY <2>1, <2>2, <3>1, <3>2, <1>a DEF BreakerTypeOK, NeverOvercounts
    <2>4. CASE running[c] # "probe"
      <3>1. Probes' = Probes  BY <2>1, <2>4, ProbesKept
      <3>. QED  BY <1>7, <2>1, <2>2, <2>4, <3>1 DEF Panic, NeverOvercounts
    <2>. QED  BY <2>3, <2>4
  <1>8. CASE UNCHANGED breakerVars
    <2>1. Probes' = Probes  BY <1>8 DEF breakerVars, Probes
    <2>. QED
      BY <1>8, <2>1 DEF breakerVars, policy, BreakerTypeOK, ClosedBelowThreshold, NeverOvercounts
  <1>. QED  BY <1>1, <1>2, <1>3, <1>4, <1>5, <1>6, <1>7, <1>8 DEF BreakerNext

\* Every reachable state of the breaker satisfies the invariant.
THEOREM BreakerInvariance == BreakerSpec => []BreakerInv
  BY BreakerStarts, BreakerKeeps, PTL DEF BreakerSpec

\* A breaker that closes tolerates failures anew: its count is below the threshold
\* whenever it is closed.
THEOREM ClosesAfresh == BreakerSpec => []ClosedBelowThreshold
  <1>1. BreakerInv => ClosedBelowThreshold  BY DEF BreakerInv
  <1>. QED  BY BreakerInvariance, <1>1, PTL

\* The breaker never counts a probe that is not running and did not panic.
THEOREM CountsOnlyRunning == BreakerSpec => []NeverOvercounts
  <1>1. BreakerInv => NeverOvercounts  BY DEF BreakerInv
  <1>. QED  BY BreakerInvariance, <1>1, PTL

\* Whenever a half-open breaker refuses a call, some probe is on its way to settle it,
\* or all it may count have panicked: late results alone never lock everybody out.
THEOREM NoLockout ==
    BreakerSpec => [](state = "half-open" /\ ~MayProbe => Probes # {} \/ LockedOut)
  <1>1. ASSUME BreakerInv, state = "half-open", ~MayProbe, Probes = {} PROVE LockedOut
    <2>1. probesInFlight >= HalfOpenProbes
      BY <1>1, BreakerAssumption DEF MayProbe, Counted, BreakerInv, BreakerTypeOK
    <2>2. Cardinality(Probes) = 0
      BY <1>1, FS_EmptySet
    <2>3. leaked >= HalfOpenProbes
      BY <1>1, <2>1, <2>2, BreakerAssumption DEF BreakerInv, BreakerTypeOK, NeverOvercounts
    <2>. QED  BY <1>1, <2>3 DEF LockedOut
  <1>2. BreakerInv => (state = "half-open" /\ ~MayProbe => Probes # {} \/ LockedOut)
    BY <1>1
  <1>. QED  BY BreakerInvariance, <1>2, PTL

-------------------------------------------------------------------------------
(* The bucketed stock                                                      *)

\* What is at work or has settled was probed for, and knows the bucket that paid.
Settled == {"placed", "undone", "resold", "lost"}
Engages(o) ==
    /\ step[o] \in Engaged \cup Settled => Quantity(o) > 0
    /\ step[o] \in (Engaged \ {"probing"}) \cup Settled => hit[o] \in Buckets
    /\ step[o] = "start" => probes[o] = 0
    /\ step[o] = "probing" => probes[o] < Budget(o)
    /\ step[o] \in {"start", "probing"} => hit[o] = -1
    /\ step[o] \in {"start", "probing", "deducted"} => o \notin sold
    /\ hit[o] = -1 => o \notin past
    /\ o \in late => step[o] \in {"undone", "resold"}

\* Where the stock of a read went, at that time and now.
Books(r) == r.total + Units(r.sold) + r.elsewhere = Stock
BooksBalance ==
    /\ dbStock + Units(sold) + elsewhere = Stock
    /\ Books(base) /\ base.sold \subseteq sold
    /\ \A s \in Spreads : Books(seen[s]) /\ seen[s].sold \subseteq sold

\* What the last spread wrote covers what is offered and what is held of it.
Handed == IF base.total < 0 THEN 0 ELSE base.total
SpreadCovers == Offered(count) + Units(Fresh(Holders)) <= Handed + Units(Fresh(late))

\* As long as nothing comes back, a bucket that refused an order stays short of it.
VisitedAreShort ==
    (\A s \in Spreads : spread[s] # "done") /\ At({"undone", "resold"}) = {} =>
        \A o \in At({"probing", "refused"}) :
            /\ \A i \in 0..probes[o] - 1 :
                   bucket[(StartBucket(o) + i) % BucketCount(o)] < Quantity(o)
            /\ step[o] = "refused" => probes[o] = Budget(o)

BucketIndInv ==
    /\ BucketInv
    /\ \A o \in Orders : Engages(o)
    /\ BooksBalance
    /\ SpreadCovers
    /\ VisitedAreShort

-------------------------------------------------------------------------------

\* What each order asks for, and what orders and buckets add up to.
Wants == [o \in Orders |-> IF Quantity(o) > 0 THEN Quantity(o) ELSE 0]

LEMMA ArgsAreTyped ==
    ASSUME NEW o \in Orders
    PROVE  /\ Quantity(o) \in Int /\ MaxProbes(o) \in Nat /\ Budget(o) \in Nat \ {0}
           /\ BucketCount(o) \in Nat \ {0} /\ 0..BucketCount(o) - 1 \subseteq Buckets
           /\ Wants[o] \in Nat /\ (Quantity(o) > 0 => Wants[o] = Quantity(o))
           /\ \A i \in Nat : (StartBucket(o) + i) % BucketCount(o) \in 0..BucketCount(o) - 1
           /\ StartBucket(o) \in 0..BucketCount(o) - 1
<1>1. Quantity(o) \in Int /\ MaxProbes(o) \in Nat /\ BucketCount(o) \in Nat \ {0}
  BY BucketAssumption DEF BucketAssumption, Quantity
<1>2. Hash[Args[o].request] \in Nat
  BY BucketAssumption DEF BucketAssumption
<1>3. StartBucket(o) \in 0..BucketCount(o) - 1
  BY <1>1, <1>2 DEF StartBucket
<1>4. ASSUME NEW i \in Nat PROVE (StartBucket(o) + i) % BucketCount(o) \in 0..BucketCount(o) - 1
  <2> DEFINE n == BucketCount(o)
             k == StartBucket(o) + i
  <2>1. k \in Nat /\ n \in Nat /\ n > 0
    BY <1>1, <1>3
  <2> HIDE DEF n, k
  <2>2. k % n \in 0..n - 1
    BY <2>1
  <2> QED BY <2>2 DEF n, k
<1>5. 0..BucketCount(o) - 1 \subseteq Buckets
  BY DEF Buckets
<1> QED BY <1>1, <1>3, <1>4, <1>5 DEF Budget, Wants

\* A set of orders counts its units.
LEMMA UnitsAreCells ==
    ASSUME NEW S \in SUBSET Orders
    PROVE  Units(S) = Cardinality(Cells(S, Wants)) /\ Units(S) \in Nat
<1>0. IsFiniteSet(Orders) /\ Wants \in [Orders -> Nat]
  BY BucketAssumption, ArgsAreTyped DEF BucketAssumption, Wants
<1>1. ASSUME NEW p \in Orders PROVE 1..Quantity(p) = 1..Wants[p]
  <2>1. CASE Quantity(p) > 0
    BY <2>1, ArgsAreTyped
  <2>2. CASE ~(Quantity(p) > 0)
    <3>1. Wants[p] = 0 /\ Quantity(p) \in Int
      BY <2>2, ArgsAreTyped DEF Wants
    <3>2. 1..Wants[p] = {} /\ 1..Quantity(p) = {}
      BY <2>2, <3>1
    <3> QED BY <3>2
  <2> QED BY <2>1, <2>2
<1>2. UNION {{p} \X (1..Quantity(p)) : p \in S} = UNION {{p} \X (1..Wants[p]) : p \in S}
  BY <1>1
<1>3. Units(S) = Cardinality(Cells(S, Wants))
  BY <1>2 DEF Units, Cells
<1>4. Cardinality(Cells(S, Wants)) \in Nat
  BY <1>0, CellsAreFinite
<1> QED BY <1>3, <1>4

\* One that comes or goes counts for what it asks.
LEMMA UnitsMove ==
    ASSUME NEW A \in SUBSET Orders, NEW B \in SUBSET Orders, NEW o \in Orders,
           A \ {o} = B \ {o}
    PROVE  /\ Units(A) \in Nat /\ Units(B) \in Nat
           /\ Units(A) + (IF o \in B THEN Wants[o] ELSE 0) =
              Units(B) + (IF o \in A THEN Wants[o] ELSE 0)
<1>1. IsFiniteSet(Orders) /\ Wants \in [Orders -> Nat]
  BY BucketAssumption, ArgsAreTyped DEF BucketAssumption, Wants
<1>2. ASSUME NEW S \in SUBSET Orders
      PROVE  Units(S) = Cardinality(Cells(S, Wants)) /\ Units(S) \in Nat
  BY UnitsAreCells
<1>3. ASSUME NEW S \in SUBSET Orders, NEW T \in SUBSET Orders, o \notin T, S = T \cup {o}
      PROVE  Units(S) = Units(T) + Wants[o]
  <2>1. Units(S) <= Units(T) + Wants[o] /\ Units(T) + Wants[o] <= Units(S)
    BY <1>1, <1>2, <1>3, CellsCount
  <2> QED BY <1>1, <1>2, <2>1
<1>4. CASE o \in A /\ o \in B
  BY <1>2, <1>4
<1>5. CASE o \in A /\ o \notin B
  <2>1. A = B \cup {o}
    BY <1>5
  <2> QED BY <1>1, <1>2, <1>3, <1>5, <2>1
<1>6. CASE o \notin A /\ o \in B
  <2>1. B = A \cup {o}
    BY <1>6
  <2> QED BY <1>1, <1>2, <1>3, <1>6, <2>1
<1>7. CASE o \notin A /\ o \notin B
  <2>1. A = B
    BY <1>7
  <2> QED BY <1>2, <1>7, <2>1
<1> QED BY <1>4, <1>5, <1>6, <1>7

\* A sum of buckets moves with the one bucket that does.
LEMMA SumMoves ==
    ASSUME NEW n \in Nat, NEW f, NEW g, NEW b \in 0..n - 1,
           \A x \in 0..n - 1 : f[x] \in Nat /\ g[x] \in Nat /\ (x # b => f[x] = g[x])
    PROVE  /\ Cardinality(Cells(0..n - 1, f)) \in Nat /\ Cardinality(Cells(0..n - 1, g)) \in Nat
           /\ Cardinality(Cells(0..n - 1, f)) + g[b] = Cardinality(Cells(0..n - 1, g)) + f[b]
<1> DEFINE D == 0..n - 1
           F == [x \in D |-> f[x]]
           G == [x \in D |-> g[x]]
           R == D \ {b}
<1>1. IsFiniteSet(D) /\ F \in [D -> Nat] /\ G \in [D -> Nat] /\ F[b] = f[b] /\ G[b] = g[b]
  BY FS_Interval
<1>2. Cells(D, f) = Cells(D, F) /\ Cells(D, g) = Cells(D, G)
  BY DEF Cells
<1>3. Cells(R, F) = Cells(R, G)
  BY DEF Cells
<1>4. /\ Cardinality(Cells(R, F)) \in Nat /\ Cardinality(Cells(D, F)) \in Nat
      /\ Cardinality(Cells(D, G)) \in Nat
  BY <1>1, CellsAreFinite
<1>5. D \in SUBSET D /\ R \in SUBSET D /\ b \in D /\ b \notin R /\ D \subseteq R \cup {b} /\ R \cup {b} \subseteq D
  OBVIOUS
<1> HIDE DEF D, F, G, R
<1>6. /\ Cardinality(Cells(D, F)) <= Cardinality(Cells(R, F)) + F[b]
      /\ Cardinality(Cells(R, F)) + F[b] <= Cardinality(Cells(D, F))
  BY <1>1, <1>5, CellsCount
<1>7. /\ Cardinality(Cells(D, G)) <= Cardinality(Cells(R, G)) + G[b]
      /\ Cardinality(Cells(R, G)) + G[b] <= Cardinality(Cells(D, G))
  BY <1>1, <1>5, CellsCount
<1>8. f[b] \in Nat /\ g[b] \in Nat
  BY <1>5 DEF D
<1>9. /\ Cardinality(Cells(D, F)) \in Nat /\ Cardinality(Cells(D, G)) \in Nat
      /\ Cardinality(Cells(D, F)) + g[b] = Cardinality(Cells(D, G)) + f[b]
  BY <1>1, <1>3, <1>4, <1>6, <1>7, <1>8
<1>10. /\ Cardinality(Cells(D, f)) \in Nat /\ Cardinality(Cells(D, g)) \in Nat
       /\ Cardinality(Cells(D, f)) + g[b] = Cardinality(Cells(D, g)) + f[b]
  BY <1>2, <1>9
<1> QED BY <1>10 DEF D

\* A spread hands out the whole stock.
LEMMA PlanAddsUp ==
    ASSUME NEW total \in Nat, NEW n \in Nat \ {0}
    PROVE  /\ Plan(total, n) \in [0..n - 1 -> Nat]
           /\ Cardinality(Cells(0..n - 1, Plan(total, n))) = total
<1> DEFINE q == total \div n
           r == total % n
           S == (0..n - 1) \X (1..q)
           T == (0..r - 1) \X {q + 1}
<1>1. q \in Nat /\ r \in 0..n - 1 /\ n * q + r = total
  OBVIOUS
<1>2. Plan(total, n) = [b \in 0..n - 1 |-> q + IF b < r THEN 1 ELSE 0]
  BY DEF Plan
<1> HIDE DEF q, r
<1>3. Cells(0..n - 1, Plan(total, n)) = S \cup T
  <2>1. \A b \in 0..n - 1 : 1..Plan(total, n)[b] = (1..q) \cup (IF b < r THEN {q + 1} ELSE {})
    BY <1>1, <1>2
  <2>2. Cells(0..n - 1, Plan(total, n)) \subseteq S \cup T
    BY <1>1, <2>1 DEF Cells
  <2>3. S \cup T \subseteq Cells(0..n - 1, Plan(total, n))
    BY <1>1, <2>1 DEF Cells
  <2> QED BY <2>2, <2>3
<1>4. /\ IsFiniteSet(0..n - 1) /\ Cardinality(0..n - 1) = n
      /\ IsFiniteSet(1..q) /\ Cardinality(1..q) = q
      /\ IsFiniteSet(0..r - 1) /\ Cardinality(0..r - 1) = r
      /\ IsFiniteSet({q + 1}) /\ Cardinality({q + 1}) = 1
  <2>1. IsFiniteSet(0..n - 1) /\ Cardinality(0..n - 1) = n
    BY FS_Interval
  <2>2. IsFiniteSet(1..q) /\ Cardinality(1..q) = q
    BY <1>1, FS_Interval
  <2>3. IsFiniteSet(0..r - 1) /\ Cardinality(0..r - 1) = r
    BY <1>1, FS_Interval
  <2> QED BY <2>1, <2>2, <2>3, FS_Singleton
<1>5. /\ IsFiniteSet(S) /\ Cardinality(S) = n * q
      /\ IsFiniteSet(T) /\ Cardinality(T) = r
  <2>1. IsFiniteSet(S) /\ Cardinality(S) = n * q
    <3> DEFINE X == 0..n - 1
               Y == 1..q
    <3> HIDE DEF X, Y
    <3>1. IsFiniteSet(X) /\ Cardinality(X) = n /\ IsFiniteSet(Y) /\ Cardinality(Y) = q
      BY <1>4 DEF X, Y
    <3>2. IsFiniteSet(X \X Y) /\ Cardinality(X \X Y) = Cardinality(X) * Cardinality(Y)
      BY <3>1, FS_Product
    <3> QED BY <3>1, <3>2 DEF X, Y
  <2>2. IsFiniteSet(T) /\ Cardinality(T) = r * 1
    <3> DEFINE X == 0..r - 1
               Y == {q + 1}
    <3> HIDE DEF X, Y
    <3>1. IsFiniteSet(X) /\ Cardinality(X) = r /\ IsFiniteSet(Y) /\ Cardinality(Y) = 1
      BY <1>4 DEF X, Y
    <3>2. IsFiniteSet(X \X Y) /\ Cardinality(X \X Y) = Cardinality(X) * Cardinality(Y)
      BY <3>1, FS_Product
    <3> QED BY <3>1, <3>2 DEF X, Y
  <2> QED BY <1>1, <2>1, <2>2
<1>6. S \cap T = {} /\ Cardinality(S \cap T) = 0
  <2>1. S \cap T = {}
    BY <1>1
  <2> QED BY <2>1, FS_EmptySet
<1>7. Cardinality(S \cup T) = Cardinality(S) + Cardinality(T) - Cardinality(S \cap T)
  <2> HIDE DEF S, T
  <2> QED BY <1>5, FS_Union
<1>8. Cardinality(S \cup T) = total
  <2> HIDE DEF S, T
  <2>1. n * q \in Nat
    BY <1>1
  <2> QED BY <1>1, <1>5, <1>6, <1>7, <2>1
<1>9. \A b \in 0..n - 1 : (q + IF b < r THEN 1 ELSE 0) \in Nat
  BY <1>1
<1>10. Plan(total, n) \in [0..n - 1 -> Nat]
  BY <1>2, <1>9
<1> HIDE DEF S, T
<1> QED BY <1>3, <1>8, <1>10

\* A spread of an oversold product hands out nothing.
LEMMA PlanOfDebt ==
    ASSUME NEW total \in Int, total < 0, NEW n \in Nat \ {0}
    PROVE  Plan(total, n) \in [0..n - 1 -> Int] /\ \A b \in 0..n - 1 : Plan(total, n)[b] <= 0
<1> DEFINE m == -total
           q == m \div n
<1>1. m \in Nat
  OBVIOUS
<1> HIDE DEF m
<1>2. q \in Nat
  BY <1>1
<1>3. Plan(total, n) = [b \in 0..n - 1 |-> -q]
  BY DEF Plan, m
<1> HIDE DEF q
<1> QED BY <1>2, <1>3

\* What a bucket offers.
Plus(x) == IF x > 0 THEN x ELSE 0

LEMMA OffersAreCells ==
    ASSUME NEW n \in Nat, NEW f, \A d \in 0..n - 1 : f[d] \in Int
    PROVE  Cardinality(UNION {{d} \X (1..f[d]) : d \in 0..n - 1}) =
           Cardinality(Cells(0..n - 1, [d \in 0..n - 1 |-> Plus(f[d])]))
<1>1. ASSUME NEW d \in 0..n - 1 PROVE 1..f[d] = 1..Plus(f[d])
  <2>1. CASE f[d] > 0
    BY <2>1 DEF Plus
  <2>2. CASE ~(f[d] > 0)
    <3>1. Plus(f[d]) = 0 /\ f[d] \in Int /\ f[d] <= 0
      BY <2>2 DEF Plus
    <3>2. 1..Plus(f[d]) = {} /\ 1..f[d] = {}
      BY <3>1
    <3> QED BY <3>2
  <2> QED BY <2>1, <2>2
<1>2. UNION {{d} \X (1..f[d]) : d \in 0..n - 1} = UNION {{d} \X (1..Plus(f[d])) : d \in 0..n - 1}
  BY <1>1
<1> QED BY <1>2 DEF Cells

\* What the buckets offer moves with the one bucket that does.
LEMMA OfferedMoves ==
    ASSUME BucketTypeOK, bucket' \in [Buckets -> Int], count' = count, NEW b \in Buckets,
           \A d \in Buckets \ {b} : bucket'[d] = bucket[d]
    PROVE  /\ Offered(count) \in Nat /\ Offered(count)' \in Nat
           /\ b < count => Offered(count)' + Plus(bucket[b]) = Offered(count) + Plus(bucket'[b])
           /\ b >= count => Offered(count)' = Offered(count)
<1> DEFINE n == count
           F == [d \in 0..n - 1 |-> Plus(bucket'[d])]
           G == [d \in 0..n - 1 |-> Plus(bucket[d])]
<1>1. n \in Nat /\ n > 0 /\ 0..n - 1 \subseteq Buckets /\ b \in Nat
  BY BucketAssumption DEF BucketTypeOK, BucketAssumption, Buckets
<1>2. \A d \in 0..n - 1 : bucket[d] \in Int /\ bucket'[d] \in Int
  BY <1>1 DEF BucketTypeOK
<1>3. Offered(count) = Cardinality(Cells(0..n - 1, G))
  <2>1. Offered(count) = Cardinality(UNION {{d} \X (1..bucket[d]) : d \in 0..n - 1})
    BY DEF Offered
  <2> QED BY <1>1, <1>2, <2>1, OffersAreCells
<1>4. Offered(count)' = Cardinality(Cells(0..n - 1, F))
  <2>1. Offered(count)' = Cardinality(UNION {{d} \X (1..bucket'[d]) : d \in 0..n - 1})
    BY DEF Offered
  <2> QED BY <1>1, <1>2, <2>1, OffersAreCells
<1>5. \A d \in 0..n - 1 : F[d] \in Nat /\ G[d] \in Nat /\ (d # b => F[d] = G[d])
  BY <1>1, <1>2 DEF Plus
<1>6. CASE b < n
  <2>1. b \in 0..n - 1 /\ F[b] = Plus(bucket'[b]) /\ G[b] = Plus(bucket[b])
    BY <1>1, <1>6
  <2>0. n \in Nat
    BY <1>1
  <2> HIDE DEF F, G, n
  <2>2. /\ Cardinality(Cells(0..n - 1, F)) \in Nat /\ Cardinality(Cells(0..n - 1, G)) \in Nat
        /\ Cardinality(Cells(0..n - 1, F)) + G[b] = Cardinality(Cells(0..n - 1, G)) + F[b]
    <3>1. b \in 0..n - 1
      BY <2>1
    <3> QED BY ONLY <1>5, <2>0, <3>1, SumMoves
  <2>3. ~(b >= n)
    BY <1>1, <1>6
  <2> QED BY <1>3, <1>4, <1>6, <2>1, <2>2, <2>3 DEF n
<1>7. CASE ~(b < n)
  <2>1. F = G
    <3>1. \A d \in 0..n - 1 : bucket'[d] = bucket[d]
      BY <1>1, <1>7
    <3> QED BY <3>1
  <2>2. 0 \in 0..n - 1
    BY <1>1
  <2> HIDE DEF F, G, n
  <2>3. Cardinality(Cells(0..n - 1, G)) \in Nat
    BY <1>1, <1>5, <2>2, SumMoves
  <2> QED BY <1>3, <1>4, <1>7, <2>1, <2>3 DEF n
<1> QED BY <1>6, <1>7

\* One that joins a set counts for what it asks.
LEMMA UnitsJoin ==
    ASSUME NEW A \in SUBSET Orders, NEW o \in Orders, o \notin A
    PROVE  /\ Units(A) \in Nat /\ Units(A \cup {o}) \in Nat
           /\ Units(A \cup {o}) = Units(A) + Wants[o]
<1> DEFINE B == A \cup {o}
<1>1. B \in SUBSET Orders /\ A \ {o} = B \ {o} /\ o \in B
  OBVIOUS
<1> HIDE DEF B
<1>2. /\ Units(A) \in Nat /\ Units(B) \in Nat
      /\ Units(A) + (IF o \in B THEN Wants[o] ELSE 0) = Units(B) + (IF o \in A THEN Wants[o] ELSE 0)
  BY <1>1, UnitsMove
<1>3. Wants[o] \in Nat
  BY ArgsAreTyped
<1> QED BY <1>1, <1>2, <1>3 DEF B

-------------------------------------------------------------------------------
\* What every step of a call leaves alone.
Frame(o) ==
    /\ o \in Orders
    /\ \A p \in Orders \ {o} : step'[p] = step[p] /\ hit'[p] = hit[p] /\ probes'[p] = probes[p]
    /\ UNCHANGED <<planned, count, past, base, seen, spread, elsewhere>>

LEMMA StepFrames ==
    ASSUME BucketTypeOK, NEW o \in Orders,
           Begin(o) \/ Probe(o) \/ WriteOrder(o) \/ RollbackToBucket(o) \/ Crash(o)
    PROVE  /\ Frame(o)
           /\ \E s \in Engaged \cup Settled \cup {"start", "refused", "failed"} :
                  step' = [step EXCEPT ![o] = s] /\ step'[o] = s
<1> USE DEF Frame, BucketTypeOK, marketVars, spreadVars, GoesTo, Engaged, Settled
<1>1. CASE Begin(o)
  BY <1>1 DEF Begin
<1>2. CASE Probe(o)
  BY <1>2 DEF Probe
<1>3. CASE WriteOrder(o)
  BY <1>3 DEF WriteOrder
<1>4. CASE RollbackToBucket(o)
  BY <1>4 DEF RollbackToBucket
<1>5. CASE Crash(o)
  BY <1>5 DEF Crash
<1> QED BY <1>1, <1>2, <1>3, <1>4, <1>5

Stocked == EveryBucketBalances /\ NoBucketOverdrawn /\ SpreadCovers

\* Buckets and holders that stand keep the books of the buckets.
LEMMA BooksStand ==
    ASSUME BucketIndInv, NEW o, Frame(o), bucket' = bucket, late' = late,
           Holders' = Holders, \A p \in Holders \cup late : hit'[p] = hit[p]
    PROVE  Stocked'
<1>1. EveryBucketBalances'
  <2> SUFFICES ASSUME NEW b \in Buckets
               PROVE  bucket'[b] + Units(From(b, Holders))' = planned'[b] + Units(From(b, late))'
    BY DEF EveryBucketBalances
  <2>1. From(b, Holders)' = From(b, Holders) /\ From(b, late)' = From(b, late)
    BY DEF From
  <2>2. Units(From(b, Holders))' = Units(From(b, Holders)) /\ Units(From(b, late))' = Units(From(b, late))
    BY <2>1 DEF Units, Quantity
  <2>3. bucket[b] + Units(From(b, Holders)) = planned[b] + Units(From(b, late))
    BY DEF BucketIndInv, BucketInv, EveryBucketBalances
  <2> QED BY <2>2, <2>3 DEF Frame
<1>2. NoBucketOverdrawn'
  BY DEF BucketIndInv, BucketInv, NoBucketOverdrawn, Frame
<1>3. SpreadCovers'
  <2>1. Fresh(Holders)' = Fresh(Holders) /\ Fresh(late)' = Fresh(late)
    BY DEF Fresh, Frame
  <2>2. Units(Fresh(Holders))' = Units(Fresh(Holders)) /\ Units(Fresh(late))' = Units(Fresh(late))
    BY <2>1 DEF Units, Quantity
  <2>3. Offered(count)' = Offered(count) /\ Handed' = Handed
    BY DEF Offered, Handed, Frame
  <2> QED BY <2>2, <2>3 DEF SpreadCovers, BucketIndInv
<1> QED BY <1>1, <1>2, <1>3 DEF Stocked

\* A call that takes units from a bucket joins its holders.
LEMMA TakingKeeps ==
    ASSUME BucketIndInv, NEW o, Frame(o), NEW b \in Buckets, Quantity(o) > 0,
           o \notin Holders, o \notin late, Holders' = Holders \cup {o}, late' = late,
           hit'[o] = b, bucket[b] >= Quantity(o),
           bucket' = [bucket EXCEPT ![b] = @ - Quantity(o)]
    PROVE  Stocked'
<1> DEFINE q == Wants[o]
<1>1. /\ o \in Orders /\ q = Quantity(o) /\ q \in Nat /\ q > 0
      /\ bucket \in [Buckets -> Int] /\ b \in Nat /\ count \in Nat
      /\ BucketTypeOK
  BY ArgsAreTyped, BucketAssumption
     DEF Frame, BucketIndInv, BucketInv, BucketTypeOK, Buckets, BucketAssumption
<1>2. /\ bucket' \in [Buckets -> Int] /\ bucket'[b] = bucket[b] - q
      /\ \A d \in Buckets \ {b} : bucket'[d] = bucket[d]
  BY <1>1
<1>3. Holders \in SUBSET Orders /\ late \in SUBSET Orders
  BY DEF Holders, At, BucketIndInv, BucketInv, BucketTypeOK
<1>4. EveryBucketBalances'
  <2> SUFFICES ASSUME NEW d \in Buckets
               PROVE  bucket'[d] + Units(From(d, Holders))' = planned'[d] + Units(From(d, late))'
    BY DEF EveryBucketBalances
  <2>1. /\ From(d, late)' = From(d, late)
        /\ d = b => From(d, Holders)' = From(d, Holders) \cup {o}
        /\ d # b => From(d, Holders)' = From(d, Holders)
    BY <1>3 DEF From, Frame
  <2>2. /\ Units(From(d, late))' = Units(From(d, late))
        /\ d = b => Units(From(d, Holders))' = Units(From(d, Holders) \cup {o})
        /\ d # b => Units(From(d, Holders))' = Units(From(d, Holders))
    BY <2>1 DEF Units, Quantity
  <2>3. From(d, Holders) \in SUBSET Orders /\ o \notin From(d, Holders)
    BY <1>3 DEF From
  <2>4. /\ Units(From(d, Holders)) \in Nat
        /\ Units(From(d, Holders) \cup {o}) = Units(From(d, Holders)) + q
    BY <1>1, <2>3, UnitsJoin
  <2>5. bucket[d] + Units(From(d, Holders)) = planned[d] + Units(From(d, late))
    BY DEF BucketIndInv, BucketInv, EveryBucketBalances
  <2>6. planned' = planned /\ bucket[d] \in Int
    BY <1>1 DEF Frame
  <2>7. CASE d = b
    <3>1. Units(From(d, Holders))' = Units(From(d, Holders)) + q /\ bucket'[d] = bucket[d] - q
      BY <1>2, <2>2, <2>4, <2>7
    <3>2. bucket'[d] + Units(From(d, Holders))' = bucket[d] + Units(From(d, Holders))
      BY <1>1, <2>4, <2>6, <3>1
    <3> QED BY <2>2, <2>5, <2>6, <3>2
  <2>8. CASE d # b
    BY <1>2, <2>2, <2>5, <2>6, <2>8
  <2> QED BY <2>7, <2>8
<1>5. NoBucketOverdrawn'
  <2> SUFFICES ASSUME NEW d \in Buckets PROVE bucket'[d] >= 0 \/ bucket'[d] >= planned[d]
    BY DEF NoBucketOverdrawn, Frame
  <2>1. CASE d = b
    BY <1>1, <1>2, <2>1
  <2>2. CASE d # b
    BY <1>2, <2>2 DEF BucketIndInv, BucketInv, NoBucketOverdrawn
  <2> QED BY <2>1, <2>2
<1>6. SpreadCovers'
  <2> DEFINE H == Fresh(Holders)
             T == Offered(count)
  <2>1. /\ Fresh(late)' = Fresh(late)
        /\ b < count => H' = H \cup {o}
        /\ b >= count => H' = H
    BY <1>1, <1>3 DEF Fresh, Frame
  <2>2. /\ Units(Fresh(late))' = Units(Fresh(late))
        /\ b < count => Units(H)' = Units(H \cup {o})
        /\ b >= count => Units(H)' = Units(H)
    BY <2>1 DEF Units, Quantity
  <2>3. H \in SUBSET Orders /\ o \notin H /\ Fresh(late) \in SUBSET Orders
    BY <1>3 DEF Fresh
  <2>4. /\ Units(H) \in Nat /\ Units(H \cup {o}) = Units(H) + q /\ Units(Fresh(late)) \in Nat
    <3> HIDE DEF H
    <3> QED BY <1>1, <2>3, UnitsJoin, UnitsAreCells
  <2>5. /\ T \in Nat /\ T' \in Nat
        /\ b < count => T' + Plus(bucket[b]) = T + Plus(bucket'[b])
        /\ b >= count => T' = T
    BY <1>1, <1>2, OfferedMoves DEF Frame
  <2>6. Plus(bucket[b]) = bucket[b] /\ Plus(bucket'[b]) = bucket[b] - q /\ bucket[b] \in Int
    BY <1>1, <1>2 DEF Plus
  <2>7. T + Units(H) <= Handed + Units(Fresh(late)) /\ Handed' = Handed
    BY DEF BucketIndInv, SpreadCovers, Handed, Frame
  <2>8. SpreadCovers' <=> T' + Units(H)' <= Handed' + Units(Fresh(late))'
    BY DEF SpreadCovers
  <2> HIDE DEF H, T
  <2>9. T' + Units(H)' = T + Units(H)
    <3>1. CASE b < count
      <4>1. T' + bucket[b] = T + (bucket[b] - q) /\ Units(H)' = Units(H) + q
        BY <2>2, <2>4, <2>5, <2>6, <3>1
      <4>2. T' = T - q
        BY <1>1, <2>5, <2>6, <4>1
      <4> QED BY <1>1, <2>4, <2>5, <4>1, <4>2
    <3>2. CASE b >= count
      BY <2>2, <2>5, <3>2
    <3> QED BY <1>1, <3>1, <3>2
  <2> QED BY <2>2, <2>7, <2>8, <2>9
<1> QED BY <1>4, <1>5, <1>6 DEF Stocked

\* A call that gives back leaves the holders, or is counted with the latecomers.
Returns(o, H, G, L, K) ==
    \/ o \in H /\ G = H \ {o} /\ K = L
    \/ G = H /\ o \notin L /\ K = L \cup {o}

\* Units that come back move the balance of holders and latecomers by what they are.
LEMMA UnitsReturn ==
    ASSUME NEW A \in SUBSET Orders, NEW A1 \in SUBSET Orders,
           NEW B \in SUBSET Orders, NEW B1 \in SUBSET Orders,
           NEW o \in Orders, Returns(o, A, A1, B, B1)
    PROVE  Units(B1) + Units(A) = Units(B) + Units(A1) + Wants[o]
<1>1. /\ Units(A) \in Nat /\ Units(A1) \in Nat
      /\ Units(B) \in Nat /\ Units(B1) \in Nat /\ Wants[o] \in Nat
  BY UnitsAreCells, ArgsAreTyped
<1>2. CASE o \in A /\ A1 = A \ {o} /\ B1 = B
  <2>1. A = A1 \cup {o} /\ o \notin A1
    BY <1>2
  <2>2. Units(A) = Units(A1) + Wants[o]
    BY <2>1, UnitsJoin
  <2> QED BY <1>1, <1>2, <2>2
<1>3. CASE A1 = A /\ o \notin B /\ B1 = B \cup {o}
  <2>1. Units(B1) = Units(B) + Wants[o]
    BY <1>3, UnitsJoin
  <2> QED BY <1>1, <1>3, <2>1
<1> QED BY <1>2, <1>3 DEF Returns

\* Units that come back leave the holders, or are counted apart if a spread came between.
LEMMA GivingBackKeeps ==
    ASSUME BucketIndInv, NEW o, Frame(o), NEW b \in Buckets, Quantity(o) > 0,
           Returns(o, Holders, Holders', late, late'),
           hit' = hit, hit[o] = b,
           bucket' = [bucket EXCEPT ![b] = @ + Quantity(o)]
    PROVE  Stocked'
<1> DEFINE q == Wants[o]
<1>1. /\ o \in Orders /\ q = Quantity(o) /\ q \in Nat /\ q > 0
      /\ bucket \in [Buckets -> Int] /\ b \in Nat /\ count \in Nat
      /\ BucketTypeOK
  BY ArgsAreTyped, BucketAssumption
     DEF Frame, BucketIndInv, BucketInv, BucketTypeOK, Buckets, BucketAssumption
<1>2. /\ bucket' \in [Buckets -> Int] /\ bucket'[b] = bucket[b] + q
      /\ \A d \in Buckets \ {b} : bucket'[d] = bucket[d]
  BY <1>1
<1>3. Holders \in SUBSET Orders /\ late \in SUBSET Orders
  BY DEF Holders, At, BucketIndInv, BucketInv, BucketTypeOK
<1>4. PICK H1 \in SUBSET Orders, L1 \in SUBSET Orders :
          /\ H1 = Holders' /\ L1 = late'
          /\ Returns(o, Holders, H1, late, L1)
  BY <1>1, <1>3 DEF Returns
<1>5. EveryBucketBalances'
  <2> SUFFICES ASSUME NEW d \in Buckets
               PROVE  bucket'[d] + Units(From(d, Holders))' = planned'[d] + Units(From(d, late))'
    BY DEF EveryBucketBalances
  <2> DEFINE A == From(d, Holders)
             B == From(d, late)
             A1 == {p \in H1 : hit[p] = d}
             B1 == {p \in L1 : hit[p] = d}
  <2>1. /\ A \in SUBSET Orders /\ B \in SUBSET Orders
        /\ A1 \in SUBSET Orders /\ B1 \in SUBSET Orders
        /\ A' = A1 /\ B' = B1
    BY <1>3, <1>4 DEF From
  <2>2. Units(A)' = Units(A1) /\ Units(B)' = Units(B1)
    BY <2>1 DEF Units, Quantity
  <2>3. d = b => Returns(o, A, A1, B, B1)
    BY <1>1, <1>3, <1>4 DEF Returns, From
  <2>4. d # b => A1 = A /\ B1 = B
    BY <1>1, <1>3, <1>4 DEF Returns, From
  <2>5. bucket[d] + Units(A) = planned[d] + Units(B)
    BY DEF BucketIndInv, BucketInv, EveryBucketBalances
  <2>6. planned' = planned /\ bucket[d] \in Int /\ planned[d] \in Int
    BY <1>1 DEF Frame, BucketTypeOK
  <2> HIDE DEF A, B, A1, B1
  <2>7. /\ Units(A) \in Nat /\ Units(A1) \in Nat /\ Units(B) \in Nat /\ Units(B1) \in Nat
    BY <2>1, UnitsAreCells
  <2>8. CASE d = b
    <3>1. Units(B1) + Units(A) = Units(B) + Units(A1) + q
      BY <1>1, <2>1, <2>3, <2>8, UnitsReturn
    <3>2. bucket'[d] = bucket[d] + q
      BY <1>2, <2>8
    <3>3. bucket'[d] + Units(A1) = planned[d] + Units(B1)
      BY <1>1, <2>5, <2>6, <2>7, <3>1, <3>2
    <3> QED BY <2>2, <2>6, <3>3 DEF A, B
  <2>9. CASE d # b
    <3>1. bucket'[d] = bucket[d]
      BY <1>2, <2>9
    <3>2. Units(A1) = Units(A) /\ Units(B1) = Units(B)
      BY <2>4, <2>9
    <3>3. bucket'[d] + Units(A1) = planned[d] + Units(B1)
      BY <2>5, <3>1, <3>2
    <3> QED BY <2>2, <2>6, <3>3 DEF A, B
  <2> QED BY <2>8, <2>9
<1>6. NoBucketOverdrawn'
  <2> SUFFICES ASSUME NEW d \in Buckets PROVE bucket'[d] >= 0 \/ bucket'[d] >= planned[d]
    BY DEF NoBucketOverdrawn, Frame
  <2>1. bucket[d] \in Int /\ bucket'[d] \in Int /\ bucket'[d] >= bucket[d] /\ planned[d] \in Int
    BY <1>1, <1>2 DEF BucketTypeOK
  <2>2. bucket[d] >= 0 \/ bucket[d] >= planned[d]
    BY DEF BucketIndInv, BucketInv, NoBucketOverdrawn
  <2> QED BY <2>1, <2>2
<1>7. SpreadCovers'
  <2> DEFINE A == Fresh(Holders)
             B == Fresh(late)
             A1 == {p \in H1 : hit[p] < count}
             B1 == {p \in L1 : hit[p] < count}
             T == Offered(count)
  <2>1. /\ A \in SUBSET Orders /\ B \in SUBSET Orders
        /\ A1 \in SUBSET Orders /\ B1 \in SUBSET Orders
        /\ A' = A1 /\ B' = B1
    BY <1>3, <1>4 DEF Fresh, Frame
  <2>2. Units(A)' = Units(A1) /\ Units(B)' = Units(B1)
    BY <2>1 DEF Units, Quantity
  <2>3. b < count => Returns(o, A, A1, B, B1)
    BY <1>1, <1>3, <1>4 DEF Returns, Fresh
  <2>4. ~(b < count) => A1 = A /\ B1 = B
    BY <1>1, <1>3, <1>4 DEF Returns, Fresh
  <2>5. /\ T \in Nat /\ T' \in Nat
        /\ b < count => T' + Plus(bucket[b]) = T + Plus(bucket'[b])
        /\ b >= count => T' = T
    BY <1>1, <1>2, OfferedMoves DEF Frame
  <2>6. Plus(bucket'[b]) <= Plus(bucket[b]) + q /\ Plus(bucket[b]) \in Nat /\ Plus(bucket'[b]) \in Nat
    BY <1>1, <1>2 DEF Plus
  <2>7. T + Units(A) <= Handed + Units(B) /\ Handed' = Handed
    BY DEF BucketIndInv, SpreadCovers, Handed, Frame
  <2>8. SpreadCovers' <=> T' + Units(A)' <= Handed' + Units(B)'
    BY DEF SpreadCovers
  <2>9. Handed \in Nat
    BY <1>1 DEF Handed, BucketTypeOK, Reads
  <2>10. PICK t \in Nat : t = T'
    BY <2>5
  <2>11. SpreadCovers' <=> t + Units(A1) <= Handed + Units(B1)
    BY <2>2, <2>7, <2>8, <2>10
  <2> HIDE DEF A, B, A1, B1, T
  <2>12. /\ Units(A) \in Nat /\ Units(A1) \in Nat /\ Units(B) \in Nat /\ Units(B1) \in Nat
    BY <2>1, UnitsAreCells
  <2>13. CASE b < count
    <3>1. Units(B1) + Units(A) = Units(B) + Units(A1) + q
      BY <1>1, <2>1, <2>3, <2>13, UnitsReturn
    <3>2. t <= T + q
      BY <1>1, <2>5, <2>6, <2>10, <2>13
    <3>3. t + Units(A1) <= Handed + Units(B1)
      BY <1>1, <2>5, <2>7, <2>9, <2>12, <3>1, <3>2
    <3> QED BY <2>11, <3>3
  <2>14. CASE ~(b < count)
    <3>1. b >= count /\ Units(A1) = Units(A) /\ Units(B1) = Units(B)
      BY <1>1, <2>4, <2>14
    <3> QED BY <2>5, <2>7, <2>10, <2>11, <3>1
  <2> QED BY <2>13, <2>14
<1> QED BY <1>5, <1>6, <1>7 DEF Stocked

-------------------------------------------------------------------------------
Pays == {"deducted", "undo", "unsure", "placed", "lost"}

\* A step of a call concerns that call alone: whether it holds units ...
LEMMA HoldersMove ==
    ASSUME NEW o, Frame(o)
    PROVE  /\ o \in Holders <=> step[o] \in Pays /\ o \notin past
           /\ o \in Holders' <=> step'[o] \in Pays /\ o \notin past
           /\ \A p : p # o => (p \in Holders' <=> p \in Holders)
  BY DEF Frame, Holders, At, Pays

\* ... what it knows of itself ...
LEMMA EngagesMoves ==
    ASSUME BucketIndInv, NEW o, Frame(o), Engages(o)',
           late' \subseteq late \cup {o}, sold' \subseteq sold \cup {o}
    PROVE  \A p \in Orders : Engages(p)'
<1> SUFFICES ASSUME NEW p \in Orders, p # o PROVE Engages(p)'
  OBVIOUS
<1>1. step'[p] = step[p] /\ hit'[p] = hit[p] /\ probes'[p] = probes[p] /\ past' = past
  BY DEF Frame
<1>2. (p \in late' => p \in late) /\ (p \in sold' => p \in sold)
  OBVIOUS
<1>3. Engages(p)
  BY DEF BucketIndInv
<1> QED BY <1>1, <1>2, <1>3 DEF Engages, Quantity, Budget, MaxProbes, Engaged, Settled

\* ... and which buckets it found short.
LEMMA VisitsStand ==
    ASSUME BucketIndInv, NEW o, Frame(o),
           bucket' \in [Buckets -> Int],
           step[o] \notin {"undone", "resold"},
           step'[o] \notin {"undone", "resold"} => \A b \in Buckets : bucket'[b] <= bucket[b],
           /\ step'[o] \in {"probing", "refused"}
           /\ \A s \in Spreads : spread[s] # "done"
           /\ At({"undone", "resold"}) = {}
           => /\ \A i \in 0..probes'[o] - 1 :
                     bucket'[(StartBucket(o) + i) % BucketCount(o)] < Quantity(o)
              /\ step'[o] = "refused" => probes'[o] = Budget(o)
    PROVE  VisitedAreShort'
<1> DEFINE B(p, i) == (StartBucket(p) + i) % BucketCount(p)
<1> SUFFICES ASSUME \A s \in Spreads : spread'[s] # "done", At({"undone", "resold"})' = {},
                    NEW p \in Orders, step'[p] \in {"probing", "refused"}
             PROVE  /\ \A i \in 0..probes'[p] - 1 : bucket'[B(p, i)] < Quantity(p)
                    /\ step'[p] = "refused" => probes'[p] = Budget(p)
  BY DEF VisitedAreShort, At, StartBucket, BucketCount, Quantity, Budget, MaxProbes
<1>1. o \in Orders /\ step'[o] \notin {"undone", "resold"}
  BY DEF At, Frame
<1>2. At({"undone", "resold"}) = {}
  BY <1>1 DEF At, Frame
<1>3. \A s \in Spreads : spread[s] # "done"
  BY DEF Frame
<1>4. CASE p = o
  BY <1>2, <1>3, <1>4
<1>5. CASE p # o
  <2>1. step'[p] = step[p] /\ probes'[p] = probes[p]
    BY <1>5 DEF Frame
  <2>2. /\ \A i \in 0..probes[p] - 1 : bucket[B(p, i)] < Quantity(p)
        /\ step[p] = "refused" => probes[p] = Budget(p)
    BY <1>2, <1>3, <2>1 DEF VisitedAreShort, At, BucketIndInv
  <2>3. \A b \in Buckets : bucket[b] \in Int /\ bucket'[b] \in Int /\ bucket'[b] <= bucket[b]
    BY <1>1 DEF BucketIndInv, BucketInv, BucketTypeOK
  <2>4. probes[p] \in Nat /\ Quantity(p) \in Int
    BY ArgsAreTyped DEF BucketIndInv, BucketInv, BucketTypeOK
  <2>5. ASSUME NEW i \in 0..probes[p] - 1 PROVE bucket'[B(p, i)] < Quantity(p)
    <3>1. i \in Nat
      BY <2>4
    <3>2. B(p, i) \in Buckets
      BY <3>1, ArgsAreTyped
    <3>3. bucket[B(p, i)] < Quantity(p)
      BY <2>2
    <3> HIDE DEF B
    <3> QED BY <2>3, <2>4, <3>2, <3>3
  <2> QED BY <2>1, <2>2, <2>5
<1> QED BY <1>4, <1>5

\* The books of MySQL stand as long as nobody sells.
LEMMA SalesStand ==
    ASSUME BucketIndInv, sold' = sold, dbStock' = dbStock, elsewhere' = elsewhere,
           base' = base, seen' = seen
    PROVE  BooksBalance'
<1>1. BooksBalance
  BY DEF BucketIndInv
<1>2. Units(sold)' = Units(sold) /\ Units(base.sold)' = Units(base.sold)
  BY DEF Units, Quantity
<1>3. ASSUME NEW s \in Spreads PROVE Books(seen[s])' <=> Books(seen[s])
  <2>1. Units(seen[s].sold)' = Units(seen[s].sold)
    BY DEF Units, Quantity
  <2> QED BY <2>1 DEF Books
<1>4. Books(base)' <=> Books(base)
  BY <1>2 DEF Books
<1> QED BY <1>1, <1>2, <1>3, <1>4 DEF BooksBalance

LEMMA BeginKeeps == ASSUME BucketIndInv, NEW o \in Orders, Begin(o) PROVE BucketIndInv'
<1> USE DEF BucketIndInv, BucketInv
<1>1. /\ Frame(o) /\ UNCHANGED <<bucket, dbStock, rows, probes, hit, sold, late>>
      /\ step[o] = "start"
      /\ step'[o] = (IF Quantity(o) <= 0 THEN "failed" ELSE "probing")
      /\ step' = [step EXCEPT ![o] = step'[o]]
  BY StepFrames DEF Begin, BucketTypeOK, GoesTo
<1>2. BucketTypeOK'
  BY <1>1 DEF BucketTypeOK, Budget, MaxProbes, Frame, Engaged
<1>3. Quantity(o) \in Int /\ Budget(o) \in Nat \ {0} /\ Engages(o)
  BY ArgsAreTyped
<1>4. Engages(o)'
  <2>1. step'[o] = "probing" => Quantity(o) > 0 /\ probes[o] = 0 /\ 0 < Budget(o)
    BY <1>1, <1>3 DEF Engages
  <2> QED BY <1>1, <1>3, <2>1 DEF Engages, Engaged, Settled, Quantity, Budget, MaxProbes, Frame
<1>5. \A p \in Orders : Engages(p)'
  BY <1>1, <1>4, EngagesMoves
<1>6. Stocked'
  <2>1. Holders' = Holders
    BY <1>1, HoldersMove DEF Pays
  <2> QED BY <1>1, <2>1, BooksStand
<1>7. BooksBalance'
  BY <1>1, SalesStand DEF Frame
<1>8. VisitedAreShort'
  <2>1. \A b \in Buckets : bucket'[b] <= bucket[b]
    BY <1>1 DEF BucketTypeOK
  <2>2. probes'[o] = 0 /\ step'[o] # "refused" /\ bucket' \in [Buckets -> Int]
    BY <1>1, <1>3 DEF Engages, BucketTypeOK
  <2>3. 0..probes'[o] - 1 = {}
    BY <2>2
  <2> QED BY <1>1, <2>1, <2>2, <2>3, VisitsStand
<1> QED BY <1>2, <1>5, <1>6, <1>7, <1>8 DEF Stocked

LEMMA ProbeKeeps == ASSUME BucketIndInv, NEW o \in Orders, Probe(o) PROVE BucketIndInv'
<1> USE DEF BucketIndInv, BucketInv
<1> DEFINE b == Probed(o)
           q == Quantity(o)
<1>1. /\ Frame(o) /\ UNCHANGED <<dbStock, rows, sold, late>>
      /\ step[o] = "probing"
      /\ probes' = [probes EXCEPT ![o] = @ + 1] /\ probes'[o] = probes[o] + 1
  BY StepFrames DEF Probe, BucketTypeOK
<1>2. /\ q \in Nat /\ q > 0 /\ q \in Int
      /\ probes[o] \in Nat /\ probes[o] < Budget(o) /\ Budget(o) \in Nat
      /\ hit[o] = -1 /\ o \notin past /\ o \notin late /\ o \notin sold
  <2>1. Engages(o) /\ probes[o] \in 0..Budget(o)
    BY DEF BucketTypeOK
  <2> QED BY <1>1, <2>1, ArgsAreTyped DEF Engages, Engaged
<1>3. b \in Buckets
  BY <1>2, ArgsAreTyped DEF Probed
<1>4. bucket \in [Buckets -> Int] /\ hit \in [Orders -> Buckets \cup {-1}]
      /\ step \in [Orders -> Engaged \cup {"start", "placed", "refused", "failed",
                                          "undone", "resold", "lost"}]
  BY DEF BucketTypeOK
<1>5. \/ /\ step' = [step EXCEPT ![o] = step'[o]]
         /\ step'[o] \in {"deducted", "lost"} /\ hit' = [hit EXCEPT ![o] = b]
         /\ bucket[b] >= q /\ bucket' = [bucket EXCEPT ![b] = @ - q]
      \/ /\ step' = [step EXCEPT ![o] = step'[o]]
         /\ hit' = hit /\ bucket' = bucket
         /\ \/ step'[o] = "failed"
            \/ /\ ~(bucket[b] >= q)
               /\ step'[o] = (IF probes[o] + 1 < Budget(o) THEN "probing" ELSE "refused")
  BY <1>4 DEF Probe, DeductOneBucket, Enough, Take, GoesTo
<1>6. bucket' \in [Buckets -> Int] /\ hit' \in [Orders -> Buckets \cup {-1}]
  BY <1>2, <1>3, <1>4, <1>5
<1>7. BucketTypeOK'
  <2>1. \A p \in Orders : probes'[p] \in 0..Budget(p)
    <3> SUFFICES ASSUME NEW p \in Orders PROVE probes'[p] \in 0..Budget(p)
      OBVIOUS
    <3>1. CASE p = o
      BY <1>1, <1>2, <3>1
    <3>2. CASE p # o
      BY <1>1, <3>2 DEF BucketTypeOK, Frame
    <3> QED BY <3>1, <3>2
  <2>2. DOMAIN probes' = Orders
    BY <1>1 DEF BucketTypeOK
  <2>3. step' \in [Orders -> Engaged \cup {"start", "placed", "refused", "failed",
                                           "undone", "resold", "lost"}]
    BY <1>4, <1>5 DEF Engaged
  <2> QED BY <1>1, <1>6, <2>1, <2>2, <2>3 DEF BucketTypeOK, Budget, MaxProbes, Frame
<1>8. \A p \in Orders : Engages(p)'
  <2>1. step'[o] \in {"deducted", "lost"} => hit'[o] = b
    BY <1>4, <1>5
  <2>2. step'[o] \notin {"deducted", "lost"} => hit'[o] = -1
    BY <1>2, <1>5
  <2>3. step'[o] = "probing" => probes'[o] < Budget(o)
    BY <1>1, <1>5
  <2>4. step'[o] \in {"deducted", "lost", "failed", "probing", "refused"}
    BY <1>5
  <2>5. b # -1
    BY <1>3 DEF Buckets
  <2>6. Engages(o)'
    BY <1>1, <1>2, <1>3, <2>1, <2>2, <2>3, <2>4, <2>5
       DEF Engages, Engaged, Settled, Quantity, Budget, MaxProbes, Frame
  <2> QED BY <1>1, <2>6, EngagesMoves
<1>9. Stocked'
  <2>1. o \notin Holders
    BY <1>1, HoldersMove DEF Pays
  <2>2. CASE /\ step'[o] \in {"deducted", "lost"} /\ hit' = [hit EXCEPT ![o] = b]
             /\ bucket[b] >= q /\ bucket' = [bucket EXCEPT ![b] = @ - q]
    <3>1. Holders' = Holders \cup {o}
      BY <1>1, <1>2, <2>2, HoldersMove DEF Pays
    <3>2. hit'[o] = b
      BY <1>4, <2>2
    <3> HIDE DEF b
    <3> QED BY <1>1, <1>2, <1>3, <2>1, <2>2, <3>1, <3>2, TakingKeeps
  <2>3. CASE hit' = hit /\ bucket' = bucket /\ step'[o] \in {"failed", "probing", "refused"}
    <3>1. Holders' = Holders
      BY <1>1, <2>1, <2>3, HoldersMove DEF Pays
    <3> QED BY <1>1, <2>3, <3>1, BooksStand
  <2> QED BY <1>5, <2>2, <2>3
<1>10. BooksBalance'
  BY <1>1, SalesStand DEF Frame
<1>11. VisitedAreShort'
  <2>1. step'[o] \notin {"undone", "resold"} /\ \A d \in Buckets : bucket'[d] <= bucket[d]
    BY <1>2, <1>4, <1>5
  <2>2. ASSUME step'[o] \in {"probing", "refused"}, \A s \in Spreads : spread[s] # "done",
               At({"undone", "resold"}) = {}
        PROVE  /\ \A i \in 0..probes'[o] - 1 :
                      bucket'[(StartBucket(o) + i) % BucketCount(o)] < Quantity(o)
               /\ step'[o] = "refused" => probes'[o] = Budget(o)
    <3>1. /\ bucket' = bucket /\ ~(bucket[b] >= q)
          /\ step'[o] = (IF probes[o] + 1 < Budget(o) THEN "probing" ELSE "refused")
      BY <1>5, <2>2
    <3>2. \A i \in 0..probes[o] - 1 : bucket[(StartBucket(o) + i) % BucketCount(o)] < q
      BY <1>1, <2>2 DEF VisitedAreShort, At
    <3>3. bucket[b] < q
      BY <1>2, <1>3, <1>4, <3>1
    <3>4. ASSUME NEW i \in 0..probes'[o] - 1
          PROVE  bucket[(StartBucket(o) + i) % BucketCount(o)] < q
      <4>1. i \in 0..probes[o] - 1 \/ i = probes[o]
        BY <1>1, <1>2
      <4>2. CASE i = probes[o]
        BY <3>3, <4>2 DEF Probed
      <4> QED BY <3>2, <4>1, <4>2
    <3>5. step'[o] = "refused" => probes'[o] = Budget(o)
      BY <1>1, <1>2, <3>1
    <3> QED BY <3>1, <3>4, <3>5
  <2> QED BY <1>1, <1>6, <2>1, <2>2, VisitsStand
<1> QED BY <1>7, <1>8, <1>9, <1>10, <1>11 DEF Stocked

\* A step of a call that has its units, or gives up without any.
LEMMA SettlingKeeps ==
    ASSUME BucketIndInv, NEW o \in Orders, Frame(o), probes' = probes, hit' = hit,
           step[o] \in Engaged, step'[o] \in {"undo", "unsure", "failed"} \cup Settled,
           step[o] = "probing" => step'[o] = "failed",
           bucket' \in [Buckets -> Int],
           step'[o] \notin {"undone", "resold"} => bucket' = bucket,
           late' \subseteq late \cup {o}, step'[o] \notin {"undone", "resold"} => late' = late,
           sold' \subseteq sold \cup {o}
    PROVE  (\A p \in Orders : Engages(p)') /\ VisitedAreShort'
<1> USE DEF BucketIndInv, BucketInv
<1>1. Engages(o)
  OBVIOUS
<1>2. Engages(o)'
  <2>1. o \in late' => step'[o] \in {"undone", "resold"}
    BY <1>1 DEF Engages, Engaged
  <2>2. step'[o] \notin {"start", "probing", "deducted"} /\ past' = past
    BY DEF Settled, Frame
  <2>3. step'[o] \in {"undo", "unsure"} \cup Settled =>
            step[o] \in Engaged \ {"probing"} /\ Quantity(o) > 0 /\ hit[o] \in Buckets
    BY <1>1 DEF Engages, Settled
  <2> QED BY <1>1, <2>1, <2>2, <2>3 DEF Engages, Engaged, Settled, Quantity, Budget, MaxProbes
<1>3. \A p \in Orders : Engages(p)'
  BY <1>2, EngagesMoves
<1>4. VisitedAreShort'
  <2>1. step'[o] \notin {"undone", "resold"} => \A d \in Buckets : bucket'[d] <= bucket[d]
    BY DEF BucketTypeOK
  <2>2. step'[o] \notin {"probing", "refused"} /\ step[o] \notin {"undone", "resold"}
    BY DEF Engaged, Settled
  <2> QED BY <2>1, <2>2, VisitsStand
<1> QED BY <1>3, <1>4

LEMMA WriteOrderKeeps == ASSUME BucketIndInv, NEW o \in Orders, WriteOrder(o) PROVE BucketIndInv'
<1> USE DEF BucketIndInv, BucketInv
<1> DEFINE q == Quantity(o)
<1>1. /\ Frame(o) /\ UNCHANGED <<bucket, probes, hit, late>>
      /\ step[o] = "deducted"
  BY StepFrames DEF WriteOrder, BucketTypeOK
<1>2. q \in Nat /\ q > 0 /\ Wants[o] = q /\ o \notin sold
  <2>1. Engages(o)
    OBVIOUS
  <2> QED BY <1>1, <2>1, ArgsAreTyped DEF Engages, Engaged
<1>3. /\ step \in [Orders -> Engaged \cup {"start", "placed", "refused", "failed",
                                          "undone", "resold", "lost"}]
      /\ rows \subseteq {Args[p].request : p \in Orders} /\ dbStock \in Int
      /\ sold \in SUBSET Orders
  BY DEF BucketTypeOK
<1>4. /\ step' = [step EXCEPT ![o] = step'[o]]
      /\ \/ /\ step'[o] \in {"placed", "unsure"} /\ dbStock' = dbStock - q
            /\ rows' = rows \cup {Args[o].request} /\ sold' = sold \cup {o}
         \/ step'[o] = "undo" /\ dbStock' = dbStock /\ rows' = rows /\ sold' = sold
  BY <1>3 DEF WriteOrder, Commit, GoesTo
<1>5. BucketTypeOK'
  <2>1. dbStock' \in Int /\ rows' \subseteq {Args[p].request : p \in Orders}
        /\ sold' \in SUBSET Orders
    BY <1>2, <1>3, <1>4
  <2>2. step' \in [Orders -> Engaged \cup {"start", "placed", "refused", "failed",
                                           "undone", "resold", "lost"}]
    BY <1>3, <1>4 DEF Engaged
  <2> QED BY <1>1, <2>1, <2>2 DEF BucketTypeOK, Budget, MaxProbes, Frame
<1>6. (\A p \in Orders : Engages(p)') /\ VisitedAreShort'
  <2>1. step[o] \in Engaged /\ step'[o] \in {"undo", "unsure", "failed"} \cup Settled
    BY <1>1, <1>4 DEF Engaged, Settled
  <2>2. bucket' \in [Buckets -> Int]
    BY <1>5 DEF BucketTypeOK
  <2>3. /\ step[o] # "probing" /\ bucket' = bucket /\ late' = late
        /\ late' \subseteq late \cup {o} /\ sold' \subseteq sold \cup {o}
        /\ Frame(o) /\ probes' = probes /\ hit' = hit
    BY <1>1, <1>4
  <2> HIDE DEF BucketIndInv, BucketInv
  <2> QED BY ONLY BucketIndInv, o \in Orders, <2>1, <2>2, <2>3, SettlingKeeps
<1>7. Stocked'
  <2>1. Holders' = Holders
    BY <1>1, <1>4, HoldersMove DEF Pays
  <2> QED BY <1>1, <2>1, BooksStand
<1>8. BooksBalance'
  <2>1. CASE dbStock' = dbStock /\ sold' = sold
    BY <1>1, <2>1, SalesStand DEF Frame
  <2>2. CASE dbStock' = dbStock - q /\ sold' = sold \cup {o}
    <3>1. Units(sold)' = Units(sold \cup {o})
      BY <2>2 DEF Units, Quantity
    <3>2. Units(sold \cup {o}) = Units(sold) + q /\ Units(sold) \in Nat
      BY <1>2, <1>3, UnitsJoin
    <3>3. dbStock + Units(sold) + elsewhere = Stock /\ elsewhere' = elsewhere /\ elsewhere \in Int
      BY <1>1 DEF BooksBalance, Frame, BucketTypeOK
    <3>4. dbStock' + Units(sold)' + elsewhere' = Stock
      <4>1. dbStock' + (Units(sold) + q) + elsewhere = Stock
        BY <1>2, <1>3, <2>2, <3>2, <3>3
      <4> QED BY <3>1, <3>2, <3>3, <4>1
    <3>5. base' = base /\ seen' = seen /\ sold \subseteq sold'
      BY <1>1, <2>2 DEF Frame
    <3>6. Books(base)' /\ base.sold \subseteq sold
      <4>1. Units(base.sold)' = Units(base.sold)
        BY <3>5 DEF Units, Quantity
      <4> QED BY <3>5, <4>1 DEF Books, BooksBalance
    <3>7. ASSUME NEW s \in Spreads PROVE Books(seen[s])' /\ seen[s].sold \subseteq sold
      <4>1. Units(seen[s].sold)' = Units(seen[s].sold)
        BY <3>5 DEF Units, Quantity
      <4> QED BY <3>5, <4>1 DEF Books, BooksBalance
    <3> QED BY <3>4, <3>5, <3>6, <3>7 DEF BooksBalance
  <2> QED BY <1>4, <2>1, <2>2
<1> QED BY <1>5, <1>6, <1>7, <1>8 DEF Stocked

LEMMA RollbackKeeps == ASSUME BucketIndInv, NEW o \in Orders, RollbackToBucket(o) PROVE BucketIndInv'
<1> USE DEF BucketIndInv, BucketInv
<1> DEFINE b == hit[o]
           q == Quantity(o)
<1>1. /\ Frame(o) /\ UNCHANGED <<dbStock, rows, probes, hit, sold>>
      /\ step[o] \in {"undo", "unsure"}
  BY StepFrames DEF RollbackToBucket, BucketTypeOK
<1>2. b \in Buckets /\ q \in Nat /\ q > 0 /\ o \notin late
  <2>1. Engages(o)
    OBVIOUS
  <2> QED BY <1>1, <2>1, ArgsAreTyped DEF Engages, Engaged
<1>3. /\ step \in [Orders -> Engaged \cup {"start", "placed", "refused", "failed",
                                          "undone", "resold", "lost"}]
      /\ bucket \in [Buckets -> Int] /\ late \subseteq past
  BY DEF BucketTypeOK
<1>4. /\ step' = [step EXCEPT ![o] = step'[o]]
      /\ \/ /\ bucket' = [bucket EXCEPT ![b] = @ + q]
            /\ step'[o] \in {"undone", "resold"}
            /\ late' = late \cup ({o} \cap past)
         \/ bucket' = bucket /\ step'[o] = "lost" /\ late' = late
  BY <1>3 DEF RollbackToBucket, RollbackBucket, GoesTo
<1>5. bucket' \in [Buckets -> Int] /\ late' \subseteq past
  BY <1>2, <1>3, <1>4
<1>6. BucketTypeOK'
  <2>1. step' \in [Orders -> Engaged \cup {"start", "placed", "refused", "failed",
                                           "undone", "resold", "lost"}]
    BY <1>3, <1>4 DEF Engaged
  <2> QED BY <1>1, <1>5, <2>1 DEF BucketTypeOK, Budget, MaxProbes, Frame
<1>7. (\A p \in Orders : Engages(p)') /\ VisitedAreShort'
  <2>1. /\ step[o] \in Engaged /\ step[o] # "probing"
        /\ step'[o] \in {"undo", "unsure", "failed"} \cup Settled
    BY <1>1, <1>4 DEF Engaged, Settled
  <2>2. /\ step'[o] \notin {"undone", "resold"} => bucket' = bucket /\ late' = late
        /\ late' \subseteq late \cup {o} /\ sold' \subseteq sold \cup {o}
        /\ Frame(o) /\ probes' = probes /\ hit' = hit
    BY <1>1, <1>4
  <2> HIDE DEF BucketIndInv, BucketInv
  <2> QED BY ONLY BucketIndInv, o \in Orders, <1>5, <2>1, <2>2, SettlingKeeps
<1>8. Stocked'
  <2>1. CASE bucket' = bucket /\ step'[o] = "lost" /\ late' = late
    <3>1. Holders' = Holders
      BY <1>1, <2>1, HoldersMove DEF Pays
    <3> QED BY <1>1, <2>1, <3>1, BooksStand
  <2>2. CASE /\ bucket' = [bucket EXCEPT ![b] = @ + q]
             /\ step'[o] \in {"undone", "resold"}
             /\ late' = late \cup ({o} \cap past)
    <3>1. o \notin past => o \in Holders /\ Holders' = Holders \ {o} /\ late' = late
      BY <1>1, <2>2, HoldersMove DEF Pays
    <3>2. o \in past => Holders' = Holders /\ late' = late \cup {o}
      BY <1>1, <2>2, HoldersMove DEF Pays
    <3>3. Returns(o, Holders, Holders', late, late')
      BY <1>2, <3>1, <3>2 DEF Returns
    <3> HIDE DEF BucketIndInv, BucketInv
    <3> QED BY <1>1, <1>2, <2>2, <3>3, GivingBackKeeps
  <2> QED BY <1>4, <2>1, <2>2
<1>9. BooksBalance'
  BY <1>1, SalesStand DEF Frame
<1> QED BY <1>6, <1>7, <1>8, <1>9 DEF Stocked

LEMMA CrashKeeps == ASSUME BucketIndInv, NEW o \in Orders, Crash(o) PROVE BucketIndInv'
<1> USE DEF BucketIndInv, BucketInv
<1>1. Frame(o) /\ UNCHANGED <<bucket, dbStock, rows, probes, hit, sold, late>>
  BY StepFrames DEF Crash
<1>2. /\ step \in [Orders -> Engaged \cup {"start", "placed", "refused", "failed",
                                          "undone", "resold", "lost"}]
      /\ bucket \in [Buckets -> Int]
  BY DEF BucketTypeOK
<1>3. /\ step' = [step EXCEPT ![o] = step'[o]]
      /\ \/ step[o] = "probing" /\ step'[o] = "failed"
         \/ step[o] \in {"deducted", "undo", "unsure"} /\ step'[o] = "lost"
  BY <1>2 DEF Crash, GoesTo
<1>4. BucketTypeOK'
  <2>1. step' \in [Orders -> Engaged \cup {"start", "placed", "refused", "failed",
                                           "undone", "resold", "lost"}]
    BY <1>2, <1>3 DEF Engaged
  <2> QED BY <1>1, <2>1 DEF BucketTypeOK, Budget, MaxProbes, Frame
<1>5. (\A p \in Orders : Engages(p)') /\ VisitedAreShort'
  <2>1. /\ step[o] \in Engaged /\ step'[o] \in {"undo", "unsure", "failed"} \cup Settled
        /\ step[o] = "probing" => step'[o] = "failed"
    BY <1>3 DEF Engaged, Settled
  <2>2. /\ step'[o] \notin {"undone", "resold"} => bucket' = bucket /\ late' = late
        /\ late' \subseteq late \cup {o} /\ sold' \subseteq sold \cup {o}
        /\ Frame(o) /\ probes' = probes /\ hit' = hit /\ bucket' \in [Buckets -> Int]
    BY <1>1, <1>2
  <2> HIDE DEF BucketIndInv, BucketInv
  <2> QED BY ONLY BucketIndInv, o \in Orders, <2>1, <2>2, SettlingKeeps
<1>6. Stocked'
  <2>1. Holders' = Holders
    BY <1>1, <1>3, HoldersMove DEF Pays
  <2> QED BY <1>1, <2>1, BooksStand
<1>7. BooksBalance'
  BY <1>1, SalesStand DEF Frame
<1> QED BY <1>4, <1>5, <1>6, <1>7 DEF Stocked

-------------------------------------------------------------------------------
LEMMA NobodyCounts == Units({}) = 0
<1>1. UNION {{o} \X (1..Quantity(o)) : o \in {}} = {}
  OBVIOUS
<1> QED BY <1>1, FS_EmptySet DEF Units

\* What a read finds is where the stock went.
LEMMA ReadsBalance ==
    ASSUME BucketTypeOK, dbStock + Units(sold) + elsewhere = Stock
    PROVE  Now \in Reads /\ Books(Now) /\ Now.sold = sold
<1>1. Now.total = dbStock /\ Now.sold = sold /\ Now.elsewhere = elsewhere
  BY DEF Now
<1>2. Books(Now)
  BY <1>1 DEF Books
<1>3. elsewhere \in Nat
  BY BucketAssumption DEF BucketTypeOK, BucketAssumption
<1> QED BY <1>1, <1>2, <1>3 DEF Now, Reads, BucketTypeOK

\* Where no call moves, no call knows anything new.
LEMMA CallsStand ==
    ASSUME BucketIndInv, UNCHANGED <<bucket, step, probes, hit, sold, late, past>>,
           \A s \in Spreads : spread'[s] # "done" => spread[s] # "done"
    PROVE  (\A o \in Orders : Engages(o)') /\ VisitedAreShort'
<1>1. ASSUME NEW o \in Orders PROVE Engages(o)'
  <2>1. Engages(o)
    BY DEF BucketIndInv
  <2> QED BY <2>1 DEF Engages, Quantity, Budget, MaxProbes
<1>2. VisitedAreShort'
  <2>1. At({"undone", "resold"})' = At({"undone", "resold"})
        /\ At({"probing", "refused"})' = At({"probing", "refused"})
    BY DEF At
  <2>2. (\A s \in Spreads : spread'[s] # "done") => \A s \in Spreads : spread[s] # "done"
    OBVIOUS
  <2> QED BY <2>1, <2>2 DEF VisitedAreShort, BucketIndInv, StartBucket, BucketCount, Quantity, Budget,
                            MaxProbes
<1> QED BY <1>1, <1>2

\* ... and the buckets keep their books.
LEMMA StockStands ==
    ASSUME BucketIndInv, UNCHANGED <<bucket, step, hit, late, past, planned, count, base>>
    PROVE  Stocked'
<1>1. Holders' = Holders /\ \A b : From(b, Holders)' = From(b, Holders) /\ From(b, late)' = From(b, late)
  BY DEF Holders, At, From
<1>2. ASSUME NEW b PROVE /\ Units(From(b, Holders))' = Units(From(b, Holders))
                         /\ Units(From(b, late))' = Units(From(b, late))
  BY <1>1 DEF Units, Quantity
<1>3. EveryBucketBalances'
  BY <1>2 DEF BucketIndInv, BucketInv, EveryBucketBalances
<1>4. NoBucketOverdrawn'
  BY DEF BucketIndInv, BucketInv, NoBucketOverdrawn
<1>5. SpreadCovers'
  <2>1. Fresh(Holders)' = Fresh(Holders) /\ Fresh(late)' = Fresh(late)
    BY <1>1 DEF Fresh
  <2>2. Units(Fresh(Holders))' = Units(Fresh(Holders)) /\ Units(Fresh(late))' = Units(Fresh(late))
    BY <2>1 DEF Units, Quantity
  <2>3. Offered(count)' = Offered(count) /\ Handed' = Handed
    BY DEF Offered, Handed
  <2> QED BY <2>2, <2>3 DEF SpreadCovers, BucketIndInv
<1> QED BY <1>3, <1>4, <1>5 DEF Stocked

LEMMA SpreadReadKeeps == ASSUME BucketIndInv, NEW s \in Spreads, SpreadRead(s) PROVE BucketIndInv'
<1> USE DEF BucketIndInv, BucketInv
<1>1. /\ spread' = [spread EXCEPT ![s] = "read"] /\ seen' = [seen EXCEPT ![s] = Now]
      /\ UNCHANGED <<bucket, dbStock, rows, step, probes, hit, sold, late, elsewhere,
                     base, count, planned, past>>
  BY DEF SpreadRead
<1>2. Now \in Reads /\ Books(Now) /\ Now.sold = sold
  BY ReadsBalance DEF BooksBalance
<1>3. BucketTypeOK'
  BY <1>1, <1>2 DEF BucketTypeOK, Budget, MaxProbes
<1>4. (\A o \in Orders : Engages(o)') /\ VisitedAreShort'
  <2>1. \A t \in Spreads : spread'[t] # "done" => spread[t] # "done"
    BY <1>1 DEF SpreadRead, BucketTypeOK
  <2> QED BY <1>1, <2>1, CallsStand
<1>5. Stocked'
  BY <1>1, StockStands
<1>6. BooksBalance'
  <2>1. ASSUME NEW t \in Spreads PROVE Books(seen[t])' /\ seen'[t].sold \subseteq sold
    <3>1. PICK r : r = seen'[t]
      OBVIOUS
    <3>2. Books(r) /\ r.sold \subseteq sold
      BY <1>1, <1>2, <3>1 DEF BooksBalance, BucketTypeOK
    <3>3. Units(seen[t].sold)' = Units(r.sold)
      BY <3>1 DEF Units, Quantity
    <3> QED BY <3>1, <3>2, <3>3 DEF Books
  <2>2. Units(base.sold)' = Units(base.sold) /\ Units(sold)' = Units(sold)
    BY <1>1 DEF Units, Quantity
  <2> QED BY <1>1, <2>1, <2>2 DEF BooksBalance, Books
<1> QED BY <1>3, <1>4, <1>5, <1>6 DEF Stocked

LEMMA SellElsewhereKeeps ==
    ASSUME BucketIndInv, NEW q \in 1..MaxElsewhere, SellElsewhere(q) PROVE BucketIndInv'
<1> USE DEF BucketIndInv, BucketInv
<1>1. /\ elsewhere + q <= MaxElsewhere /\ elsewhere' = elsewhere + q /\ dbStock' = dbStock - q
      /\ UNCHANGED <<bucket, rows, step, probes, hit, sold, late>>
      /\ UNCHANGED <<spread, seen, base, count, planned, past>>
  BY DEF SellElsewhere, spreadVars
<1>2. elsewhere \in Nat /\ q \in Nat /\ MaxElsewhere \in Nat /\ dbStock \in Int
  BY BucketAssumption DEF BucketTypeOK, BucketAssumption
<1>3. elsewhere' \in 0..MaxElsewhere /\ dbStock' \in Int
  BY <1>1, <1>2
<1>4. BucketTypeOK'
  BY <1>1, <1>3 DEF BucketTypeOK, Budget, MaxProbes
<1>5. (\A o \in Orders : Engages(o)') /\ VisitedAreShort'
  BY <1>1, CallsStand
<1>6. Stocked'
  BY <1>1, StockStands
<1>7. BooksBalance'
  <2>1. Units(base.sold)' = Units(base.sold) /\ Units(sold)' = Units(sold)
    BY <1>1 DEF Units, Quantity
  <2>2. ASSUME NEW t \in Spreads PROVE Books(seen[t])' /\ seen'[t].sold \subseteq sold'
    <3>1. Units(seen[t].sold)' = Units(seen[t].sold)
      BY <1>1 DEF Units, Quantity
    <3> QED BY <1>1, <3>1 DEF Books, BooksBalance
  <2>3. dbStock' + Units(sold)' + elsewhere' = Stock
    <3>1. dbStock + Units(sold) + elsewhere = Stock /\ Units(sold) \in Nat
      BY UnitsAreCells DEF BooksBalance, BucketTypeOK
    <3>2. (dbStock - q) + Units(sold) + (elsewhere + q) = Stock
      BY <1>2, <3>1
    <3> QED BY <1>1, <2>1, <3>2
  <2> QED BY <1>1, <2>1, <2>2, <2>3 DEF BooksBalance, Books
<1> QED BY <1>4, <1>5, <1>6, <1>7 DEF Stocked

\* What a spread writes is what it read, or nothing if that was a debt.
LEMMA PlanIsAll ==
    ASSUME NEW total \in Int, NEW n \in Nat \ {0}, NEW f, NEW g \in [Buckets -> Int],
           0..n - 1 \subseteq Buckets, f = Over(Plan(total, n), g)
    PROVE  /\ f \in [Buckets -> Int]
           /\ Cardinality(Cells(0..n - 1, f)) = (IF total < 0 THEN 0 ELSE total)
<1> DEFINE P == Plan(total, n)
<1>1. DOMAIN P = 0..n - 1 /\ f = [d \in Buckets |-> IF d \in 0..n - 1 THEN P[d] ELSE g[d]]
  BY DEF Over, Plan
<1>2. CASE total >= 0
  <2>1. total \in Nat
    BY <1>2
  <2>2. P \in [0..n - 1 -> Nat] /\ Cardinality(Cells(0..n - 1, P)) = total
    BY <2>1, PlanAddsUp
  <2> HIDE DEF P
  <2>3. \A d \in 0..n - 1 : f[d] = P[d]
    BY <1>1
  <2>4. Cells(0..n - 1, f) = Cells(0..n - 1, P)
    BY <2>3 DEF Cells
  <2>5. f \in [Buckets -> Int]
    BY <1>1, <2>2
  <2>6. (IF total < 0 THEN 0 ELSE total) = total
    BY <1>2
  <2> QED BY <2>2, <2>4, <2>5, <2>6
<1>3. CASE ~(total >= 0)
  <2>1. total < 0
    BY <1>3
  <2>2. P \in [0..n - 1 -> Int] /\ \A d \in 0..n - 1 : P[d] <= 0
    BY <2>1, PlanOfDebt
  <2> HIDE DEF P
  <2>3. \A d \in 0..n - 1 : f[d] = P[d] /\ f[d] \in Int /\ f[d] <= 0
    BY <1>1, <2>2
  <2>4. \A d \in 0..n - 1 : 1..f[d] = {}
    BY <2>3
  <2>5. Cells(0..n - 1, f) = {}
    BY <2>4 DEF Cells
  <2>6. f \in [Buckets -> Int]
    BY <1>1, <2>2
  <2> QED BY <2>1, <2>5, <2>6, FS_EmptySet
<1> QED BY <1>2, <1>3

LEMMA SpreadWriteKeeps == ASSUME BucketIndInv, NEW s \in Spreads, SpreadWrite(s) PROVE BucketIndInv'
<1> USE DEF BucketIndInv, BucketInv
<1> DEFINE n == Widths[s]
<1>1. /\ spread' = [spread EXCEPT ![s] = "done"]
      /\ bucket' = Over(Plan(seen[s].total, n), bucket)
      /\ planned' = bucket' /\ count' = n /\ base' = seen[s]
      /\ past' = {o \in Orders : hit[o] # -1} /\ late' = {}
      /\ UNCHANGED <<dbStock, rows, step, probes, hit, sold, elsewhere, seen>>
  BY DEF SpreadWrite, MSet
<1>2. n \in Counts /\ n \in Nat \ {0} /\ 0..n - 1 \subseteq Buckets
  BY BucketAssumption DEF BucketAssumption, Counts, Buckets
<1>3. seen[s] \in Reads /\ seen[s].total \in Int /\ bucket \in [Buckets -> Int]
  BY DEF BucketTypeOK, Reads
<1>4. /\ bucket' \in [Buckets -> Int]
      /\ Cardinality(Cells(0..n - 1, bucket')) =
             (IF seen[s].total < 0 THEN 0 ELSE seen[s].total)
  <2> DEFINE total == seen[s].total
             f == bucket'
  <2>1. n \in Nat \ {0} /\ total \in Int /\ 0..n - 1 \subseteq Buckets /\ f = Over(Plan(total, n), bucket)
    BY <1>1, <1>2, <1>3
  <2> HIDE DEF n, total, f
  <2>2. /\ f \in [Buckets -> Int]
        /\ Cardinality(Cells(0..n - 1, f)) = (IF total < 0 THEN 0 ELSE total)
    BY <1>3, <2>1, PlanIsAll
  <2> QED BY <2>2 DEF total, f
<1>5. BucketTypeOK'
  BY <1>1, <1>2, <1>3, <1>4 DEF BucketTypeOK, Budget, MaxProbes
<1>6. ASSUME NEW o \in Orders PROVE Engages(o)'
  <2>1. Engages(o)
    OBVIOUS
  <2> QED BY <1>1, <2>1 DEF Engages, Quantity, Budget, MaxProbes
<1>7. VisitedAreShort'
  <2>1. spread'[s] = "done"
    BY <1>1 DEF BucketTypeOK
  <2> QED BY <2>1 DEF VisitedAreShort
<1>8. Holders' = {}
  <2> SUFFICES ASSUME NEW o \in Orders, step[o] \in Pays PROVE o \in past'
    BY <1>1 DEF Holders, At, Pays
  <2>1. hit[o] \in Buckets
    BY DEF Engages, Engaged, Settled, Pays
  <2> QED BY <1>1, <2>1 DEF Buckets
<1>9. EveryBucketBalances' /\ NoBucketOverdrawn'
  <2>1. ASSUME NEW b \in Buckets
        PROVE  bucket'[b] + Units(From(b, Holders))' = planned'[b] + Units(From(b, late))'
    <3>1. From(b, Holders)' = {} /\ From(b, late)' = {}
      BY <1>1, <1>8 DEF From
    <3>2. Units(From(b, Holders))' = Units({}) /\ Units(From(b, late))' = Units({})
      BY <3>1 DEF Units, Quantity
    <3> QED BY <1>1, <3>2
  <2>2. ASSUME NEW b \in Buckets PROVE bucket'[b] >= 0 \/ bucket'[b] >= planned'[b]
    BY <1>1, <1>4
  <2> QED BY <2>1, <2>2 DEF EveryBucketBalances, NoBucketOverdrawn
<1>10. SpreadCovers'
  <2>1. Fresh(Holders)' = {} /\ Fresh(late)' = {}
    BY <1>1, <1>8 DEF Fresh
  <2>2. Units(Fresh(Holders))' = 0 /\ Units(Fresh(late))' = 0
    <3>1. Units(Fresh(Holders))' = Units({}) /\ Units(Fresh(late))' = Units({})
      BY <2>1 DEF Units, Quantity
    <3> QED BY <3>1, NobodyCounts
  <2>3. Offered(count)' = Cardinality(Cells(0..n - 1, bucket'))
    BY <1>1 DEF Offered, Cells
  <2>4. Handed' = (IF seen[s].total < 0 THEN 0 ELSE seen[s].total)
    BY <1>1 DEF Handed
  <2>5. Handed' \in Int /\ Offered(count)' = Handed'
    BY <1>3, <1>4, <2>3, <2>4
  <2>6. SpreadCovers' <=> Offered(count)' + Units(Fresh(Holders))' <= Handed' + Units(Fresh(late))'
    BY DEF SpreadCovers
  <2>7. PICK t \in Int : t = Handed'
    BY <2>5
  <2>8. PICK u \in Int : u = Offered(count)'
    BY <2>5
  <2>9. u + 0 <= t + 0
    <3>1. u = t
      BY ONLY <2>5, <2>7, <2>8
    <3> QED BY ONLY <3>1, u \in Int, t \in Int
  <2> QED BY <2>2, <2>6, <2>7, <2>8, <2>9
<1>11. BooksBalance'
  <2>1. Units(sold)' = Units(sold)
    BY <1>1 DEF Units, Quantity
  <2>2. ASSUME NEW t \in Spreads PROVE Books(seen[t])' /\ seen[t].sold \subseteq sold
    <3>1. Units(seen[t].sold)' = Units(seen[t].sold)
      BY <1>1 DEF Units, Quantity
    <3> QED BY <1>1, <3>1 DEF Books, BooksBalance
  <2>3. Units(base.sold)' = Units(seen[s].sold)
    BY <1>1 DEF Units, Quantity
  <2>4. Books(base)' /\ seen[s].sold \subseteq sold
    BY <1>1, <2>3 DEF Books, BooksBalance
  <2> QED BY <1>1, <2>1, <2>2, <2>4 DEF BooksBalance
<1> QED BY <1>5, <1>6, <1>7, <1>9, <1>10, <1>11

LEMMA BucketsAtFirst == BucketInit => BucketIndInv
<1> SUFFICES ASSUME BucketInit PROVE BucketIndInv
  OBVIOUS
<1>1. /\ dbStock = Stock /\ count = FirstCount
      /\ planned = Over(Plan(Stock, FirstCount), [b \in Buckets |-> 0]) /\ bucket = planned
      /\ rows = {} /\ sold = {} /\ past = {} /\ late = {} /\ elsewhere = 0 /\ base = Now
      /\ spread = [s \in Spreads |-> "idle"] /\ seen = [s \in Spreads |-> Now]
      /\ step = [o \in Orders |-> "start"] /\ probes = [o \in Orders |-> 0]
      /\ hit = [o \in Orders |-> -1]
  BY DEF BucketInit
<1>2. /\ FirstCount \in Counts /\ FirstCount \in Nat \ {0} /\ 0..FirstCount - 1 \subseteq Buckets
      /\ Stock \in Nat /\ Stock \in Int /\ MaxElsewhere \in Nat
  BY BucketAssumption DEF BucketAssumption, Counts, Buckets
<1>3. [b \in Buckets |-> 0] \in [Buckets -> Int]
  OBVIOUS
<1>4. /\ bucket \in [Buckets -> Int]
      /\ Cardinality(Cells(0..FirstCount - 1, bucket)) = Stock
  <2>1. bucket = Over(Plan(Stock, FirstCount), [b \in Buckets |-> 0])
    BY <1>1
  <2>2. /\ bucket \in [Buckets -> Int]
        /\ Cardinality(Cells(0..FirstCount - 1, bucket)) = (IF Stock < 0 THEN 0 ELSE Stock)
    BY <1>2, <1>3, <2>1, PlanIsAll
  <2> QED BY <1>2, <2>2
<1>5. Now \in Reads /\ Now.sold = {} /\ Now.total = Stock /\ Now.elsewhere = 0
  BY <1>1, <1>2 DEF Now, Reads
<1>6. BucketTypeOK
  <2>1. \A o \in Orders : probes[o] \in 0..Budget(o)
    BY <1>1, ArgsAreTyped
  <2> QED BY <1>1, <1>2, <1>4, <1>5, <2>1 DEF BucketTypeOK
<1>7. Holders = {}
  BY <1>1 DEF Holders, At
<1>8. EveryBucketBalances /\ NoBucketOverdrawn
  <2>1. \A b : From(b, Holders) = {} /\ From(b, late) = {}
    BY <1>1, <1>7 DEF From
  <2>2. \A b \in Buckets : bucket[b] + 0 = planned[b] + 0 /\ bucket[b] >= planned[b]
    BY <1>1, <1>4
  <2> QED BY <2>1, <2>2, NobodyCounts DEF EveryBucketBalances, NoBucketOverdrawn
<1>9. SpreadCovers
  <2>1. Fresh(Holders) = {} /\ Fresh(late) = {}
    BY <1>1, <1>7 DEF Fresh
  <2>2. Offered(count) = Stock
    BY <1>1, <1>4 DEF Offered, Cells
  <2>3. Handed = Stock
    BY <1>1, <1>2, <1>5 DEF Handed
  <2> QED BY <1>2, <2>1, <2>2, <2>3, NobodyCounts DEF SpreadCovers
<1>10. BooksBalance
  <2>1. Books(Now)
    BY <1>2, <1>5, NobodyCounts DEF Books
  <2>2. dbStock + Units(sold) + elsewhere = Stock
    BY <1>1, <1>2, NobodyCounts
  <2> QED BY <1>1, <1>5, <2>1, <2>2 DEF BooksBalance
<1>11. \A o \in Orders : Engages(o)
  BY <1>1 DEF Engages, Engaged, Settled
<1>12. VisitedAreShort
  BY <1>1 DEF VisitedAreShort, At
<1> QED BY <1>6, <1>8, <1>9, <1>10, <1>11, <1>12 DEF BucketIndInv, BucketInv

LEMMA BucketStepKeeps == BucketIndInv /\ [BucketNext]_stockVars => BucketIndInv'
<1> SUFFICES ASSUME BucketIndInv, [BucketNext]_stockVars PROVE BucketIndInv'
  OBVIOUS
<1>1. ASSUME NEW o \in Orders,
             Begin(o) \/ Probe(o) \/ WriteOrder(o) \/ RollbackToBucket(o) \/ Crash(o)
      PROVE  BucketIndInv'
  BY <1>1, BeginKeeps, ProbeKeeps, WriteOrderKeeps, RollbackKeeps, CrashKeeps
<1>2. ASSUME NEW s \in Spreads, SpreadRead(s) \/ SpreadWrite(s) PROVE BucketIndInv'
  BY <1>2, SpreadReadKeeps, SpreadWriteKeeps
<1>3. ASSUME NEW q \in 1..MaxElsewhere, SellElsewhere(q) PROVE BucketIndInv'
  BY <1>3, SellElsewhereKeeps
<1>4. CASE UNCHANGED stockVars
  <2>1. /\ UNCHANGED <<bucket, dbStock, rows, step, probes, hit, sold, late, elsewhere>>
        /\ UNCHANGED <<spread, seen, base, count, planned, past>>
    BY <1>4 DEF stockVars, marketVars, spreadVars
  <2>2. (\A o \in Orders : Engages(o)') /\ VisitedAreShort'
    BY <2>1, CallsStand
  <2>3. Stocked'
    BY <2>1, StockStands
  <2>4. BooksBalance'
    BY <2>1, SalesStand
  <2>5. BucketTypeOK'
    BY <2>1 DEF BucketIndInv, BucketInv, BucketTypeOK, Budget, MaxProbes
  <2> QED BY <2>2, <2>3, <2>4, <2>5 DEF BucketIndInv, BucketInv, Stocked
<1> QED BY <1>1, <1>2, <1>3, <1>4 DEF BucketNext

THEOREM BucketInvariance == BucketSpec => []BucketIndInv
  BY BucketsAtFirst, BucketStepKeeps, PTL DEF BucketSpec

\* Bucket by bucket, what is missing is with the orders that took it there or lost with
\* them, and what there is too much came from orders of before the last spread, at
\* whatever times spreads read and write (p1_bucket.go:68-70, p2_spread.go:29-52).
THEOREM BucketsBalance == BucketSpec => []BucketInv
<1>1. BucketIndInv => BucketInv
  BY DEF BucketIndInv
<1> QED BY <1>1, BucketInvariance, PTL

\* Units of two sets of orders.
LEMMA UnitsAdd ==
    ASSUME NEW A \in SUBSET Orders, NEW B \in SUBSET Orders
    PROVE  /\ A \cap B = {} => Units(A \cup B) = Units(A) + Units(B)
           /\ \A C \in SUBSET (A \cup B) : Units(C) <= Units(A) + Units(B)
<1> DEFINE X == Cells(A, Wants)
           Y == Cells(B, Wants)
<1>1. IsFiniteSet(Orders) /\ Wants \in [Orders -> Nat]
  BY BucketAssumption, ArgsAreTyped DEF BucketAssumption, Wants
<1>2. IsFiniteSet(X) /\ IsFiniteSet(Y) /\ Cardinality(X) \in Nat /\ Cardinality(Y) \in Nat
  BY <1>1, CellsAreFinite
<1>3. Units(A) = Cardinality(X) /\ Units(B) = Cardinality(Y)
  BY UnitsAreCells
<1>4. Cells(A \cup B, Wants) = X \cup Y
  BY DEF Cells
<1>5. A \cap B = {} => X \cap Y = {}
  BY DEF Cells
<1>6. ASSUME NEW C \in SUBSET (A \cup B)
      PROVE  C \in SUBSET Orders /\ Cells(C, Wants) \subseteq X \cup Y
  BY DEF Cells
<1> HIDE DEF X, Y
<1>7. /\ IsFiniteSet(X \cup Y) /\ IsFiniteSet(X \cap Y)
      /\ Cardinality(X \cup Y) = Cardinality(X) + Cardinality(Y) - Cardinality(X \cap Y)
      /\ Cardinality(X \cap Y) \in Nat
  <2>1. IsFiniteSet(X \cap Y)
    BY <1>2, FS_Intersection
  <2> QED BY <1>2, <2>1, FS_Union, FS_CardinalityType
<1>8. A \cap B = {} => Units(A \cup B) = Units(A) + Units(B)
  <2>1. Units(A \cup B) = Cardinality(X \cup Y)
    BY <1>4, UnitsAreCells
  <2> QED BY <1>2, <1>3, <1>5, <1>7, <2>1, FS_EmptySet
<1>9. ASSUME NEW C \in SUBSET (A \cup B) PROVE Units(C) <= Units(A) + Units(B)
  <2>1. Units(C) = Cardinality(Cells(C, Wants)) /\ Cells(C, Wants) \subseteq X \cup Y
    BY <1>6, UnitsAreCells
  <2>2. Cardinality(Cells(C, Wants)) <= Cardinality(X \cup Y) /\ Cardinality(Cells(C, Wants)) \in Nat
    BY <1>7, <2>1, FS_Subset, FS_CardinalityType
  <2> QED BY <1>2, <1>3, <1>7, <2>1, <2>2
<1> QED BY <1>8, <1>9

\* MySQL backs what the buckets offer and what calls took from them (model.go:64-66), but
\* for the units of the orders and sales that OffersAreBacked names.
THEOREM BucketsAreBacked == BucketSpec => []OffersAreBacked
<1>1. BucketIndInv => OffersAreBacked
  <2> SUFFICES ASSUME BucketIndInv PROVE OffersAreBacked
    OBVIOUS
  <2> DEFINE H == Fresh(Holders)
             R == base.sold
             A == H \ sold
             S == SoldPast
  <2>1. /\ BucketTypeOK /\ R \subseteq sold /\ sold \in SUBSET Orders /\ R \in SUBSET Orders
        /\ H \in SUBSET Orders /\ A \in SUBSET Orders /\ S \in SUBSET Orders
        /\ Fresh(late) \in SUBSET Orders
    BY DEF BucketIndInv, BucketInv, BooksBalance, BucketTypeOK, Fresh, Holders, At, SoldPast
  <2>2. sold \subseteq (R \cup S) \cup (H \cap sold)
    BY DEF SoldPast
  <2>3. dbStock + Units(sold) + elsewhere = Stock /\ base.total + Units(R) + base.elsewhere = Stock
    BY DEF BucketIndInv, BooksBalance, Books
  <2>4. Offered(count) + Units(H) <= Handed + Units(Fresh(late))
    BY DEF BucketIndInv, SpreadCovers
  <2>5. /\ dbStock \in Int /\ elsewhere \in Int /\ base.total \in Int /\ base.elsewhere \in Int
        /\ Handed = base.total + Oversold
    BY <2>1 DEF BucketTypeOK, Reads, Handed, Oversold
  <2>6. Oversold \in Int
    BY <2>5 DEF Oversold
  <2>7. Offered(count) \in Nat
    <3>2. count \in Nat /\ count > 0 /\ 0..count - 1 \subseteq Buckets
      BY <2>1, BucketAssumption DEF BucketTypeOK, BucketAssumption, Buckets
    <3> DEFINE G == [d \in 0..count - 1 |-> Plus(bucket[d])]
               n == count
    <3>3. Offered(n) = Cardinality(Cells(0..n - 1, G))
      BY <2>1, <3>2, OffersAreCells DEF Offered, BucketTypeOK
    <3>4. \A d \in 0..n - 1 : G[d] \in Nat
      BY <2>1, <3>2 DEF BucketTypeOK, Plus
    <3>5. n \in Nat /\ 0 \in 0..n - 1
      BY <3>2
    <3> HIDE DEF G, n
    <3>6. Cardinality(Cells(0..n - 1, G)) \in Nat
      BY <3>4, <3>5, SumMoves
    <3> QED BY <3>3, <3>6 DEF n
  <2>8. /\ Units(sold) \in Nat /\ Units(R) \in Nat /\ Units(S) \in Nat /\ Units(H) \in Nat
        /\ Units(A) \in Nat /\ Units(Fresh(late)) \in Nat
    BY <2>1, UnitsAreCells
  <2>9. Units(sold) + Units(A) <= Units(R) + Units(S) + Units(H)
    <3>1. A \cap sold = {} /\ sold \cap A = {} /\ sold \cup A \subseteq (R \cup S) \cup H
      BY <2>2
    <3> HIDE DEF A, H, S, R
    <3>2. Units(sold \cup A) = Units(sold) + Units(A)
      BY <2>1, <3>1, UnitsAdd
    <3>3. R \cup S \in SUBSET Orders /\ Units(R \cup S) \in Nat /\ sold \cup A \in SUBSET ((R \cup S) \cup H)
      BY <2>1, <3>1, UnitsAreCells
    <3>4. Units(sold \cup A) <= Units(R \cup S) + Units(H)
      BY <2>1, <3>3, UnitsAdd
    <3>5. R \cup S \in SUBSET (R \cup S)
      OBVIOUS
    <3>6. Units(R \cup S) <= Units(R) + Units(S)
      BY <2>1, <3>5, UnitsAdd
    <3> QED BY <2>8, <3>2, <3>3, <3>4, <3>6
  <2>10. OffersAreBacked <=>
            Offered(count) + Units(A) <=
                dbStock + Units(S) + (elsewhere - base.elsewhere) + Units(Fresh(late)) + Oversold
    BY DEF OffersAreBacked
  <2> HIDE DEF H, R, A, S
  <2> QED BY <2>3, <2>4, <2>5, <2>6, <2>7, <2>8, <2>9, <2>10
<1> QED BY <1>1, BucketInvariance, PTL

\* An order is refused only for want of units in every bucket its budget lets it visit
\* (model.go:35-37), until a spread is written or units come back.
THEOREM RefusalsHaveTheirReason == BucketSpec => []RefusedOnlyWhenShort
<1>1. BucketIndInv => RefusedOnlyWhenShort
  <2> SUFFICES ASSUME BucketIndInv,
                      \A s \in Spreads : spread[s] # "done", At({"undone", "resold"}) = {},
                      NEW o \in At({"refused"}), NEW i \in 0..MaxProbes(o)
               PROVE  bucket[(StartBucket(o) + i) % BucketCount(o)] < Quantity(o)
    BY DEF RefusedOnlyWhenShort
  <2>1. o \in Orders /\ o \in At({"probing", "refused"}) /\ step[o] = "refused"
    BY DEF At
  <2>2. probes[o] = Budget(o)
        /\ \A j \in 0..probes[o] - 1 : bucket[(StartBucket(o) + j) % BucketCount(o)] < Quantity(o)
    BY <2>1 DEF BucketIndInv, VisitedAreShort
  <2>3. i \in 0..probes[o] - 1
    BY <2>1, <2>2, ArgsAreTyped DEF Budget
  <2> QED BY <2>2, <2>3
<1> QED BY <1>1, BucketInvariance, PTL
===============================================================================
