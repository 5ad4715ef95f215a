------------------------------- MODULE Breaker -------------------------------
(***************************************************************************)
(* overload.Breaker, called by any number of goroutines at once.  The      *)
(* breaker's mutex makes the part of Do before the call, the part after    *)
(* it, and State, one step each; the call itself runs between them, and    *)
(* the breaker may have changed its state more than once when it returns.  *)
(*                                                                         *)
(* Time is kept only as far as the code looks at it: cooled says whether   *)
(* OpenFor has passed since openedAt.  The dependency behind the breaker   *)
(* is down until it heals, once; a call made while it was down may fail or *)
(* succeed, a call made after it healed succeeds.                          *)
(*                                                                         *)
(* The call may also panic: nothing in Do is deferred, so that the part    *)
(* after the call is left out and a probe stays counted, while the process *)
(* lives on under the recovery of its HTTP server.                         *)
(***************************************************************************)
EXTENDS Integers, FiniteSets

CONSTANTS Calls,             \* the goroutines that call Do, again and again
          FailureThreshold, HalfOpenProbes,
          MaxPanics          \* bound: calls that panic

ASSUME BreakerAssumption ==
    /\ IsFiniteSet(Calls)
    /\ FailureThreshold \in Nat \ {0}
    /\ HalfOpenProbes \in Nat \ {0}
    /\ MaxPanics \in Nat

VARIABLES state, failures, probesInFlight,
          cooled,    \* now - openedAt >= OpenFor
          running,   \* what each goroutine is in the middle of
          exposed,   \* the goroutines whose call was made while the dependency was down
          healthy,   \* the dependency has healed
          panics,    \* history: the calls that panicked,
          leaked     \* ... and the probes among them since the half-open state began

policy == <<state, failures, probesInFlight, cooled, leaked>>
breakerVars == <<policy, running, exposed, healthy, panics>>

BreakerInit ==
    /\ state = "closed"
    /\ failures = 0
    /\ probesInFlight = 0
    /\ cooled = FALSE
    /\ running = [c \in Calls |-> "nothing"]
    /\ exposed = {}
    /\ healthy = FALSE
    /\ panics = 0 /\ leaked = 0

-------------------------------------------------------------------------------
\* checkTransitionLocked: the state in which a step that looks at the breaker
\* finds it, the probes it then counts, and how many of those have panicked.
Looked == IF state = "open" /\ cooled THEN "half-open" ELSE state
Counted == IF state = "open" /\ cooled THEN 0 ELSE probesInFlight
Leaked == IF state = "open" /\ cooled THEN 0 ELSE leaked

MayProbe == Counted < HalfOpenProbes

\* Do, up to the call.  A refused goroutine gets ErrBreakerOpen.
Refuse ==
    /\ \/ Looked = "open"
       \/ Looked = "half-open" /\ ~MayProbe
    /\ state' = Looked
    /\ probesInFlight' = Counted
    /\ leaked' = Leaked
    /\ UNCHANGED <<failures, cooled, running, exposed, healthy, panics>>

Enter(c) ==
    /\ running[c] = "nothing"
    /\ \/ /\ Looked = "closed"
          /\ running' = [running EXCEPT ![c] = "call"]
          /\ UNCHANGED <<state, probesInFlight>>
       \/ /\ Looked = "half-open" /\ MayProbe
          /\ running' = [running EXCEPT ![c] = "probe"]
          /\ state' = "half-open"
          /\ probesInFlight' = Counted + 1
    /\ leaked' = Leaked
    /\ exposed' = IF healthy THEN exposed \ {c} ELSE exposed \cup {c}
    /\ UNCHANGED <<failures, cooled, healthy, panics>>

Open == state' = "open" /\ cooled' = FALSE

\* Do, after the call of a probe.
ProbeSucceeded(c) ==
    /\ running[c] = "probe"
    /\ probesInFlight' = probesInFlight - 1
    /\ state' = "closed"
    /\ failures' = 0
    /\ UNCHANGED <<cooled, leaked>>

\* Faulty variants: the error of a probe is returned before it is booked, and a
\* failed probe is not taken off the count.
ProbeFailedUnbooked(c) == running[c] = "probe" /\ UNCHANGED policy
ProbeFailedCounted(c) ==
    /\ running[c] = "probe"
    /\ Open
    /\ UNCHANGED <<probesInFlight, failures, leaked>>

ProbeFailed(c) ==
    /\ running[c] = "probe"
    /\ probesInFlight' = probesInFlight - 1
    /\ Open
    /\ UNCHANGED <<failures, leaked>>

\* Do, after any other call, in whatever state the breaker is by then.
CallSucceeded(c) ==
    /\ running[c] = "call"
    /\ failures' = 0
    /\ UNCHANGED <<state, cooled, probesInFlight, leaked>>

CallFailed(c) ==
    /\ running[c] = "call"
    /\ failures' = failures + 1
    /\ IF failures' >= FailureThreshold THEN Open ELSE UNCHANGED <<state, cooled>>
    /\ UNCHANGED <<probesInFlight, leaked>>

Return(c) ==
    /\ \/ ProbeSucceeded(c) \/ CallSucceeded(c)
       \/ c \in exposed /\ (ProbeFailed(c) \/ CallFailed(c))
    /\ running' = [running EXCEPT ![c] = "nothing"]
    /\ UNCHANGED <<exposed, healthy, panics>>

\* The call panics, and with it Do.
Panic(c) ==
    /\ running[c] # "nothing" /\ panics < MaxPanics
    /\ panics' = panics + 1
    /\ leaked' = IF running[c] = "probe" THEN leaked + 1 ELSE leaked
    /\ running' = [running EXCEPT ![c] = "nothing"]
    /\ UNCHANGED <<state, failures, probesInFlight, cooled, exposed, healthy>>

\* State(), read by the gauge.
Observe ==
    /\ state' = Looked
    /\ probesInFlight' = Counted
    /\ leaked' = Leaked
    /\ UNCHANGED <<failures, cooled, running, exposed, healthy, panics>>

-------------------------------------------------------------------------------
\* OpenFor passes since openedAt.
Cool == /\ state = "open" /\ ~cooled
        /\ cooled' = TRUE
        /\ UNCHANGED <<state, failures, probesInFlight, leaked, running, exposed, healthy, panics>>

\* The dependency comes back, and stays.
Heal == /\ ~healthy
        /\ healthy' = TRUE
        /\ UNCHANGED <<policy, running, exposed, panics>>

BreakerNext == \/ Refuse \/ Observe \/ Cool \/ Heal
               \/ \E c \in Calls : Enter(c) \/ Return(c) \/ Panic(c)

BreakerSpec == BreakerInit /\ [][BreakerNext]_breakerVars

\* The clock runs, every call returns (each has a deadline), and goroutines keep
\* calling Do.
BreakerFairSpec ==
    /\ BreakerSpec
    /\ WF_breakerVars(Cool)
    /\ \A c \in Calls : WF_breakerVars(Enter(c)) /\ WF_breakerVars(Return(c))

-------------------------------------------------------------------------------
Probes == {c \in Calls : running[c] = "probe"}

\* The shape of the state.  The count of probes goes below zero when the probes of
\* an earlier half-open spell return, but never above its limit.
BreakerTypeOK ==
    /\ state \in {"closed", "open", "half-open"}
    /\ failures \in Nat
    /\ probesInFlight \in Int /\ probesInFlight <= HalfOpenProbes
    /\ cooled \in BOOLEAN /\ healthy \in BOOLEAN
    /\ running \in [Calls -> {"nothing", "call", "probe"}]
    /\ exposed \subseteq Calls
    /\ panics \in 0..MaxPanics /\ leaked \in 0..panics

\* A closed breaker always has failures left to tolerate: whatever late results
\* arrived while it was open, it closes with its count started anew.
ClosedBelowThreshold == state = "closed" => failures < FailureThreshold

\* No probe is counted that is not running, but for those that panicked in this
\* half-open state, however late the results of earlier ones come in.
NeverOvercounts == probesInFlight <= Cardinality(Probes) + leaked

\* What the proofs carry from step to step.
BreakerInv == BreakerTypeOK /\ ClosedBelowThreshold /\ NeverOvercounts

\* Once the dependency is back the breaker closes, and stays closed; unless as many
\* probes of one half-open state panicked as it allows: those are waited for for ever.
LockedOut == state = "half-open" /\ ~MayProbe /\ leaked >= HalfOpenProbes
Recovers == <>healthy => <>[](state = "closed" \/ LockedOut)
===============================================================================
