---------------------------- MODULE LedgerFlowProofs ----------------------------
(***************************************************************************)
(* The books of the asynchronous path, for every number of calls, requests *)
(* and reconcilers and whatever dies, gets lost or is tried again: no      *)
(* refund is reported twice, nothing is offered that is promised already,  *)
(* and at rest what Redis gave away was ordered, but for the cost of the   *)
(* mishaps.                                                                *)
(***************************************************************************)
EXTENDS LedgerFlow, UnitCounting, TLAPS

\* A refund that was reported has closed its entry, and no entry opens again.
ReportsClose == \A r \in Requests : \/ reported[r] = 0
                                    \/ reported[r] = 1 /\ ledger[r] = "reconciled"

IndInv == TypeOK /\ ReportsClose

-------------------------------------------------------------------------------
LEMMA QuantitiesAreTyped ==
    /\ \A c \in Calls : RequestOf[c] \in Requests /\ Q(c) \in Nat /\ Q(c) > 0
    /\ \A r \in Requests : Qty[r] \in Nat /\ Refunded(r) \in {0, Qty[r]}
  BY LedgerAssumption DEF LedgerAssumption, Q, Refunded

LEMMA InitEstablishes == Init => IndInv
  BY LedgerAssumption
  DEF Init, IndInv, TypeOK, ReportsClose, LedgerAssumption, Steps

\* The history of mishaps keeps its shape.
LEMMA MishapsKeepTheirShape ==
    ASSUME TypeOK, NEW c \in Calls,
           \/ NoMishap
           \/ \E k \in LeakKinds \cup ExcessKinds : Mishap(k, c) \/ Happened(k, c)
    PROVE  mishaps' \subseteq (LeakKinds \cup ExcessKinds) \X Calls
<1>1. mishaps \subseteq (LeakKinds \cup ExcessKinds) \X Calls
  BY DEF TypeOK
<1>2. CASE NoMishap
  BY <1>1, <1>2 DEF NoMishap
<1>3. CASE \E k \in LeakKinds \cup ExcessKinds : Mishap(k, c) \/ Happened(k, c)
  <2>1. PICK k \in LeakKinds \cup ExcessKinds : mishaps' = mishaps \cup {<<k, c>>}
    BY <1>3 DEF Mishap, Happened
  <2>2. <<k, c>> \in (LeakKinds \cup ExcessKinds) \X Calls
    OBVIOUS
  <2> QED BY <1>1, <2>1, <2>2
<1> QED BY <1>2, <1>3

\* settleScript closes a pending entry and never opens one.
LEMMA SettleCloses ==
    ASSUME TypeOK, NEW r \in Requests, NEW refund \in Nat, Settle(r, refund)
    PROVE  /\ redis' \in Nat
           /\ ledger' \in [Requests -> {"none", "pending", "reconciled"}]
           /\ \A q \in Requests : ledger[q] = "reconciled" => ledger'[q] = "reconciled"
           /\ ledger[r] = "pending" => ledger'[r] = "reconciled"
  BY DEF TypeOK, Settle

-------------------------------------------------------------------------------
LEMMA PreDeductKeeps == ASSUME IndInv, NEW c \in Calls, PreDeduct(c) PROVE IndInv'
<1>1. mishaps' \subseteq (LeakKinds \cup ExcessKinds) \X Calls
  BY MishapsKeepTheirShape DEF PreDeduct, Again, IndInv, LeakKinds
<1>2. redis' \in Nat
  BY QuantitiesAreTyped DEF PreDeduct, IndInv, TypeOK
<1>3. step' \in [Calls -> Steps]
  BY DEF PreDeduct, Goto, Deducted, IndInv, TypeOK, Steps, Midway
<1> QED BY <1>1, <1>2, <1>3 DEF PreDeduct, db, work, IndInv, TypeOK, ReportsClose

LEMMA RecordKeeps == ASSUME IndInv, NEW c \in Calls, Record(c) PROVE IndInv'
<1>1. mishaps' \subseteq (LeakKinds \cup ExcessKinds) \X Calls
  BY MishapsKeepTheirShape DEF Record, SetEntry, IndInv, LeakKinds
<1>2. /\ ledger' \in [Requests -> {"none", "pending", "reconciled"}]
      /\ \A r \in Requests : ledger[r] = "reconciled" => ledger'[r] = "reconciled"
  BY QuantitiesAreTyped DEF Record, SetEntry, IndInv, TypeOK
<1>3. step' \in [Calls -> Steps]
  BY DEF Record, Goto, IndInv, TypeOK, Steps, Midway
<1> QED BY <1>1, <1>2, <1>3 DEF Record, db, work, IndInv, TypeOK, ReportsClose

LEMMA ProduceKeeps == ASSUME IndInv, NEW c \in Calls, Produce(c) PROVE IndInv'
<1>1. mishaps' \subseteq (LeakKinds \cup ExcessKinds) \X Calls
  BY MishapsKeepTheirShape DEF Produce, IndInv, ExcessKinds
<1>2. step' \in [Calls -> Steps] /\ topic' \subseteq Calls
  BY DEF Produce, Goto, IndInv, TypeOK, Steps, Midway
<1> QED BY <1>1, <1>2 DEF Produce, db, work, IndInv, TypeOK, ReportsClose

LEMMA RollbackKeeps == ASSUME IndInv, NEW c \in Calls, Rollback(c) PROVE IndInv'
<1>1. mishaps' \subseteq (LeakKinds \cup ExcessKinds) \X Calls
  BY MishapsKeepTheirShape DEF Rollback, GiveBack, IndInv, LeakKinds
<1>2. redis' \in Nat
  BY QuantitiesAreTyped DEF Rollback, GiveBack, IndInv, TypeOK
<1>3. step' \in [Calls -> Steps]
  BY DEF Rollback, GiveBack, Goto, IndInv, TypeOK, Steps, Midway
<1> QED BY <1>1, <1>2, <1>3 DEF Rollback, GiveBack, db, work, IndInv, TypeOK, ReportsClose

LEMMA CloseEntryKeeps == ASSUME IndInv, NEW c \in Calls, CloseEntry(c) PROVE IndInv'
<1>1. mishaps' \subseteq (LeakKinds \cup ExcessKinds) \X Calls
  BY MishapsKeepTheirShape DEF CloseEntry, IndInv, ExcessKinds
<1>2. /\ redis' \in Nat
      /\ ledger' \in [Requests -> {"none", "pending", "reconciled"}]
      /\ \A r \in Requests : ledger[r] = "reconciled" => ledger'[r] = "reconciled"
  BY QuantitiesAreTyped, SettleCloses DEF CloseEntry, IndInv, TypeOK
<1>3. step' \in [Calls -> Steps]
  BY DEF CloseEntry, Goto, IndInv, TypeOK, Steps
<1> QED BY <1>1, <1>2, <1>3 DEF CloseEntry, db, work, IndInv, TypeOK, ReportsClose

LEMMA CrashKeeps == ASSUME IndInv, NEW c \in Calls, Crash(c) PROVE IndInv'
<1>1. mishaps' \subseteq (LeakKinds \cup ExcessKinds) \X Calls
  BY MishapsKeepTheirShape DEF Crash, Orphaned, IndInv, LeakKinds, ExcessKinds
<1>2. step' \in [Calls -> Steps]
  BY DEF Crash, Goto, IndInv, TypeOK, Steps
<1> QED BY <1>1, <1>2 DEF Crash, db, work, IndInv, TypeOK, ReportsClose

LEMMA ConsumeKeeps == ASSUME IndInv, NEW c \in Calls, Consume(c) PROVE IndInv'
<1>1. mishaps' \subseteq (LeakKinds \cup ExcessKinds) \X Calls
  BY MishapsKeepTheirShape DEF Consume, DeadLettered, IndInv, LeakKinds
<1>2. ordered' \subseteq Requests /\ dbStock' \in Nat
  BY QuantitiesAreTyped DEF Consume, PlaceRecord, db, IndInv, TypeOK
<1>3. topic' \subseteq Calls
  BY DEF Consume, IndInv, TypeOK
<1> QED BY <1>1, <1>2, <1>3 DEF Consume, work, IndInv, TypeOK, ReportsClose

LEMMA GrowOldKeeps == ASSUME IndInv, NEW r \in Requests, GrowOld(r) PROVE IndInv'
<1>1. mishaps' \subseteq (LeakKinds \cup ExcessKinds) \X Calls
  BY MishapsKeepTheirShape DEF GrowOld, InFlight, NoMishap, IndInv, TypeOK, ExcessKinds
<1> QED BY <1>1 DEF GrowOld, db, work, IndInv, TypeOK, ReportsClose

-------------------------------------------------------------------------------
LEMMA ReadingKeeps ==
    ASSUME IndInv, NEW w \in Workers, ScanLedger(w) \/ CountOrders(w) \/ StopRound(w)
    PROVE  IndInv'
<1>1. CASE ScanLedger(w)
  BY <1>1 DEF ScanLedger, flow, db, IndInv, TypeOK, ReportsClose
<1>2. CASE CountOrders(w)
  BY <1>2, QuantitiesAreTyped DEF CountOrders, flow, db, IndInv, TypeOK, ReportsClose
<1>3. CASE StopRound(w)
  BY <1>3 DEF StopRound, EndRound, EndEntry, flow, db, IndInv, TypeOK, ReportsClose
<1> QED BY <1>1, <1>2, <1>3

\* What a worker has checked can be settled.
LEMMA CheckedIsTyped ==
    ASSUME IndInv, NEW w \in Workers, NEW e \in checked[w]
    PROVE  e.request \in Requests /\ e.refund \in Nat
  BY QuantitiesAreTyped DEF IndInv, TypeOK

LEMMA SettleEntryKeeps == ASSUME IndInv, NEW w \in Workers, SettleEntry(w) PROVE IndInv'
<1>1. PICK e \in checked[w] :
        /\ Settle(e.request, e.refund) /\ EndEntry(w)
        /\ reported' = [reported EXCEPT ![e.request] =
                          IF Outcome(e) = "refunded" THEN @ + 1 ELSE @]
        /\ UNCHANGED <<old, step, topic, db, todo, mishaps>>
  BY DEF SettleEntry
<1>2. e.request \in Requests /\ e.refund \in Nat
  BY CheckedIsTyped
<1>3. /\ redis' \in Nat
      /\ ledger' \in [Requests -> {"none", "pending", "reconciled"}]
      /\ \A q \in Requests : ledger[q] = "reconciled" => ledger'[q] = "reconciled"
      /\ ledger[e.request] = "pending" => ledger'[e.request] = "reconciled"
  BY <1>1, <1>2, SettleCloses DEF IndInv
<1>4. ReportsClose' /\ reported' \in [Requests -> Nat]
  <2>1. reported \in [Requests -> Nat]
    BY DEF IndInv, TypeOK
  <2>2. CASE ledger[e.request] = "pending"
    <3>1. reported[e.request] = 0 /\ ledger'[e.request] = "reconciled"
      BY <1>2, <1>3, <2>2 DEF IndInv, ReportsClose
    <3>2. reported'[e.request] \in {0, 1}
      BY <1>1, <1>2, <2>1, <3>1
    <3>3. \A q \in Requests : q # e.request => reported'[q] = reported[q]
      BY <1>1, <2>1
    <3>4. DOMAIN reported' = Requests
      BY <1>1, <2>1
    <3>5. reported' \in [Requests -> Nat]
      BY <1>1, <1>2, <2>1
    <3> QED BY <1>2, <1>3, <3>1, <3>2, <3>3, <3>5 DEF IndInv, ReportsClose
  <2>3. CASE ledger[e.request] # "pending"
    <3>1. Outcome(e) # "refunded"
      BY <2>3 DEF Outcome
    <3>2. reported' = reported
      BY <1>1, <1>2, <2>1, <3>1
    <3> QED BY <1>3, <2>1, <3>2 DEF IndInv, ReportsClose
  <2> QED BY <2>2, <2>3
<1>5. TypeOK'
  BY <1>1, <1>3, <1>4 DEF EndEntry, db, IndInv, TypeOK
<1> QED BY <1>4, <1>5 DEF IndInv

LEMMA SettleErrorKeeps == ASSUME IndInv, NEW w \in Workers, SettleError(w) PROVE IndInv'
<1>1. PICK e \in checked[w] : Settle(e.request, e.refund) \/ UNCHANGED <<ledger, redis>>
  BY DEF SettleError
<1>2. /\ redis' \in Nat
      /\ ledger' \in [Requests -> {"none", "pending", "reconciled"}]
      /\ \A q \in Requests : ledger[q] = "reconciled" => ledger'[q] = "reconciled"
  BY <1>1, CheckedIsTyped, SettleCloses DEF IndInv, TypeOK
<1> QED BY <1>2 DEF SettleError, EndRound, EndEntry, db, IndInv, TypeOK, ReportsClose

-------------------------------------------------------------------------------
\* Every reachable state satisfies the inductive invariant.
THEOREM Invariance == Spec => []IndInv
<1>1. IndInv /\ [Next]_vars => IndInv'
  <2> SUFFICES ASSUME IndInv, [Next]_vars PROVE IndInv'
    OBVIOUS
  <2>1. CASE UNCHANGED vars
    BY <2>1 DEF vars, flow, db, work, IndInv, TypeOK, ReportsClose
  <2>2. ASSUME NEW c \in Calls, Serve(c) \/ Crash(c) \/ Consume(c) PROVE IndInv'
    BY <2>2, PreDeductKeeps, RecordKeeps, ProduceKeeps, RollbackKeeps, CloseEntryKeeps,
       CrashKeeps, ConsumeKeeps DEF Serve
  <2>3. ASSUME NEW w \in Workers, Reconcile(w) \/ SettleError(w) \/ StopRound(w)
        PROVE  IndInv'
    BY <2>3, ReadingKeeps, SettleEntryKeeps, SettleErrorKeeps DEF Reconcile
  <2> QED BY <2>1, <2>2, <2>3, GrowOldKeeps DEF Next
<1> QED BY <1>1, InitEstablishes, PTL DEF Spec

\* The Reports of all rounds together count each refund at most once, however many
\* reconcilers race with each other and with the calls (p2_reconcile.go:74-75), and
\* preDeductScript never takes Redis below zero.
THEOREM RefundsReportedOnce == Spec => []Inv
<1>1. IndInv => Inv
  BY DEF IndInv, ReportsClose, Inv, RefundReportedOnce, TypeOK
<1> QED BY <1>1, Invariance, PTL

-------------------------------------------------------------------------------
(***************************************************************************)
(* What stands behind the stock that was taken.                            *)
(***************************************************************************)

\* The requests whose entry will give back what it stands for: no call of the
\* request is on its way any more and it has no order, or a worker found none.
Owed ==
    {r \in Requests :
        /\ ledger[r] = "pending"
        /\ \/ r \in old /\ r \notin ordered
           \/ r \in old /\ \E w \in Workers : \E e \in checked[w] :
                               e.request = r /\ e.refund > 0
           \/ r \notin old /\ r \notin ordered /\ InFlight(r) = {}}

\* The calls that hold the stock they took, and may roll it back or deliver it.
Carried == {c \in Calls : step[c] \in {"deducted", "recorded", "undelivered"}}

Taken(C) == UNION {{c} \X (1..Q(c)) : c \in C}

\* Redis offers nothing that is promised, that an entry will give back, or that a call holds.
PromisedUnits == Cardinality(Units(Promised))
OwedUnits == Cardinality(Units(Owed))
CarriedUnits == Cardinality(Taken(Carried))

OffersWhatIsLeft ==
    redis + PromisedUnits + OwedUnits + CarriedUnits <= InitialStock + Cost(ExcessKinds)

\* The calls that have no entry yet, and those whose entry is still to be closed.
Unwritten == {c \in Calls : step[c] = "deducted"}
Unclosed == {c \in Calls : step[c] = "rolled_back"}

\* Whether a call that writes no entry answers for its stock, and for no other call's.
Answers(c) ==
    /\ c \notin Ledgered
    /\ step[c] \in {"recorded", "undelivered"} \/ c \in topic
    /\ <<"no_entry", c>> \notin mishaps /\ <<"taken_again", c>> \notin mishaps

\* The requests whose stock is accounted for.
Standing ==
    {r \in Requests : \/ ledger[r] = "pending" \/ r \in ordered
                      \/ \E c \in Calls : RequestOf[c] = r /\ Answers(c)}

\* What is gone from Redis stands for an entry, an order or a call, or is a mishap's cost.
UnclosedUnits == Cardinality(Taken(Unclosed))
UnwrittenUnits == Cardinality(Taken(Unwritten))
StandingUnits == Cardinality(Units(Standing))

TakenIsKnown ==
    InitialStock - redis + UnclosedUnits <= StandingUnits + UnwrittenUnits + Cost(LeakKinds)

\* Entries are written before anything is delivered, and only for calls that do so.
EntryFirst(c) ==
    /\ ledger[RequestOf[c]] # "none" => c \in Ledgered
    /\ step[c] \in {"deducted", "rolled_back"} => c \in Ledgered
    /\ c \in topic => step[c] \notin {"start", "deducted", "recorded"}
    /\ /\ c \in Ledgered
       /\ \/ step[c] \in {"recorded", "accepted", "undelivered", "rolled_back"}
          \/ c \in topic
          \/ RequestOf[c] \in ordered
       => ledger[RequestOf[c]] # "none"

\* Workers look at old entries only, and refund nothing only if there is an order.
WorkIsOld ==
    /\ \A r \in old : ledger[r] # "none"
    /\ \A w \in Workers :
         /\ todo[w] \subseteq old
         /\ \A e \in checked[w] : /\ e.request \in old
                                  /\ e.refund = 0 => e.request \in ordered

\* A mishap of each kind happens to a call once.
Past(c) ==
    /\ <<"deduct_unheard", c>> \in mishaps => step[c] # "start"
    /\ <<"no_entry", c>> \in mishaps => step[c] \notin {"start", "deducted"}
    /\ <<"taken_again", c>> \in mishaps => step[c] \notin {"start", "deducted"}
    /\ <<"produce_unheard", c>> \in mishaps => step[c] \notin {"start", "deducted", "recorded"}
    /\ <<"not_rolled_back", c>> \in mishaps => step[c] \in {"rolled_back", "failed", "crashed"}
    /\ <<"left_open", c>> \in mishaps => step[c] \in {"failed", "crashed"}
    /\ <<"aged_in_flight", c>> \in mishaps => RequestOf[c] \in old

InOrder == WorkIsOld /\ \A c \in Calls : EntryFirst(c) /\ Past(c)

BookInv == InOrder /\ OffersWhatIsLeft /\ TakenIsKnown

-------------------------------------------------------------------------------
LEMMA OneRoute ==
    \A c, d \in Calls : RequestOf[c] = RequestOf[d] => (c \in Ledgered <=> d \in Ledgered)
  BY LedgerAssumption DEF LedgerAssumption

LEMMA InitOrder == Init => InOrder
  BY LedgerAssumption DEF Init, InOrder, WorkIsOld, EntryFirst, Past, LedgerAssumption

\* The steps of a call's own goroutine move that call, and open entries for it only.
LEMMA ServingMoves ==
    ASSUME TypeOK, NEW c \in Calls, Serve(c) \/ Crash(c)
    PROVE  /\ UNCHANGED <<old, ordered, todo, checked>>
           /\ step' = [step EXCEPT ![c] = step'[c]]
           /\ \A d \in Calls : d # c => step'[d] = step[d] /\ (d \in topic' <=> d \in topic)
           /\ \A r \in Requests : ledger[r] # "none" => ledger'[r] # "none"
           /\ \A r \in Requests : ledger'[r] # "none" =>
                ledger[r] # "none" \/ (r = RequestOf[c] /\ step[c] = "deducted")
<1>1. UNCHANGED <<old, ordered, todo, checked>>
  BY DEF Serve, PreDeduct, Record, Produce, Rollback, GiveBack, CloseEntry, Crash, db, work
<1>2. /\ step' = [step EXCEPT ![c] = step'[c]]
      /\ \A d \in Calls : d # c => step'[d] = step[d]
  BY DEF Serve, PreDeduct, Record, Produce, Rollback, GiveBack, CloseEntry, Crash, Goto, TypeOK
<1>3. \A d \in Calls : d # c => (d \in topic' <=> d \in topic)
  BY DEF Serve, PreDeduct, Record, Produce, Rollback, GiveBack, CloseEntry, Crash
<1>4. /\ \A r \in Requests : ledger[r] # "none" => ledger'[r] # "none"
      /\ \A r \in Requests : ledger'[r] # "none" =>
           ledger[r] # "none" \/ (r = RequestOf[c] /\ step[c] = "deducted")
  BY QuantitiesAreTyped
  DEF Serve, PreDeduct, Record, SetEntry, Produce, Rollback, GiveBack, CloseEntry, Settle, Crash, TypeOK
<1> QED BY <1>1, <1>2, <1>3, <1>4

LEMMA ServingKeepsEntries ==
    ASSUME TypeOK, InOrder, NEW c \in Calls, Serve(c) \/ Crash(c)
    PROVE  \A d \in Calls : EntryFirst(d)'
<1>1. EntryFirst(c)'
  <2>1. EntryFirst(c) /\ RequestOf[c] \in Requests
    BY QuantitiesAreTyped DEF InOrder
  <2>2. step \in [Calls -> Steps] /\ ledger \in [Requests -> {"none", "pending", "reconciled"}]
    BY DEF TypeOK
  <2>3. UNCHANGED ordered
    BY ServingMoves
  <2>4. CASE PreDeduct(c)
    BY <2>1, <2>2, <2>3, <2>4 DEF PreDeduct, Goto, Deducted, EntryFirst
  <2>5. CASE Record(c)
    BY <2>1, <2>2, <2>3, <2>5 DEF Record, SetEntry, Goto, EntryFirst
  <2>6. CASE Produce(c)
    BY <2>1, <2>2, <2>3, <2>6 DEF Produce, Goto, EntryFirst
  <2>7. CASE Rollback(c)
    BY <2>1, <2>2, <2>3, <2>7 DEF Rollback, GiveBack, Goto, EntryFirst
  <2>8. CASE CloseEntry(c)
    BY <2>1, <2>2, <2>3, <2>8 DEF CloseEntry, Settle, Goto, EntryFirst
  <2>9. CASE Crash(c)
    BY <2>1, <2>2, <2>3, <2>9 DEF Crash, Midway, Goto, EntryFirst
  <2> QED BY <2>4, <2>5, <2>6, <2>7, <2>8, <2>9 DEF Serve
<1>2. ASSUME NEW d \in Calls, d # c PROVE EntryFirst(d)'
  <2>1. EntryFirst(d) /\ EntryFirst(c) /\ RequestOf[d] \in Requests
    BY QuantitiesAreTyped DEF InOrder
  <2> QED BY <1>2, <2>1, ServingMoves, OneRoute DEF EntryFirst
<1> QED BY <1>1, <1>2

LEMMA ServingKeepsPast ==
    ASSUME TypeOK, InOrder, NEW c \in Calls, Serve(c) \/ Crash(c)
    PROVE  \A d \in Calls : Past(d)'
<1>1. Past(c)'
  <2>1. Past(c) /\ step \in [Calls -> Steps]
    BY DEF InOrder, TypeOK
  <2>2. UNCHANGED old
    BY ServingMoves
  <2>4. CASE PreDeduct(c)
    <3>1. step[c] = "start" /\ step'[c] # "start"
      BY <2>1, <2>4 DEF PreDeduct, Goto, Deducted
    <3>2. \/ UNCHANGED mishaps
          \/ mishaps' = mishaps \cup {<<"deduct_unheard", c>>}
          \/ mishaps' = mishaps \cup {<<"taken_again", c>>} /\ step'[c] = "recorded"
      BY <2>1, <2>4 DEF PreDeduct, Goto, Again, Deducted, NoMishap, Mishap, Happened
    <3> QED BY <2>1, <2>2, <3>1, <3>2 DEF Past
  <2>5. CASE Record(c)
    <3>1. step[c] = "deducted" /\ step'[c] \in {"recorded", "failed"}
      BY <2>1, <2>5 DEF Record, Goto
    <3>2. \/ UNCHANGED mishaps
          \/ mishaps' = mishaps \cup {<<"no_entry", c>>}
          \/ mishaps' = mishaps \cup {<<"taken_again", c>>}
      BY <2>5 DEF Record, SetEntry, NoMishap, Mishap, Happened
    <3> QED BY <2>1, <2>2, <3>1, <3>2 DEF Past
  <2>6. CASE Produce(c)
    <3>1. step[c] = "recorded" /\ step'[c] \in {"accepted", "undelivered"}
      BY <2>1, <2>6 DEF Produce, Goto
    <3>2. UNCHANGED mishaps \/ mishaps' = mishaps \cup {<<"produce_unheard", c>>}
      BY <2>6 DEF Produce, NoMishap, Mishap, Happened
    <3> QED BY <2>1, <2>2, <3>1, <3>2 DEF Past
  <2>7. CASE Rollback(c)
    <3>1. step[c] = "undelivered" /\ step'[c] \in {"rolled_back", "failed"}
      BY <2>1, <2>7 DEF Rollback, GiveBack, Goto
    <3>2. UNCHANGED mishaps \/ mishaps' = mishaps \cup {<<"not_rolled_back", c>>}
      BY <2>7 DEF Rollback, GiveBack, NoMishap, Mishap, Happened
    <3> QED BY <2>1, <2>2, <3>1, <3>2 DEF Past
  <2>8. CASE CloseEntry(c)
    <3>1. step[c] = "rolled_back" /\ step'[c] = "failed"
      BY <2>1, <2>8 DEF CloseEntry, Goto
    <3>2. UNCHANGED mishaps \/ mishaps' = mishaps \cup {<<"left_open", c>>}
      BY <2>8 DEF CloseEntry, NoMishap, Mishap, Happened
    <3> QED BY <2>1, <2>2, <3>1, <3>2 DEF Past
  <2>9. CASE Crash(c)
    <3>1. step[c] \in Midway /\ step'[c] = "crashed"
      BY <2>1, <2>9 DEF Crash, Goto
    <3>2. \/ UNCHANGED mishaps
          \/ mishaps' = mishaps \cup {<<"left_open", c>>}
          \/ mishaps' = mishaps \cup {<<"no_entry", c>>}
      BY <2>9 DEF Crash, Orphaned, NoMishap, Mishap, Happened
    <3> QED BY <2>1, <2>2, <3>1, <3>2 DEF Past, Midway
  <2> QED BY <2>4, <2>5, <2>6, <2>7, <2>8, <2>9 DEF Serve
<1>2. ASSUME NEW d \in Calls, d # c PROVE Past(d)'
  <2>1. Past(d)
    BY DEF InOrder
  <2>2. \A k : <<k, d>> \in mishaps' => <<k, d>> \in mishaps
    BY <1>2 DEF Serve, PreDeduct, Again, Record, SetEntry, Produce, Rollback, GiveBack, CloseEntry,
                Crash, Orphaned, NoMishap, Mishap, Happened
  <2> QED BY <1>2, <2>1, <2>2, ServingMoves DEF Past
<1> QED BY <1>1, <1>2

LEMMA ServingKeepsOrder ==
    ASSUME TypeOK, InOrder, NEW c \in Calls, Serve(c) \/ Crash(c)
    PROVE  InOrder'
<1>1. WorkIsOld'
  <2>1. old \subseteq Requests
    BY DEF TypeOK
  <2> QED BY <2>1, ServingMoves DEF InOrder, WorkIsOld
<1> QED BY <1>1, ServingKeepsEntries, ServingKeepsPast DEF InOrder

LEMMA ConsumingKeepsOrder ==
    ASSUME TypeOK, InOrder, NEW c \in Calls, Consume(c)
    PROVE  InOrder'
<1>1. /\ UNCHANGED <<ledger, old, step, todo, checked>>
      /\ c \in topic /\ topic' \subseteq topic
      /\ ordered \subseteq ordered' /\ ordered' \subseteq ordered \cup {RequestOf[c]}
  BY DEF Consume, PlaceRecord, db, work
<1>2. ASSUME NEW d \in Calls PROVE EntryFirst(d)'
  <2>1. EntryFirst(c) /\ EntryFirst(d)
    BY DEF InOrder
  <2> QED BY <1>1, <2>1, OneRoute DEF EntryFirst
<1>3. WorkIsOld'
  BY <1>1 DEF InOrder, WorkIsOld
<1>4. ASSUME NEW d \in Calls PROVE Past(d)'
  <2>1. Past(d) /\ EntryFirst(c)
    BY DEF InOrder
  <2>2. UNCHANGED mishaps \/ mishaps' = mishaps \cup {<<"no_entry", c>>}
    BY DEF Consume, DeadLettered, NoMishap, Mishap, Happened
  <2> QED BY <1>1, <2>1, <2>2 DEF Past, EntryFirst
<1> QED BY <1>2, <1>3, <1>4 DEF InOrder

LEMMA AgingKeepsOrder ==
    ASSUME TypeOK, InOrder, NEW r \in Requests, GrowOld(r)
    PROVE  InOrder'
<1>1. /\ UNCHANGED <<ledger, step, topic, ordered, todo, checked>>
      /\ old' = old \cup {r} /\ ledger[r] # "none"
  BY DEF GrowOld, db, work
<1>2. ASSUME NEW d \in Calls PROVE EntryFirst(d)'
  BY <1>1 DEF InOrder, EntryFirst
<1>3. WorkIsOld'
  BY <1>1 DEF InOrder, WorkIsOld
<1>4. ASSUME NEW d \in Calls PROVE Past(d)'
  <2>1. Past(d)
    BY DEF InOrder
  <2>2. \/ UNCHANGED mishaps
        \/ \E c \in InFlight(r) : mishaps' = mishaps \cup {<<"aged_in_flight", c>>}
    BY DEF GrowOld, NoMishap, Mishap, Happened
  <2> QED BY <1>1, <2>1, <2>2 DEF Past, InFlight
<1> QED BY <1>2, <1>3, <1>4 DEF InOrder

LEMMA ReconcilingKeepsOrder ==
    ASSUME IndInv, InOrder, NEW w \in Workers, Reconcile(w) \/ SettleError(w) \/ StopRound(w)
    PROVE  InOrder'
<1>1. UNCHANGED <<old, step, topic, ordered, mishaps>>
  BY DEF Reconcile, ScanLedger, CountOrders, SettleEntry, SettleError, StopRound, flow, db
<1>2. \A r \in Requests : ledger[r] # "none" <=> ledger'[r] # "none"
  <2>1. CASE ScanLedger(w) \/ CountOrders(w) \/ StopRound(w)
    BY <2>1 DEF ScanLedger, CountOrders, StopRound, flow
  <2>2. CASE SettleEntry(w) \/ SettleError(w)
    <3>1. PICK e \in checked[w] : Settle(e.request, e.refund) \/ UNCHANGED <<ledger, redis>>
      BY <2>2 DEF SettleEntry, SettleError
    <3>2. e.request \in Requests
      BY CheckedIsTyped
    <3> QED BY <3>1, <3>2 DEF Settle, IndInv, TypeOK
  <2> QED BY <2>1, <2>2 DEF Reconcile
<1>3. ASSUME NEW d \in Calls PROVE EntryFirst(d)'
  <2>1. EntryFirst(d) /\ RequestOf[d] \in Requests
    BY QuantitiesAreTyped DEF InOrder
  <2> QED BY <1>1, <1>2, <2>1 DEF EntryFirst
<1>4. WorkIsOld'
  <2>1. WorkIsOld /\ DOMAIN todo = Workers /\ DOMAIN checked = Workers /\ old \subseteq Requests
    BY DEF InOrder, IndInv, TypeOK
  <2>2. \A r \in old' : ledger'[r] # "none"
    BY <1>1, <1>2, <2>1 DEF WorkIsOld
  <2>3. \A v \in Workers : todo'[v] \subseteq old'
    BY <1>1, <2>1 DEF WorkIsOld, Reconcile, ScanLedger, CountOrders, SettleEntry, SettleError,
                      StopRound, EndRound, EndEntry
  <2>4. ASSUME NEW v \in Workers, NEW e \in checked'[v]
        PROVE  e.request \in old' /\ (e.refund = 0 => e.request \in ordered')
    <3>1. CASE e \in checked[v]
      BY <1>1, <2>1, <3>1 DEF WorkIsOld
    <3>2. CASE e \notin checked[v]
      <4>1. CountOrders(w) /\ v = w
        BY <2>1, <2>4, <3>2 DEF Reconcile, ScanLedger, CountOrders, SettleEntry, SettleError,
                      StopRound, EndRound, EndEntry
      <4>2. PICK r \in todo[w] : checked' = [checked EXCEPT ![w] =
                                    {[request |-> r, refund |-> Refunded(r)]}]
        BY <4>1 DEF CountOrders
      <4>3. e.request = r /\ e.refund = Refunded(r)
        BY <2>1, <2>4, <4>1, <4>2
      <4>4. r \in old /\ r \in Requests
        BY <2>1 DEF WorkIsOld
      <4>5. Qty[r] # 0
        BY <4>4, LedgerAssumption DEF LedgerAssumption
      <4> QED BY <1>1, <4>3, <4>4, <4>5 DEF Refunded
    <3> QED BY <3>1, <3>2
  <2> QED BY <2>2, <2>3, <2>4 DEF WorkIsOld
<1>5. ASSUME NEW d \in Calls PROVE Past(d)'
  BY <1>1 DEF InOrder, Past
<1> QED BY <1>3, <1>4, <1>5 DEF InOrder

-------------------------------------------------------------------------------
(***************************************************************************)
(* The units of requests, of calls and of mishaps, counted.                *)
(***************************************************************************)
LEMMA RequestUnits ==
    ASSUME NEW A \in SUBSET Requests, NEW B \in SUBSET Requests
    PROVE  /\ Cardinality(Units(A)) \in Nat /\ Cardinality(Units(B)) \in Nat
           /\ A \subseteq B => Cardinality(Units(A)) <= Cardinality(Units(B))
           /\ \A r \in Requests :
                /\ A \subseteq B \cup {r} =>
                     Cardinality(Units(A)) <= Cardinality(Units(B)) + Qty[r]
                /\ A \cup {r} \subseteq B /\ r \notin A =>
                     Cardinality(Units(A)) + Qty[r] <= Cardinality(Units(B))
<1>1. IsFiniteSet(Requests) /\ Qty \in [Requests -> Nat]
  BY LedgerAssumption DEF LedgerAssumption
<1>2. \A S : Units(S) = Cells(S, Qty)
  BY DEF Units, Cells
<1>3. \A S \in SUBSET Requests : Cardinality(Units(S)) \in Nat
  BY <1>1, <1>2, CellsAreFinite
<1>4. ASSUME A \subseteq B PROVE Cardinality(Units(A)) <= Cardinality(Units(B))
  BY <1>1, <1>2, <1>4, CellsGrow
<1>5. ASSUME NEW r \in Requests
      PROVE  /\ A \subseteq B \cup {r} =>
                  Cardinality(Units(A)) <= Cardinality(Units(B)) + Qty[r]
             /\ A \cup {r} \subseteq B /\ r \notin A =>
                  Cardinality(Units(A)) + Qty[r] <= Cardinality(Units(B))
  BY <1>1, <1>2, CellsCount
<1> QED BY <1>3, <1>4, <1>5

LEMMA CallUnits ==
    ASSUME NEW A \in SUBSET Calls, NEW B \in SUBSET Calls
    PROVE  /\ Cardinality(Taken(A)) \in Nat /\ Cardinality(Taken(B)) \in Nat
           /\ A \subseteq B => Cardinality(Taken(A)) <= Cardinality(Taken(B))
           /\ \A c \in Calls :
                /\ A \subseteq B \cup {c} =>
                     Cardinality(Taken(A)) <= Cardinality(Taken(B)) + Q(c)
                /\ A \cup {c} \subseteq B /\ c \notin A =>
                     Cardinality(Taken(A)) + Q(c) <= Cardinality(Taken(B))
<1> DEFINE q == [c \in Calls |-> Q(c)]
<1>1. IsFiniteSet(Calls) /\ q \in [Calls -> Nat]
  BY LedgerAssumption, QuantitiesAreTyped DEF LedgerAssumption
<1>2. \A S \in SUBSET Calls : Taken(S) = Cells(S, q)
  BY DEF Taken, Cells
<1>3. \A c \in Calls : q[c] = Q(c)
  OBVIOUS
<1> HIDE DEF q
<1>4. \A S \in SUBSET Calls : Cardinality(Cells(S, q)) \in Nat
  BY <1>1, CellsAreFinite
<1>5. ASSUME A \subseteq B PROVE Cardinality(Taken(A)) <= Cardinality(Taken(B))
  BY <1>1, <1>2, <1>5, CellsGrow
<1>6. ASSUME NEW c \in Calls
      PROVE  /\ A \subseteq B \cup {c} =>
                  Cardinality(Cells(A, q)) <= Cardinality(Cells(B, q)) + q[c]
             /\ A \cup {c} \subseteq B /\ c \notin A =>
                  Cardinality(Cells(A, q)) + q[c] <= Cardinality(Cells(B, q))
  BY <1>1, CellsCount
<1> QED BY <1>2, <1>3, <1>4, <1>5, <1>6

\* The mishaps there can be, and what each costs.
Marks == (LeakKinds \cup ExcessKinds) \X Calls
MarkQty == [m \in Marks |-> Q(m[2])]
Of(kinds, M) == {x \in M : x[1] \in kinds}

LEMMA MarksAreTyped ==
    /\ IsFiniteSet(Marks) /\ MarkQty \in [Marks -> Nat]
    /\ \A k \in LeakKinds \cup ExcessKinds, c \in Calls :
         <<k, c>> \in Marks /\ MarkQty[<<k, c>>] = Q(c)
<1>1. IsFiniteSet(LeakKinds \cup ExcessKinds)
  <2>1. IsFiniteSet({"deduct_unheard"} \cup {"no_entry"} \cup {"taken_again"}
                      \cup {"not_rolled_back"} \cup {"left_open"}
                      \cup {"produce_unheard"} \cup {"aged_in_flight"})
    <3>1. \A S, x : IsFiniteSet(S) => IsFiniteSet(S \cup {x})
      BY FS_AddElement
    <3> QED BY <3>1, FS_Singleton
  <2>2. LeakKinds \cup ExcessKinds =
          {"deduct_unheard"} \cup {"no_entry"} \cup {"taken_again"} \cup {"not_rolled_back"}
            \cup {"left_open"} \cup {"produce_unheard"} \cup {"aged_in_flight"}
    BY DEF LeakKinds, ExcessKinds
  <2> QED BY <2>1, <2>2
<1>2. IsFiniteSet(Marks)
  BY <1>1, LedgerAssumption, FS_Product DEF Marks, LedgerAssumption
<1>3. /\ MarkQty \in [Marks -> Nat]
      /\ \A k \in LeakKinds \cup ExcessKinds, c \in Calls :
           <<k, c>> \in Marks /\ MarkQty[<<k, c>>] = Q(c)
  BY QuantitiesAreTyped DEF Marks, MarkQty
<1> QED BY <1>2, <1>3

\* The cost of some kinds is a sum like the others.
LEMMA CostIsTyped ==
    ASSUME TypeOK, NEW kinds \in SUBSET (LeakKinds \cup ExcessKinds)
    PROVE  /\ Of(kinds, mishaps) \in SUBSET Marks
           /\ Cost(kinds) = Cardinality(Cells(Of(kinds, mishaps), MarkQty))
           /\ Cost(kinds) \in Nat
<1>1. Of(kinds, mishaps) \in SUBSET Marks
  BY DEF TypeOK, Of, Marks
<1>2. Cells(Of(kinds, mishaps), MarkQty) =
        UNION {{m} \X (1..Q(m[2])) : m \in Of(kinds, mishaps)}
  BY <1>1 DEF Cells, MarkQty
<1>3. Cost(kinds) = Cardinality(Cells(Of(kinds, mishaps), MarkQty))
  BY <1>2 DEF Cost, Of
<1> QED BY <1>1, <1>3, MarksAreTyped, CellsAreFinite

\* Mishaps only add to their cost, and a new one adds what its call took.
LEMMA CostGrows ==
    ASSUME TypeOK, TypeOK', mishaps \subseteq mishaps',
           NEW kinds \in SUBSET (LeakKinds \cup ExcessKinds)
    PROVE  /\ Cost(kinds) \in Nat /\ Cost(kinds)' \in Nat
           /\ Cost(kinds) <= Cost(kinds)'
           /\ \A c \in Calls, k \in kinds :
                <<k, c>> \in mishaps' /\ <<k, c>> \notin mishaps =>
                   Cost(kinds) + Q(c) <= Cost(kinds)'
<1> DEFINE Old == Of(kinds, mishaps)
           New == Of(kinds, mishaps')
<1>1. /\ Old \in SUBSET Marks /\ Cost(kinds) = Cardinality(Cells(Old, MarkQty))
      /\ Cost(kinds) \in Nat
  BY CostIsTyped
<1>2. New \in SUBSET Marks
  BY DEF TypeOK, Of, Marks
<1>3. Cost(kinds)' = Cardinality(Cells(New, MarkQty))
  <2>1. Cells(New, MarkQty) = UNION {{m} \X (1..Q(m[2])) : m \in New}
    BY <1>2 DEF Cells, MarkQty
  <2> QED BY <2>1 DEF Cost, Of
<1>4. Old \subseteq New
  BY DEF Of
<1>5. ASSUME NEW c \in Calls, NEW k \in kinds,
             <<k, c>> \in mishaps', <<k, c>> \notin mishaps
      PROVE  Old \cup {<<k, c>>} \subseteq New /\ <<k, c>> \notin Old
  BY <1>4, <1>5 DEF Of
<1> HIDE DEF Old, New
<1>6. Cost(kinds)' \in Nat
  BY <1>2, <1>3, MarksAreTyped, CellsAreFinite
<1>7. Cost(kinds) <= Cost(kinds)'
  BY <1>1, <1>2, <1>3, <1>4, MarksAreTyped, CellsGrow
<1>8. ASSUME NEW c \in Calls, NEW k \in kinds,
             <<k, c>> \in mishaps', <<k, c>> \notin mishaps
      PROVE  Cost(kinds) + Q(c) <= Cost(kinds)'
  BY <1>1, <1>2, <1>3, <1>5, <1>8, MarksAreTyped, CellsCount
<1> QED BY <1>1, <1>6, <1>7, <1>8

-------------------------------------------------------------------------------
(***************************************************************************)
(* Redis offers what is left: one lemma for each kind of step.             *)
(***************************************************************************)

\* What a step may make of the sums.
LEMMA OfferCounts ==
    ASSUME TypeOK, TypeOK', mishaps \subseteq mishaps'
    PROVE  /\ PromisedUnits \in Nat /\ OwedUnits \in Nat /\ CarriedUnits \in Nat
           /\ PromisedUnits' \in Nat /\ OwedUnits' \in Nat /\ CarriedUnits' \in Nat
           /\ Promised' \subseteq Promised => PromisedUnits' <= PromisedUnits
           /\ Owed' \subseteq Owed => OwedUnits' <= OwedUnits
           /\ Carried' \subseteq Carried => CarriedUnits' <= CarriedUnits
           /\ \A r \in Requests :
                /\ Promised' \subseteq Promised \cup {r} =>
                     PromisedUnits' <= PromisedUnits + Qty[r]
                /\ Promised' \subseteq Promised \ {r} /\ r \in Promised =>
                     PromisedUnits' + Qty[r] <= PromisedUnits
                /\ Owed' \subseteq Owed \cup {r} => OwedUnits' <= OwedUnits + Qty[r]
                /\ Owed' \subseteq Owed \ {r} /\ r \in Owed => OwedUnits' + Qty[r] <= OwedUnits
           /\ \A c \in Calls :
                /\ Carried' \subseteq Carried \cup {c} => CarriedUnits' <= CarriedUnits + Q(c)
                /\ Carried' \subseteq Carried \ {c} /\ c \in Carried =>
                     CarriedUnits' + Q(c) <= CarriedUnits
<1>1. /\ Promised \in SUBSET Requests /\ Promised' \in SUBSET Requests
      /\ Owed \in SUBSET Requests /\ Owed' \in SUBSET Requests
      /\ Carried \in SUBSET Calls /\ Carried' \in SUBSET Calls
  BY QuantitiesAreTyped DEF Promised, Owed, Carried, TypeOK
<1>2. /\ PromisedUnits \in Nat /\ PromisedUnits' \in Nat
      /\ Promised' \subseteq Promised => PromisedUnits' <= PromisedUnits
      /\ \A r \in Requests :
           /\ Promised' \subseteq Promised \cup {r} =>
                PromisedUnits' <= PromisedUnits + Qty[r]
           /\ Promised' \subseteq Promised \ {r} /\ r \in Promised =>
                PromisedUnits' + Qty[r] <= PromisedUnits
  <2>1. \A r : Promised' \subseteq Promised \ {r} /\ r \in Promised =>
            Promised' \cup {r} \subseteq Promised /\ r \notin Promised'
    OBVIOUS
  <2> QED BY <1>1, <2>1, RequestUnits DEF PromisedUnits
<1>3. /\ OwedUnits \in Nat /\ OwedUnits' \in Nat
      /\ Owed' \subseteq Owed => OwedUnits' <= OwedUnits
      /\ \A r \in Requests :
           /\ Owed' \subseteq Owed \cup {r} => OwedUnits' <= OwedUnits + Qty[r]
           /\ Owed' \subseteq Owed \ {r} /\ r \in Owed => OwedUnits' + Qty[r] <= OwedUnits
  <2>1. \A r : Owed' \subseteq Owed \ {r} /\ r \in Owed =>
            Owed' \cup {r} \subseteq Owed /\ r \notin Owed'
    OBVIOUS
  <2> QED BY <1>1, <2>1, RequestUnits DEF OwedUnits
<1>4. /\ CarriedUnits \in Nat /\ CarriedUnits' \in Nat
      /\ Carried' \subseteq Carried => CarriedUnits' <= CarriedUnits
      /\ \A c \in Calls :
           /\ Carried' \subseteq Carried \cup {c} => CarriedUnits' <= CarriedUnits + Q(c)
           /\ Carried' \subseteq Carried \ {c} /\ c \in Carried =>
                CarriedUnits' + Q(c) <= CarriedUnits
  <2>1. \A c : Carried' \subseteq Carried \ {c} /\ c \in Carried =>
            Carried' \cup {c} \subseteq Carried /\ c \notin Carried'
    OBVIOUS
  <2> QED BY <1>1, <2>1, CallUnits DEF CarriedUnits
<1> QED BY <1>2, <1>3, <1>4

\* The mishaps of a step are added to those there were.
LEMMA MishapsGrow == ASSUME [Next]_vars PROVE mishaps \subseteq mishaps'
  BY DEF Next, Serve, PreDeduct, Again, Record, SetEntry, Produce, Rollback, GiveBack, CloseEntry, Crash,
         Orphaned, Consume, DeadLettered, GrowOld, Reconcile, ScanLedger, CountOrders,
         SettleEntry, SettleError, StopRound, NoMishap, Mishap, Happened, flow, vars

\* What every step has in common.
LEMMA StepIsTyped ==
    ASSUME IndInv, IndInv', NEW c \in Calls, Serve(c) \/ Crash(c) \/ Consume(c)
    PROVE  /\ TypeOK /\ TypeOK' /\ mishaps \subseteq mishaps'
           /\ redis \in Nat /\ redis' \in Nat /\ InitialStock \in Nat
           /\ RequestOf[c] \in Requests /\ Q(c) = Qty[RequestOf[c]] /\ Q(c) \in Nat
  BY MishapsGrow, QuantitiesAreTyped, LedgerAssumption
  DEF IndInv, TypeOK, Next, Q, LedgerAssumption

LEMMA ExcessGrows ==
    ASSUME TypeOK, TypeOK', mishaps \subseteq mishaps'
    PROVE  /\ Cost(ExcessKinds) \in Nat /\ Cost(ExcessKinds)' \in Nat
           /\ Cost(ExcessKinds) <= Cost(ExcessKinds)'
           /\ \A c \in Calls, k \in ExcessKinds :
                <<k, c>> \in mishaps' /\ <<k, c>> \notin mishaps =>
                   Cost(ExcessKinds) + Q(c) <= Cost(ExcessKinds)'
<1>1. ExcessKinds \in SUBSET (LeakKinds \cup ExcessKinds)
  OBVIOUS
<1> QED BY <1>1, CostGrows

\* An entry comes to be owed when its last call is no longer on its way.
LEMMA OwedMoves ==
    ASSUME TypeOK, InOrder, NEW c \in Calls, Serve(c) \/ Crash(c)
    PROVE  /\ Owed' \subseteq Owed \cup {RequestOf[c]}
           /\ step'[c] \in Midway \/ c \in topic' => Owed' \subseteq Owed
           /\ ledger'[RequestOf[c]] # "pending" => Owed' \subseteq Owed
           /\ step[c] \notin Midway /\ c \notin topic => Owed' \subseteq Owed
<1> DEFINE r == RequestOf[c]
<1>1. r \in Requests /\ UNCHANGED <<old, ordered, todo, checked>>
  BY QuantitiesAreTyped, ServingMoves
<1>2. \A d \in Calls : d # c => step'[d] = step[d] /\ (d \in topic' <=> d \in topic)
  BY ServingMoves
<1>3. ASSUME NEW q \in Requests, q # r, q \in Owed' PROVE q \in Owed
  <2>1. InFlight(q)' = InFlight(q)
    BY <1>2, <1>3 DEF InFlight
  <2>2. ledger'[q] = ledger[q]
    BY <1>1, <1>3 DEF Serve, PreDeduct, Record, SetEntry, Produce, Rollback, GiveBack, CloseEntry, Settle,
                      Crash, TypeOK
  <2> QED BY <1>1, <1>3, <2>1, <2>2 DEF Owed
<1>4. Owed' \subseteq Owed \cup {r}
  BY <1>3 DEF Owed
<1>5. ledger'[r] # "pending" => r \notin Owed'
  BY DEF Owed
<1>6. ASSUME r \in Owed', r \in old PROVE r \in Owed
  <2>1. ledger[r] # "none"
    BY <1>6 DEF InOrder, WorkIsOld
  <2>2. ledger'[r] = "pending"
    BY <1>6 DEF Owed
  <2>3. ledger[r] = "pending"
    BY <1>1, <2>1, <2>2 DEF Serve, PreDeduct, Record, SetEntry, Produce, Rollback, GiveBack, CloseEntry,
                            Settle, Crash, TypeOK
  <2> QED BY <1>1, <1>6, <2>3 DEF Owed
<1>7. ASSUME step'[c] \in Midway \/ c \in topic', r \in Owed' PROVE r \in old
  <2>1. c \in InFlight(r)'
    BY <1>7 DEF InFlight
  <2> QED BY <1>1, <1>7, <2>1 DEF Owed
<1>8. ASSUME step[c] \notin Midway, c \notin topic, r \in Owed', r \notin old
      PROVE  r \in Owed
  <2>1. step[c] = "start" /\ PreDeduct(c)
    BY <1>8 DEF Serve, PreDeduct, Record, Produce, Rollback, GiveBack, CloseEntry, Crash, Midway
  <2>2. UNCHANGED ledger
    BY <2>1 DEF PreDeduct
  <2>3. InFlight(r)' = {}
    BY <1>1, <1>8 DEF Owed
  <2>4. InFlight(r) = {}
    BY <1>2, <1>8, <2>3 DEF InFlight
  <2> QED BY <1>1, <1>8, <2>2, <2>4 DEF Owed
<1> QED BY <1>4, <1>5, <1>6, <1>7, <1>8

LEMMA PreDeductOffers ==
    ASSUME IndInv, IndInv', InOrder, OffersWhatIsLeft, NEW c \in Calls, PreDeduct(c)
    PROVE  OffersWhatIsLeft'
<1>1. /\ TypeOK /\ TypeOK' /\ mishaps \subseteq mishaps' /\ Serve(c)
      /\ redis \in Nat /\ redis' \in Nat /\ Q(c) \in Nat /\ InitialStock \in Nat
  BY StepIsTyped DEF Serve
<1>2. Promised' \subseteq Promised
  BY DEF PreDeduct, Promised, db
<1>3. Owed' \subseteq Owed
  <2>1. step[c] \notin Midway /\ c \notin topic
    BY DEF PreDeduct, Midway, InOrder, EntryFirst
  <2> QED BY <1>1, <2>1, OwedMoves
<1>4. \/ redis' <= redis /\ Carried' \subseteq Carried
      \/ redis' = redis - Q(c) /\ Carried' \subseteq Carried \cup {c}
  BY <1>1 DEF PreDeduct, Goto, Carried, TypeOK
<1> QED BY <1>1, <1>2, <1>3, <1>4, OfferCounts, ExcessGrows DEF OffersWhatIsLeft

LEMMA RecordOffers ==
    ASSUME IndInv, IndInv', InOrder, OffersWhatIsLeft, NEW c \in Calls, Record(c)
    PROVE  OffersWhatIsLeft'
<1>1. /\ TypeOK /\ TypeOK' /\ mishaps \subseteq mishaps' /\ Serve(c)
      /\ redis \in Nat /\ redis' = redis /\ InitialStock \in Nat
      /\ RequestOf[c] \in Requests /\ Q(c) = Qty[RequestOf[c]] /\ Q(c) \in Nat
  BY StepIsTyped DEF Record, Serve
<1>2. Promised' \subseteq Promised
  BY DEF Record, Promised, db
<1>3. \/ Owed' \subseteq Owed /\ Carried' \subseteq Carried
      \/ /\ Owed' \subseteq Owed \cup {RequestOf[c]}
         /\ Carried' \subseteq Carried \ {c} /\ c \in Carried
  <2>1. CASE step'[c] = "recorded"
    <3>1. Carried' \subseteq Carried
      BY <1>1, <2>1 DEF Record, Goto, Carried, TypeOK
    <3> QED BY <1>1, <2>1, <3>1, OwedMoves DEF Midway
  <2>2. CASE step'[c] = "failed"
    <3>1. Carried' \subseteq Carried \ {c} /\ c \in Carried
      BY <1>1, <2>2 DEF Record, Goto, Carried, TypeOK
    <3> QED BY <1>1, <3>1, OwedMoves
  <2> QED BY <1>1, <2>1, <2>2 DEF Record, Goto, TypeOK
<1> QED BY <1>1, <1>2, <1>3, OfferCounts, ExcessGrows DEF OffersWhatIsLeft

LEMMA ProduceOffers ==
    ASSUME IndInv, IndInv', InOrder, OffersWhatIsLeft, NEW c \in Calls, Produce(c)
    PROVE  OffersWhatIsLeft'
<1>1. /\ TypeOK /\ TypeOK' /\ mishaps \subseteq mishaps' /\ Serve(c)
      /\ redis \in Nat /\ redis' = redis /\ InitialStock \in Nat
      /\ RequestOf[c] \in Requests /\ Q(c) = Qty[RequestOf[c]] /\ Q(c) \in Nat
  BY StepIsTyped DEF Produce, Serve
<1>2. Owed' \subseteq Owed
  <2>1. step'[c] \in Midway \/ c \in topic'
    BY <1>1 DEF Produce, Goto, Midway, TypeOK
  <2> QED BY <1>1, <2>1, OwedMoves
<1>3. CASE step'[c] = "accepted"
  <2>1. Promised' \subseteq Promised \cup {RequestOf[c]}
    BY <1>1, <1>3 DEF Produce, Goto, Promised, TypeOK, db
  <2>2. Carried' \subseteq Carried \ {c} /\ c \in Carried
    BY <1>1, <1>3 DEF Produce, Goto, Carried, TypeOK
  <2> QED BY <1>1, <1>2, <2>1, <2>2, OfferCounts, ExcessGrows DEF OffersWhatIsLeft
<1>4. CASE step'[c] = "undelivered"
  <2>1. Carried' \subseteq Carried
    BY <1>1, <1>4 DEF Produce, Goto, Carried, TypeOK
  <2>2. CASE UNCHANGED topic
    <3>1. Promised' \subseteq Promised
      BY <2>2 DEF Produce, Promised, db
    <3> QED BY <1>1, <1>2, <2>1, <3>1, OfferCounts, ExcessGrows DEF OffersWhatIsLeft
  <2>3. CASE topic' = topic \cup {c} /\ Mishap("produce_unheard", c)
    <3>1. Promised' \subseteq Promised \cup {RequestOf[c]}
      BY <2>3 DEF Produce, Promised, db
    <3>2. /\ "produce_unheard" \in ExcessKinds
          /\ <<"produce_unheard", c>> \in mishaps' /\ <<"produce_unheard", c>> \notin mishaps
      BY <2>3 DEF Produce, Mishap, Happened, ExcessKinds, InOrder, Past
    <3>3. Cost(ExcessKinds) + Q(c) <= Cost(ExcessKinds)'
      BY <1>1, <3>2, ExcessGrows
    <3> QED BY <1>1, <1>2, <2>1, <3>1, <3>3, OfferCounts, ExcessGrows DEF OffersWhatIsLeft
  <2> QED BY <1>1, <1>4, <2>2, <2>3 DEF Produce, Goto, TypeOK
<1> QED BY <1>1, <1>3, <1>4 DEF Produce, Goto, TypeOK

LEMMA RollbackOffers ==
    ASSUME IndInv, IndInv', InOrder, OffersWhatIsLeft, NEW c \in Calls, Rollback(c)
    PROVE  OffersWhatIsLeft'
<1>1. /\ TypeOK /\ TypeOK' /\ mishaps \subseteq mishaps' /\ Serve(c)
      /\ redis \in Nat /\ redis' \in Nat /\ redis' <= redis + Q(c) /\ InitialStock \in Nat
      /\ RequestOf[c] \in Requests /\ Q(c) = Qty[RequestOf[c]] /\ Q(c) \in Nat
  BY StepIsTyped DEF Rollback, GiveBack, Serve
<1>2. Promised' \subseteq Promised
  BY DEF Rollback, GiveBack, Promised, db
<1>3. Carried' \subseteq Carried \ {c} /\ c \in Carried
  BY <1>1 DEF Rollback, GiveBack, Goto, Carried, TypeOK
<1>4. Owed' \subseteq Owed
  <2>1. CASE c \in Ledgered
    <3>1. step'[c] \in Midway
      BY <1>1, <2>1 DEF Rollback, GiveBack, Goto, Midway, TypeOK
    <3> QED BY <1>1, <3>1, OwedMoves
  <2>2. CASE c \notin Ledgered
    <3>1. ledger'[RequestOf[c]] # "pending"
      BY <2>2 DEF Rollback, GiveBack, InOrder, EntryFirst
    <3> QED BY <1>1, <3>1, OwedMoves
  <2> QED BY <2>1, <2>2
<1> QED BY <1>1, <1>2, <1>3, <1>4, OfferCounts, ExcessGrows DEF OffersWhatIsLeft

\* An entry that was left open is owed, at the cost of a mishap.
LEMMA LeftOpenOffers ==
    ASSUME IndInv, IndInv', InOrder, OffersWhatIsLeft, NEW c \in Calls, Serve(c) \/ Crash(c),
           step[c] = "rolled_back", step'[c] \in {"failed", "crashed"},
           UNCHANGED <<redis, ledger, topic, ordered>>, Mishap("left_open", c)
    PROVE  OffersWhatIsLeft'
<1>1. /\ TypeOK /\ TypeOK' /\ mishaps \subseteq mishaps'
      /\ redis \in Nat /\ InitialStock \in Nat
      /\ RequestOf[c] \in Requests /\ Q(c) = Qty[RequestOf[c]] /\ Q(c) \in Nat
  BY StepIsTyped
<1>2. Promised' \subseteq Promised
  BY DEF Promised
<1>3. Carried' \subseteq Carried
  BY <1>1, ServingMoves DEF Carried
<1>4. Owed' \subseteq Owed \cup {RequestOf[c]}
  BY <1>1, OwedMoves
<1>5. /\ "left_open" \in ExcessKinds
      /\ <<"left_open", c>> \in mishaps' /\ <<"left_open", c>> \notin mishaps
  BY DEF Mishap, Happened, ExcessKinds, InOrder, Past
<1>6. Cost(ExcessKinds) + Q(c) <= Cost(ExcessKinds)'
  BY <1>1, <1>5, ExcessGrows
<1> QED BY <1>1, <1>2, <1>3, <1>4, <1>6, OfferCounts, ExcessGrows DEF OffersWhatIsLeft

LEMMA CloseEntryOffers ==
    ASSUME IndInv, IndInv', InOrder, OffersWhatIsLeft, NEW c \in Calls, CloseEntry(c)
    PROVE  OffersWhatIsLeft'
<1>1. /\ TypeOK /\ TypeOK' /\ mishaps \subseteq mishaps' /\ Serve(c)
      /\ redis \in Nat /\ InitialStock \in Nat /\ RequestOf[c] \in Requests
  BY StepIsTyped DEF Serve
<1>2. /\ step[c] = "rolled_back" /\ step'[c] = "failed"
      /\ UNCHANGED <<topic, ordered>>
  BY <1>1 DEF CloseEntry, Goto, TypeOK, db
<1>3. CASE Settle(RequestOf[c], 0)
  <2>1. redis' = redis
    BY <1>1, <1>3 DEF Settle
  <2>2. Promised' \subseteq Promised
    BY <1>2 DEF Promised
  <2>3. Carried' \subseteq Carried
    BY <1>1, <1>2, ServingMoves DEF Carried
  <2>4. ledger'[RequestOf[c]] # "pending"
    BY <1>1, <1>3 DEF Settle, TypeOK
  <2>5. Owed' \subseteq Owed
    BY <1>1, <2>4, OwedMoves
  <2> QED BY <1>1, <2>1, <2>2, <2>3, <2>5, OfferCounts, ExcessGrows DEF OffersWhatIsLeft
<1>4. CASE UNCHANGED <<ledger, redis>> /\ Mishap("left_open", c)
  BY <1>1, <1>2, <1>4, LeftOpenOffers
<1> QED BY <1>3, <1>4 DEF CloseEntry

LEMMA CrashOffers ==
    ASSUME IndInv, IndInv', InOrder, OffersWhatIsLeft, NEW c \in Calls, Crash(c)
    PROVE  OffersWhatIsLeft'
<1>1. /\ TypeOK /\ TypeOK' /\ mishaps \subseteq mishaps'
      /\ redis \in Nat /\ redis' = redis /\ InitialStock \in Nat
      /\ RequestOf[c] \in Requests /\ Q(c) = Qty[RequestOf[c]] /\ Q(c) \in Nat
  BY StepIsTyped DEF Crash
<1>2. step'[c] = "crashed" /\ UNCHANGED <<ledger, topic, ordered>>
  BY <1>1 DEF Crash, Goto, TypeOK, db
<1>3. CASE step[c] = "rolled_back"
  <2>1. Mishap("left_open", c)
    BY <1>3 DEF Crash, Orphaned
  <2> QED BY <1>1, <1>2, <1>3, <2>1, LeftOpenOffers
<1>4. CASE step[c] # "rolled_back"
  <2>1. Promised' \subseteq Promised
    BY <1>2 DEF Promised
  <2>2. Carried' \subseteq Carried \ {c} /\ c \in Carried
    BY <1>2, <1>4, <1>1, ServingMoves DEF Carried, Crash, Midway
  <2>3. Owed' \subseteq Owed \cup {RequestOf[c]}
    BY <1>1, OwedMoves
  <2> QED BY <1>1, <2>1, <2>2, <2>3, OfferCounts, ExcessGrows DEF OffersWhatIsLeft
<1> QED BY <1>3, <1>4

LEMMA ConsumeOffers ==
    ASSUME IndInv, IndInv', InOrder, OffersWhatIsLeft, NEW c \in Calls, Consume(c)
    PROVE  OffersWhatIsLeft'
<1> DEFINE r == RequestOf[c]
<1>1. /\ TypeOK /\ TypeOK' /\ mishaps \subseteq mishaps'
      /\ redis \in Nat /\ redis' = redis /\ InitialStock \in Nat
      /\ r \in Requests /\ Qty[r] \in Nat
  BY StepIsTyped DEF Consume
<1>2. /\ UNCHANGED <<ledger, old, step, todo, checked>>
      /\ c \in topic /\ topic' \in {topic, topic \ {c}}
      /\ \/ ordered' = ordered \cup {r} \/ ordered' = ordered
  BY DEF Consume, PlaceRecord, db, work
<1>3. Carried' \subseteq Carried
  BY <1>2 DEF Carried
<1>4. ASSUME NEW s \in Requests, s \in Owed', s # r \/ r \in ordered' \/ topic' = topic
      PROVE  s \in Owed
  <2>1. s # r => InFlight(s)' = InFlight(s)
    BY <1>2 DEF InFlight
  <2>2. topic' = topic => InFlight(s)' = InFlight(s)
    BY <1>2 DEF InFlight
  <2> QED BY <1>2, <1>4, <2>1, <2>2 DEF Owed
<1>5. CASE r \in ordered' \/ topic' = topic
  <2>1. Owed' \subseteq Owed
    BY <1>4, <1>5 DEF Owed
  <2>2. Promised' \subseteq Promised
    BY <1>2 DEF Promised
  <2> QED BY <1>1, <1>3, <2>1, <2>2, OfferCounts, ExcessGrows DEF OffersWhatIsLeft
<1>6. CASE r \notin ordered' /\ topic' = topic \ {c}
  <2>1. Owed' \subseteq Owed \cup {r}
    BY <1>4 DEF Owed
  <2>2. Promised' \subseteq Promised /\ r \in Promised
    BY <1>2, <1>6 DEF Promised
  <2>3. CASE r \in Promised'
    <3>1. PICK d \in topic' : RequestOf[d] = r
      BY <1>6, <2>3 DEF Promised
    <3>2. r \in Owed' => r \in Owed
      <4>1. d \in InFlight(r)'
        BY <1>1, <3>1 DEF InFlight, TypeOK
      <4> QED BY <1>2, <4>1 DEF Owed
    <3>3. Owed' \subseteq Owed
      BY <2>1, <3>2
    <3> QED BY <1>1, <1>3, <2>2, <3>3, OfferCounts, ExcessGrows DEF OffersWhatIsLeft
  <2>4. CASE r \notin Promised'
    <3>1. Promised' \subseteq Promised \ {r}
      BY <2>2, <2>4
    <3> QED BY <1>1, <1>3, <2>1, <2>2, <3>1, OfferCounts, ExcessGrows DEF OffersWhatIsLeft
  <2> QED BY <2>3, <2>4
<1> QED BY <1>2, <1>5, <1>6

LEMMA GrowOldOffers ==
    ASSUME IndInv, IndInv', InOrder, OffersWhatIsLeft, NEW r \in Requests, GrowOld(r)
    PROVE  OffersWhatIsLeft'
<1>1. /\ TypeOK /\ TypeOK' /\ mishaps \subseteq mishaps'
      /\ redis \in Nat /\ redis' = redis /\ InitialStock \in Nat /\ Qty[r] \in Nat
  BY MishapsGrow, QuantitiesAreTyped, LedgerAssumption
  DEF IndInv, TypeOK, GrowOld, Next, LedgerAssumption
<1>2. /\ UNCHANGED <<ledger, step, topic, ordered, checked>>
      /\ r \notin old /\ old' = old \cup {r}
  BY DEF GrowOld, db, work
<1>3. Promised' \subseteq Promised /\ Carried' \subseteq Carried
  BY <1>2 DEF Promised, Carried
<1>4. InFlight(r)' = InFlight(r) /\ \A s \in Requests : InFlight(s)' = InFlight(s)
  BY <1>2 DEF InFlight
<1>5. Owed' \subseteq Owed \cup {r}
  BY <1>2, <1>4 DEF Owed
<1>6. CASE InFlight(r) = {}
  <2>1. \A w \in Workers : \A e \in checked[w] : e.request # r
    BY <1>2 DEF InOrder, WorkIsOld
  <2>2. r \in Owed' => r \in Owed
    BY <1>2, <1>6, <2>1 DEF Owed
  <2>3. Owed' \subseteq Owed
    BY <1>5, <2>2
  <2> QED BY <1>1, <1>3, <2>3, OfferCounts, ExcessGrows DEF OffersWhatIsLeft
<1>7. CASE \E c \in InFlight(r) : Mishap("aged_in_flight", c)
  <2>1. PICK c \in InFlight(r) : Mishap("aged_in_flight", c)
    BY <1>7
  <2>2. c \in Calls /\ RequestOf[c] = r /\ Q(c) = Qty[r]
    BY <2>1 DEF InFlight, Q
  <2>3. /\ "aged_in_flight" \in ExcessKinds
        /\ <<"aged_in_flight", c>> \in mishaps' /\ <<"aged_in_flight", c>> \notin mishaps
    BY <1>2, <2>1, <2>2 DEF Mishap, Happened, ExcessKinds, InOrder, Past
  <2>4. Cost(ExcessKinds) + Qty[r] <= Cost(ExcessKinds)'
    BY <1>1, <2>2, <2>3, ExcessGrows
  <2> QED BY <1>1, <1>3, <1>5, <2>4, OfferCounts, ExcessGrows DEF OffersWhatIsLeft
<1> QED BY <1>6, <1>7 DEF GrowOld

\* A worker's own work moves neither calls nor orders nor mishaps.
LEMMA ReconcilingMoves ==
    ASSUME NEW w \in Workers, Reconcile(w) \/ SettleError(w) \/ StopRound(w)
    PROVE  UNCHANGED <<old, step, topic, ordered, mishaps>>
  BY DEF Reconcile, ScanLedger, CountOrders, SettleEntry, SettleError, StopRound, flow, db

\* What a worker holds as a verdict is what the orders said, and stays so.
LEMMA VerdictIsSound ==
    ASSUME TypeOK, InOrder, NEW w \in Workers, NEW e \in checked[w]
    PROVE  /\ e.request \in Requests /\ e.request \in old
           /\ e.refund \in {0, Qty[e.request]} /\ e.refund \in Nat
           /\ e.refund = 0 => e.request \in ordered
           /\ e.refund > 0 /\ ledger[e.request] = "pending" => e.request \in Owed
<1>1. e.request \in Requests /\ e.refund \in {0, Qty[e.request]} /\ e.refund \in Nat
  BY QuantitiesAreTyped DEF TypeOK
<1>2. e.request \in old /\ (e.refund = 0 => e.request \in ordered)
  BY DEF InOrder, WorkIsOld
<1> QED BY <1>1, <1>2 DEF Owed

LEMMA ReadingOffers ==
    ASSUME IndInv, IndInv', InOrder, OffersWhatIsLeft, NEW w \in Workers,
           ScanLedger(w) \/ CountOrders(w) \/ StopRound(w)
    PROVE  OffersWhatIsLeft'
<1>1. /\ TypeOK /\ TypeOK' /\ mishaps \subseteq mishaps'
      /\ redis \in Nat /\ redis' = redis /\ InitialStock \in Nat
  BY MishapsGrow, LedgerAssumption
  DEF IndInv, TypeOK, ScanLedger, CountOrders, StopRound, Reconcile, Next, flow, LedgerAssumption
<1>2. UNCHANGED <<ledger, old, step, topic, ordered>>
  BY DEF ScanLedger, CountOrders, StopRound, flow, db
<1>3. Promised' \subseteq Promised /\ Carried' \subseteq Carried
  BY <1>2 DEF Promised, Carried
<1>4. \A s \in Requests : InFlight(s)' = InFlight(s)
  BY <1>2 DEF InFlight
<1>5. ASSUME NEW v \in Workers, NEW e \in checked'[v], e \notin checked[v], e.refund > 0
      PROVE  e.request \notin ordered
  <2>1. CountOrders(w) /\ v = w
    BY <1>1, <1>5 DEF ScanLedger, CountOrders, StopRound, EndRound, EndEntry, TypeOK
  <2>2. PICK r \in todo[w] : checked' = [checked EXCEPT ![w] =
                                {[request |-> r, refund |-> Refunded(r)]}]
    BY <2>1 DEF CountOrders
  <2>3. e.request = r /\ e.refund = Refunded(r)
    BY <1>1, <1>5, <2>1, <2>2 DEF TypeOK
  <2> QED BY <1>5, <2>3 DEF Refunded
<1>6. Owed' \subseteq Owed
  <2> SUFFICES ASSUME NEW s \in Requests, s \in Owed' PROVE s \in Owed
    BY DEF Owed
  <2>1. CASE \E v \in Workers : \E e \in checked'[v] : e.request = s /\ e.refund > 0
    BY <1>2, <1>4, <1>5, <2>1 DEF Owed
  <2>2. CASE ~ \E v \in Workers : \E e \in checked'[v] : e.request = s /\ e.refund > 0
    BY <1>2, <1>4, <2>2 DEF Owed
  <2> QED BY <2>1, <2>2
<1> QED BY <1>1, <1>3, <1>6, OfferCounts, ExcessGrows DEF OffersWhatIsLeft

\* What a settlement gives back was owed.
LEMMA SettlingOffers ==
    ASSUME IndInv, IndInv', InOrder, OffersWhatIsLeft, NEW w \in Workers,
           SettleEntry(w) \/ SettleError(w)
    PROVE  OffersWhatIsLeft'
<1>1. /\ TypeOK /\ TypeOK' /\ mishaps \subseteq mishaps'
      /\ redis \in Nat /\ redis' \in Nat /\ InitialStock \in Nat
  BY MishapsGrow, LedgerAssumption DEF IndInv, TypeOK, Reconcile, Next, LedgerAssumption
<1>2. UNCHANGED <<old, step, topic, ordered>>
  BY DEF SettleEntry, SettleError, db
<1>3. Promised' \subseteq Promised /\ Carried' \subseteq Carried
  BY <1>2 DEF Promised, Carried
<1>4. \A s \in Requests : InFlight(s)' = InFlight(s)
  BY <1>2 DEF InFlight
<1>5. PICK e \in checked[w] : Settle(e.request, e.refund) \/ UNCHANGED <<ledger, redis>>
  BY DEF SettleEntry, SettleError
<1>6. \A v \in Workers : checked'[v] \subseteq checked[v]
  BY <1>1 DEF SettleEntry, SettleError, EndRound, EndEntry, TypeOK
<1>7. /\ e.request \in Requests /\ e.refund \in {0, Qty[e.request]} /\ e.refund \in Nat
      /\ Qty[e.request] \in Nat /\ Qty[e.request] > 0
      /\ e.refund > 0 /\ ledger[e.request] = "pending" => e.request \in Owed
  BY <1>1, VerdictIsSound, LedgerAssumption DEF LedgerAssumption
<1>8. \A s \in Requests : ledger'[s] = "pending" => ledger[s] = "pending"
  BY <1>1, <1>5, <1>7 DEF Settle, TypeOK
<1>9. Owed' \subseteq Owed
  BY <1>2, <1>4, <1>6, <1>8 DEF Owed
<1>10. CASE redis' = redis
  BY <1>1, <1>3, <1>9, <1>10, OfferCounts, ExcessGrows DEF OffersWhatIsLeft
<1>11. CASE redis' # redis
  <2>1. /\ e.refund > 0 /\ redis' = redis + Qty[e.request]
        /\ ledger[e.request] = "pending" /\ ledger'[e.request] = "reconciled"
    BY <1>1, <1>5, <1>7, <1>11 DEF Settle, TypeOK
  <2>2. e.request \in Owed /\ Owed' \subseteq Owed \ {e.request}
    BY <1>7, <1>9, <2>1 DEF Owed
  <2> QED BY <1>1, <1>3, <1>7, <2>1, <2>2, OfferCounts, ExcessGrows DEF OffersWhatIsLeft
<1> QED BY <1>10, <1>11

LEMMA InitOffers == Init => OffersWhatIsLeft
<1> SUFFICES ASSUME Init PROVE OffersWhatIsLeft
  OBVIOUS
<1>1. Promised = {} /\ Owed = {} /\ Carried = {} /\ {x \in mishaps : x[1] \in ExcessKinds} = {}
  BY LedgerAssumption DEF Init, Promised, Owed, Carried, LedgerAssumption
<1>2. Units({}) = {} /\ Taken({}) = {}
  BY DEF Units, Taken
<1>3. PromisedUnits = 0 /\ OwedUnits = 0 /\ CarriedUnits = 0
  BY <1>1, <1>2, FS_EmptySet DEF PromisedUnits, OwedUnits, CarriedUnits
<1>4. Cost(ExcessKinds) = 0
  BY <1>1, FS_EmptySet DEF Cost
<1>5. InitialStock \in Nat /\ redis = InitialStock
  BY LedgerAssumption DEF Init, LedgerAssumption
<1> QED BY <1>3, <1>4, <1>5 DEF OffersWhatIsLeft

-------------------------------------------------------------------------------
(***************************************************************************)
(* What was taken is known: again one lemma for each kind of step.         *)
(***************************************************************************)
LEMMA TakenCounts ==
    ASSUME TypeOK, TypeOK'
    PROVE  /\ StandingUnits \in Nat /\ UnwrittenUnits \in Nat /\ UnclosedUnits \in Nat
           /\ StandingUnits' \in Nat /\ UnwrittenUnits' \in Nat /\ UnclosedUnits' \in Nat
           /\ Standing \subseteq Standing' => StandingUnits <= StandingUnits'
           /\ Unwritten \subseteq Unwritten' => UnwrittenUnits <= UnwrittenUnits'
           /\ Unclosed' \subseteq Unclosed => UnclosedUnits' <= UnclosedUnits
           /\ \A r \in Requests :
                /\ Standing \subseteq Standing' \cup {r} =>
                     StandingUnits <= StandingUnits' + Qty[r]
                /\ Standing \cup {r} \subseteq Standing' /\ r \notin Standing =>
                     StandingUnits + Qty[r] <= StandingUnits'
           /\ \A c \in Calls :
                /\ Unwritten \subseteq Unwritten' \cup {c} =>
                     UnwrittenUnits <= UnwrittenUnits' + Q(c)
                /\ Unwritten \cup {c} \subseteq Unwritten' /\ c \notin Unwritten =>
                     UnwrittenUnits + Q(c) <= UnwrittenUnits'
                /\ Unclosed' \subseteq Unclosed \cup {c} =>
                     UnclosedUnits' <= UnclosedUnits + Q(c)
                /\ Unclosed' \cup {c} \subseteq Unclosed /\ c \notin Unclosed' =>
                     UnclosedUnits' + Q(c) <= UnclosedUnits
<1>1. /\ Standing \in SUBSET Requests /\ Standing' \in SUBSET Requests
      /\ Unwritten \in SUBSET Calls /\ Unwritten' \in SUBSET Calls
      /\ Unclosed \in SUBSET Calls /\ Unclosed' \in SUBSET Calls
  BY DEF Standing, Unwritten, Unclosed
<1>2. /\ StandingUnits \in Nat /\ StandingUnits' \in Nat
      /\ Standing \subseteq Standing' => StandingUnits <= StandingUnits'
      /\ \A r \in Requests :
           /\ Standing \subseteq Standing' \cup {r} =>
                StandingUnits <= StandingUnits' + Qty[r]
           /\ Standing \cup {r} \subseteq Standing' /\ r \notin Standing =>
                StandingUnits + Qty[r] <= StandingUnits'
  BY <1>1, RequestUnits DEF StandingUnits
<1>3. /\ UnwrittenUnits \in Nat /\ UnwrittenUnits' \in Nat
      /\ Unwritten \subseteq Unwritten' => UnwrittenUnits <= UnwrittenUnits'
      /\ \A c \in Calls :
           /\ Unwritten \subseteq Unwritten' \cup {c} =>
                UnwrittenUnits <= UnwrittenUnits' + Q(c)
           /\ Unwritten \cup {c} \subseteq Unwritten' /\ c \notin Unwritten =>
                UnwrittenUnits + Q(c) <= UnwrittenUnits'
  BY <1>1, CallUnits DEF UnwrittenUnits
<1>4. /\ UnclosedUnits \in Nat /\ UnclosedUnits' \in Nat
      /\ Unclosed' \subseteq Unclosed => UnclosedUnits' <= UnclosedUnits
      /\ \A c \in Calls :
           /\ Unclosed' \subseteq Unclosed \cup {c} =>
                UnclosedUnits' <= UnclosedUnits + Q(c)
           /\ Unclosed' \cup {c} \subseteq Unclosed /\ c \notin Unclosed' =>
                UnclosedUnits' + Q(c) <= UnclosedUnits
  BY <1>1, CallUnits DEF UnclosedUnits
<1> QED BY <1>2, <1>3, <1>4

LEMMA LeakGrows ==
    ASSUME TypeOK, TypeOK', mishaps \subseteq mishaps'
    PROVE  /\ Cost(LeakKinds) \in Nat /\ Cost(LeakKinds)' \in Nat
           /\ Cost(LeakKinds) <= Cost(LeakKinds)'
           /\ \A c \in Calls, k \in LeakKinds :
                <<k, c>> \in mishaps' /\ <<k, c>> \notin mishaps =>
                   Cost(LeakKinds) + Q(c) <= Cost(LeakKinds)'
<1>1. LeakKinds \in SUBSET (LeakKinds \cup ExcessKinds)
  OBVIOUS
<1> QED BY <1>1, CostGrows

\* A request stands on for what the others do, and at most the call's own falls.
LEMMA StandingMoves ==
    ASSUME TypeOK, InOrder, NEW c \in Calls, Serve(c) \/ Crash(c)
    PROVE  /\ Standing \subseteq Standing' \cup {RequestOf[c]}
           /\ /\ ledger[RequestOf[c]] = "pending" => ledger'[RequestOf[c]] = "pending"
              /\ Answers(c) => Answers(c)'
              => Standing \subseteq Standing'
<1> DEFINE r == RequestOf[c]
<1>1. r \in Requests /\ UNCHANGED ordered
  BY QuantitiesAreTyped, ServingMoves
<1>2. ASSUME NEW d \in Calls, d # c PROVE Answers(d) => Answers(d)'
  <2>1. \A k : <<k, d>> \in mishaps' => <<k, d>> \in mishaps
    BY <1>2 DEF Serve, PreDeduct, Again, Record, SetEntry, Produce, Rollback, GiveBack, CloseEntry,
                Crash, Orphaned, NoMishap, Mishap, Happened
  <2> QED BY <1>2, <2>1, ServingMoves DEF Answers
<1>3. ASSUME NEW q \in Requests, q # r PROVE ledger[q] = "pending" => ledger'[q] = "pending"
  BY <1>3 DEF Serve, PreDeduct, Record, SetEntry, Produce, Rollback, GiveBack, CloseEntry, Settle,
              Crash, TypeOK
<1>4. ASSUME NEW q \in Standing, q # r PROVE q \in Standing'
  BY <1>1, <1>2, <1>3, <1>4 DEF Standing
<1>5. ASSUME ledger[r] = "pending" => ledger'[r] = "pending", Answers(c) => Answers(c)',
             r \in Standing
      PROVE  r \in Standing'
  BY <1>1, <1>2, <1>5 DEF Standing
<1> QED BY <1>4, <1>5

LEMMA PreDeductKnown ==
    ASSUME IndInv, IndInv', InOrder, TakenIsKnown, NEW c \in Calls, PreDeduct(c)
    PROVE  TakenIsKnown'
<1> DEFINE r == RequestOf[c]
<1>1. /\ TypeOK /\ TypeOK' /\ mishaps \subseteq mishaps' /\ Serve(c)
      /\ redis \in Nat /\ redis' \in Nat /\ InitialStock \in Nat
      /\ r \in Requests /\ Q(c) = Qty[r] /\ Q(c) \in Nat
  BY StepIsTyped DEF Serve
<1>2. step[c] = "start" /\ c \notin topic /\ UNCHANGED <<ledger, topic, ordered>>
  BY DEF PreDeduct, InOrder, EntryFirst, db
<1>3. Standing \subseteq Standing'
  BY <1>1, <1>2, StandingMoves DEF Answers
<1>4. Unclosed' \subseteq Unclosed
  BY <1>1 DEF PreDeduct, Goto, Deducted, Unclosed, TypeOK
<1>5. Unwritten \subseteq Unwritten'
  BY <1>1, <1>2, ServingMoves DEF Unwritten
<1>6. CASE redis' = redis
  BY <1>1, <1>3, <1>4, <1>5, <1>6, TakenCounts, LeakGrows DEF TakenIsKnown
<1>7. CASE redis' = redis - Q(c) /\ step'[c] = "failed" /\ Mishap("deduct_unheard", c)
  <2>1. /\ "deduct_unheard" \in LeakKinds
        /\ <<"deduct_unheard", c>> \in mishaps' /\ <<"deduct_unheard", c>> \notin mishaps
    BY <1>2, <1>7 DEF Mishap, Happened, LeakKinds, InOrder, Past
  <2>2. Cost(LeakKinds) + Q(c) <= Cost(LeakKinds)'
    BY <1>1, <2>1, LeakGrows
  <2> QED BY <1>1, <1>3, <1>4, <1>5, <1>7, <2>2, TakenCounts, LeakGrows DEF TakenIsKnown
<1>8. CASE redis' = redis - Q(c) /\ step'[c] = Deducted(c) /\ Again(c)
  <2>1. CASE c \in Ledgered
    <3>1. Unwritten \cup {c} \subseteq Unwritten' /\ c \notin Unwritten
      BY <1>2, <1>5, <1>8, <2>1 DEF Unwritten, Deducted
    <3> QED BY <1>1, <1>3, <1>4, <1>8, <3>1, TakenCounts, LeakGrows DEF TakenIsKnown
  <2>2. CASE mishaps' = mishaps \cup {<<"taken_again", c>>}
    <3>1. /\ "taken_again" \in LeakKinds
          /\ <<"taken_again", c>> \in mishaps' /\ <<"taken_again", c>> \notin mishaps
      BY <1>2, <2>2 DEF LeakKinds, InOrder, Past
    <3>2. Cost(LeakKinds) + Q(c) <= Cost(LeakKinds)'
      BY <1>1, <3>1, LeakGrows
    <3> QED BY <1>1, <1>3, <1>4, <1>5, <1>8, <3>2, TakenCounts, LeakGrows DEF TakenIsKnown
  <2>3. CASE c \notin Ledgered /\ UNCHANGED mishaps /\ r \notin ordered /\ InFlight(r) = {}
    <3>1. r \notin Standing
      <4>1. ledger[r] # "pending"
        BY <2>3 DEF InOrder, EntryFirst
      <4>2. \A d \in Calls : RequestOf[d] = r => ~ Answers(d)
        BY <2>3 DEF InFlight, Answers, Midway
      <4> QED BY <2>3, <4>1, <4>2 DEF Standing
    <3>2. r \in Standing'
      <4>1. <<"no_entry", c>> \notin mishaps' /\ <<"taken_again", c>> \notin mishaps'
        BY <1>2, <2>3 DEF InOrder, Past
      <4>2. Answers(c)'
        BY <1>8, <2>3, <4>1 DEF Answers, Deducted
      <4> QED BY <1>1, <4>2 DEF Standing
    <3> QED BY <1>1, <1>3, <1>4, <1>5, <1>8, <3>1, <3>2, TakenCounts, LeakGrows
            DEF TakenIsKnown
  <2> QED BY <1>8, <2>1, <2>2, <2>3 DEF Again, Happened, NoMishap
<1> QED BY <1>1, <1>6, <1>7, <1>8 DEF PreDeduct, Goto, TypeOK

\* A call that leaves "deducted" is covered by its new entry or by a mishap.
LEMMA RecordKnown ==
    ASSUME IndInv, IndInv', InOrder, TakenIsKnown, NEW c \in Calls, Record(c)
    PROVE  TakenIsKnown'
<1> DEFINE r == RequestOf[c]
<1>1. /\ TypeOK /\ TypeOK' /\ mishaps \subseteq mishaps' /\ Serve(c)
      /\ redis \in Nat /\ redis' = redis /\ InitialStock \in Nat
      /\ r \in Requests /\ Q(c) = Qty[r] /\ Q(c) \in Nat
  BY StepIsTyped DEF Serve, Record
<1>2. step[c] = "deducted" /\ c \in Ledgered
  BY DEF Record, InOrder, EntryFirst
<1>3. Standing \subseteq Standing'
  <2>1. ledger[r] = "pending" => ledger'[r] = "pending"
    BY <1>1 DEF Record, SetEntry, TypeOK
  <2> QED BY <1>1, <1>2, <2>1, StandingMoves DEF Answers
<1>4. Unclosed' \subseteq Unclosed
  BY <1>1 DEF Record, Goto, Unclosed, TypeOK
<1>5. Unwritten \subseteq Unwritten' \cup {c}
  BY <1>1, ServingMoves DEF Unwritten
<1>6. CASE ledger[r] = "none" /\ ledger'[r] = "pending"
  <2>1. r \notin Standing
    <3>1. r \notin ordered
      BY <1>2, <1>6 DEF InOrder, EntryFirst
    <3>2. \A d \in Calls : RequestOf[d] = r => ~ Answers(d)
      BY <1>2, OneRoute DEF Answers
    <3> QED BY <1>6, <3>1, <3>2 DEF Standing
  <2>2. r \in Standing'
    BY <1>1, <1>6 DEF Standing
  <2> QED BY <1>1, <1>3, <1>4, <1>5, <2>1, <2>2, TakenCounts, LeakGrows DEF TakenIsKnown
<1>7. CASE \E k \in {"taken_again", "no_entry"} : mishaps' = mishaps \cup {<<k, c>>}
  <2>1. PICK k \in {"taken_again", "no_entry"} : mishaps' = mishaps \cup {<<k, c>>}
    BY <1>7
  <2>2. k \in LeakKinds /\ <<k, c>> \in mishaps' /\ <<k, c>> \notin mishaps
    BY <1>2, <2>1 DEF LeakKinds, InOrder, Past
  <2>3. Cost(LeakKinds) + Q(c) <= Cost(LeakKinds)'
    BY <1>1, <2>2, LeakGrows
  <2> QED BY <1>1, <1>3, <1>4, <1>5, <2>3, TakenCounts, LeakGrows DEF TakenIsKnown
<1> QED BY <1>1, <1>6, <1>7 DEF Record, SetEntry, Mishap, Happened, TypeOK

LEMMA ProduceKnown ==
    ASSUME IndInv, IndInv', InOrder, TakenIsKnown, NEW c \in Calls, Produce(c)
    PROVE  TakenIsKnown'
<1>1. /\ TypeOK /\ TypeOK' /\ mishaps \subseteq mishaps' /\ Serve(c)
      /\ redis \in Nat /\ redis' = redis /\ InitialStock \in Nat
  BY StepIsTyped DEF Serve, Produce
<1>2. Standing \subseteq Standing'
  <2>1. Answers(c) => Answers(c)'
    BY <1>1 DEF Produce, Goto, Answers, NoMishap, Mishap, Happened, TypeOK
  <2> QED BY <1>1, <2>1, StandingMoves DEF Produce
<1>3. Unclosed' \subseteq Unclosed /\ Unwritten \subseteq Unwritten'
  BY <1>1 DEF Produce, Goto, Unclosed, Unwritten, TypeOK
<1> QED BY <1>1, <1>2, <1>3, TakenCounts, LeakGrows DEF TakenIsKnown

LEMMA RollbackKnown ==
    ASSUME IndInv, IndInv', InOrder, TakenIsKnown, NEW c \in Calls, Rollback(c)
    PROVE  TakenIsKnown'
<1> DEFINE r == RequestOf[c]
<1>1. /\ TypeOK /\ TypeOK' /\ mishaps \subseteq mishaps' /\ Serve(c)
      /\ redis \in Nat /\ redis' \in Nat /\ InitialStock \in Nat
      /\ r \in Requests /\ Q(c) = Qty[r] /\ Q(c) \in Nat
  BY StepIsTyped DEF Serve
<1>2. \/ redis' = redis + Q(c)
      \/ redis' = redis /\ Cost(LeakKinds) + Q(c) <= Cost(LeakKinds)'
  <2>1. CASE redis' = redis /\ Mishap("not_rolled_back", c)
    <3>1. /\ "not_rolled_back" \in LeakKinds
          /\ <<"not_rolled_back", c>> \in mishaps' /\ <<"not_rolled_back", c>> \notin mishaps
      BY <2>1 DEF Rollback, GiveBack, Mishap, Happened, LeakKinds, InOrder, Past
    <3> QED BY <1>1, <2>1, <3>1, LeakGrows
  <2> QED BY <2>1 DEF Rollback, GiveBack
<1>3. Unwritten \subseteq Unwritten'
  BY <1>1 DEF Rollback, GiveBack, Goto, Unwritten, TypeOK
<1>4. CASE c \in Ledgered
  <2>1. Standing \subseteq Standing'
    BY <1>1, <1>4, StandingMoves DEF Rollback, GiveBack, Answers
  <2>2. Unclosed' \subseteq Unclosed \cup {c}
    BY <1>1, ServingMoves DEF Unclosed
  <2> QED BY <1>1, <1>2, <1>3, <2>1, <2>2, TakenCounts, LeakGrows DEF TakenIsKnown
<1>5. CASE c \notin Ledgered
  <2>1. Standing \subseteq Standing' \cup {r}
    BY <1>1, StandingMoves
  <2>2. Unclosed' \subseteq Unclosed
    BY <1>1, <1>5 DEF Rollback, GiveBack, Goto, Unclosed, TypeOK
  <2> QED BY <1>1, <1>2, <1>3, <2>1, <2>2, TakenCounts, LeakGrows DEF TakenIsKnown
<1> QED BY <1>4, <1>5

LEMMA CloseEntryKnown ==
    ASSUME IndInv, IndInv', InOrder, TakenIsKnown, NEW c \in Calls, CloseEntry(c)
    PROVE  TakenIsKnown'
<1> DEFINE r == RequestOf[c]
<1>1. /\ TypeOK /\ TypeOK' /\ mishaps \subseteq mishaps' /\ Serve(c)
      /\ redis \in Nat /\ InitialStock \in Nat
      /\ r \in Requests /\ Q(c) = Qty[r] /\ Q(c) \in Nat
  BY StepIsTyped DEF Serve
<1>2. redis' = redis
  BY <1>1 DEF CloseEntry, Settle
<1>3. Standing \subseteq Standing' \cup {r}
  BY <1>1, StandingMoves
<1>4. Unclosed' \cup {c} \subseteq Unclosed /\ c \notin Unclosed'
  BY <1>1 DEF CloseEntry, Goto, Unclosed, TypeOK
<1>5. Unwritten \subseteq Unwritten'
  BY <1>1 DEF CloseEntry, Goto, Unwritten, TypeOK
<1> QED BY <1>1, <1>2, <1>3, <1>4, <1>5, TakenCounts, LeakGrows DEF TakenIsKnown

LEMMA CrashKnown ==
    ASSUME IndInv, IndInv', InOrder, TakenIsKnown, NEW c \in Calls, Crash(c)
    PROVE  TakenIsKnown'
<1> DEFINE r == RequestOf[c]
<1>1. /\ TypeOK /\ TypeOK' /\ mishaps \subseteq mishaps'
      /\ redis \in Nat /\ redis' = redis /\ InitialStock \in Nat
      /\ r \in Requests /\ Q(c) = Qty[r] /\ Q(c) \in Nat
  BY StepIsTyped DEF Crash
<1>2. step[c] \in Midway /\ step'[c] = "crashed" /\ UNCHANGED <<ledger, topic>>
  BY <1>1 DEF Crash, Goto, TypeOK
<1>3. Unclosed' \subseteq Unclosed
  BY <1>1, <1>2, ServingMoves DEF Unclosed
<1>4. c \in Ledgered => Standing \subseteq Standing'
  BY <1>1, <1>2, StandingMoves DEF Answers
<1>5. Mishap("no_entry", c) /\ <<"no_entry", c>> \notin mishaps =>
        Cost(LeakKinds) + Q(c) <= Cost(LeakKinds)'
  <2>1. "no_entry" \in LeakKinds
    BY DEF LeakKinds
  <2> QED BY <1>1, <2>1, LeakGrows DEF Mishap, Happened
<1>6. CASE step[c] = "deducted"
  <2>1. c \in Ledgered /\ <<"no_entry", c>> \notin mishaps /\ Mishap("no_entry", c)
    BY <1>6 DEF Crash, Orphaned, InOrder, EntryFirst, Past
  <2>2. Unwritten \subseteq Unwritten' \cup {c}
    BY <1>1, ServingMoves DEF Unwritten
  <2> QED BY <1>1, <1>3, <1>4, <1>5, <2>1, <2>2, TakenCounts, LeakGrows DEF TakenIsKnown
<1>7. CASE step[c] # "deducted"
  <2>1. Unwritten \subseteq Unwritten'
    BY <1>1, <1>7, ServingMoves DEF Unwritten
  <2>2. CASE Standing \subseteq Standing'
    BY <1>1, <1>3, <2>1, <2>2, TakenCounts, LeakGrows DEF TakenIsKnown
  <2>3. CASE ~ (Standing \subseteq Standing')
    <3>1. c \notin Ledgered /\ Answers(c)
      BY <1>1, <1>2, <1>4, <2>3, StandingMoves
    <3>2. Mishap("no_entry", c) /\ <<"no_entry", c>> \notin mishaps
      BY <1>7, <3>1 DEF Crash, Orphaned, Answers, InOrder, EntryFirst
    <3>3. Standing \subseteq Standing' \cup {r}
      BY <1>1, StandingMoves
    <3> QED BY <1>1, <1>3, <1>5, <2>1, <3>2, <3>3, TakenCounts, LeakGrows DEF TakenIsKnown
  <2> QED BY <2>2, <2>3
<1> QED BY <1>6, <1>7

LEMMA ConsumeKnown ==
    ASSUME IndInv, IndInv', InOrder, TakenIsKnown, NEW c \in Calls, Consume(c)
    PROVE  TakenIsKnown'
<1> DEFINE r == RequestOf[c]
<1>1. /\ TypeOK /\ TypeOK' /\ mishaps \subseteq mishaps'
      /\ redis \in Nat /\ redis' = redis /\ InitialStock \in Nat
      /\ r \in Requests /\ Q(c) = Qty[r] /\ Q(c) \in Nat
  BY StepIsTyped DEF Consume
<1>2. /\ UNCHANGED <<ledger, step>> /\ ordered \subseteq ordered'
      /\ \A d \in Calls : d # c => (d \in topic' <=> d \in topic)
  BY DEF Consume, PlaceRecord, db
<1>3. Unclosed' \subseteq Unclosed /\ Unwritten \subseteq Unwritten'
  BY <1>2 DEF Unclosed, Unwritten
<1>4. ASSUME NEW d \in Calls, d # c PROVE Answers(d) => Answers(d)'
  <2>1. \A k : <<k, d>> \in mishaps' => <<k, d>> \in mishaps
    BY <1>4 DEF Consume, DeadLettered, NoMishap, Mishap, Happened
  <2> QED BY <1>2, <1>4, <2>1 DEF Answers
<1>5. Standing \subseteq Standing' \cup {r}
  BY <1>2, <1>4 DEF Standing
<1>6. r \in ordered' \/ ~ Answers(c) => Standing \subseteq Standing'
  BY <1>1, <1>2, <1>4, <1>5 DEF Standing
<1>7. CASE r \in ordered' \/ ~ Answers(c)
  BY <1>1, <1>3, <1>6, <1>7, TakenCounts, LeakGrows DEF TakenIsKnown
<1>8. CASE r \notin ordered' /\ Answers(c)
  <2>1. /\ "no_entry" \in LeakKinds
        /\ <<"no_entry", c>> \in mishaps' /\ <<"no_entry", c>> \notin mishaps
    BY <1>2, <1>8 DEF Consume, PlaceRecord, DeadLettered, Mishap, Happened, Answers, LeakKinds
  <2>2. Cost(LeakKinds) + Q(c) <= Cost(LeakKinds)'
    BY <1>1, <2>1, LeakGrows
  <2> QED BY <1>1, <1>3, <1>5, <2>2, TakenCounts, LeakGrows DEF TakenIsKnown
<1> QED BY <1>7, <1>8

LEMMA GrowOldKnown ==
    ASSUME IndInv, IndInv', TakenIsKnown, NEW r \in Requests, GrowOld(r)
    PROVE  TakenIsKnown'
<1>1. /\ TypeOK /\ TypeOK' /\ mishaps \subseteq mishaps'
      /\ redis \in Nat /\ redis' = redis /\ InitialStock \in Nat
  BY MishapsGrow, LedgerAssumption DEF IndInv, TypeOK, GrowOld, Next, LedgerAssumption
<1>2. UNCHANGED <<ledger, step, topic, ordered>>
  BY DEF GrowOld, db
<1>3. Unclosed' \subseteq Unclosed /\ Unwritten \subseteq Unwritten'
  BY <1>2 DEF Unclosed, Unwritten
<1>4. \A d \in Calls : Answers(d) => Answers(d)'
  <2>1. \/ UNCHANGED mishaps
        \/ \E c \in InFlight(r) : mishaps' = mishaps \cup {<<"aged_in_flight", c>>}
    BY DEF GrowOld, NoMishap, Mishap, Happened
  <2> QED BY <1>2, <2>1 DEF Answers
<1>5. Standing \subseteq Standing'
  BY <1>2, <1>4 DEF Standing
<1> QED BY <1>1, <1>3, <1>5, TakenCounts, LeakGrows DEF TakenIsKnown

\* A settlement without a refund is for a request that has its order.
LEMMA ReconcilingKnown ==
    ASSUME IndInv, IndInv', InOrder, TakenIsKnown, NEW w \in Workers,
           Reconcile(w) \/ SettleError(w) \/ StopRound(w)
    PROVE  TakenIsKnown'
<1>1. /\ TypeOK /\ TypeOK' /\ mishaps \subseteq mishaps'
      /\ redis \in Nat /\ redis' \in Nat /\ InitialStock \in Nat
  BY MishapsGrow, LedgerAssumption DEF IndInv, TypeOK, Next, LedgerAssumption
<1>2. UNCHANGED <<step, topic, ordered, mishaps>>
  BY ReconcilingMoves
<1>3. Unclosed' \subseteq Unclosed /\ Unwritten \subseteq Unwritten'
  BY <1>2 DEF Unclosed, Unwritten
<1>4. \A d \in Calls : Answers(d) => Answers(d)'
  BY <1>2 DEF Answers
<1>5. CASE UNCHANGED <<ledger, redis>>
  <2>1. Standing \subseteq Standing'
    BY <1>2, <1>4, <1>5 DEF Standing
  <2> QED BY <1>1, <1>3, <1>5, <2>1, TakenCounts, LeakGrows DEF TakenIsKnown
<1>6. CASE \E e \in checked[w] : Settle(e.request, e.refund)
  <2>1. PICK e \in checked[w] : Settle(e.request, e.refund)
    BY <1>6
  <2>2. /\ e.request \in Requests /\ e.refund \in {0, Qty[e.request]} /\ e.refund \in Nat
        /\ e.refund = 0 => e.request \in ordered
    BY <1>1, VerdictIsSound
  <2>3. \A q \in Requests : q # e.request => ledger'[q] = ledger[q]
    BY <1>1, <2>1 DEF Settle, TypeOK
  <2>4. Standing \subseteq Standing' \cup {e.request}
    BY <1>2, <1>4, <2>3 DEF Standing
  <2>5. CASE redis' = redis
    <3>1. ledger' = ledger \/ e.request \in ordered
      BY <1>1, <2>1, <2>2, <2>5 DEF Settle
    <3>2. Standing \subseteq Standing'
      BY <1>2, <1>4, <2>4, <3>1 DEF Standing
    <3> QED BY <1>1, <1>3, <2>5, <3>2, TakenCounts, LeakGrows DEF TakenIsKnown
  <2>6. CASE redis' # redis
    <3>1. redis' = redis + Qty[e.request] /\ Qty[e.request] \in Nat
      BY <1>1, <2>1, <2>2, <2>6 DEF Settle
    <3> QED BY <1>1, <1>3, <2>2, <2>4, <3>1, TakenCounts, LeakGrows DEF TakenIsKnown
  <2> QED BY <2>5, <2>6
<1> QED BY <1>5, <1>6 DEF Reconcile, ScanLedger, CountOrders, SettleEntry, SettleError,
                          StopRound, flow

LEMMA InitKnown == Init => TakenIsKnown
<1> SUFFICES ASSUME Init PROVE TakenIsKnown
  OBVIOUS
<1>1. Unclosed = {} /\ Unwritten = {} /\ {x \in mishaps : x[1] \in LeakKinds} = {}
  BY DEF Init, Unclosed, Unwritten
<1>2. Standing = {}
  BY LedgerAssumption DEF Init, Standing, Answers, LedgerAssumption
<1>3. UnclosedUnits = 0 /\ UnwrittenUnits = 0 /\ StandingUnits = 0
  BY <1>1, <1>2, FS_EmptySet DEF UnclosedUnits, UnwrittenUnits, StandingUnits, Taken, Units
<1>4. Cost(LeakKinds) = 0
  BY <1>1, FS_EmptySet DEF Cost
<1>5. InitialStock \in Nat /\ redis = InitialStock
  BY LedgerAssumption DEF Init, LedgerAssumption
<1> QED BY <1>3, <1>4, <1>5 DEF TakenIsKnown

-------------------------------------------------------------------------------
LEMMA BooksStand ==
    ASSUME BookInv, UNCHANGED vars
    PROVE  BookInv'
<1>1. InOrder'
  BY DEF BookInv, InOrder, WorkIsOld, EntryFirst, Past, vars, flow, db, work
<1>2. /\ Promised' = Promised /\ Owed' = Owed /\ Carried' = Carried
      /\ Unclosed' = Unclosed /\ Unwritten' = Unwritten
      /\ redis' = redis /\ mishaps' = mishaps
  BY DEF Promised, Owed, InFlight, Carried, Unclosed, Unwritten, vars, flow, db, work
<1>3. Standing' = Standing
  BY DEF Standing, Answers, vars, flow, db, work
<1>4. Cost(ExcessKinds)' = Cost(ExcessKinds) /\ Cost(LeakKinds)' = Cost(LeakKinds)
  BY <1>2 DEF Cost
<1>5. OffersWhatIsLeft'
  BY <1>2, <1>4 DEF BookInv, OffersWhatIsLeft, PromisedUnits, OwedUnits, CarriedUnits
<1>6. TakenIsKnown'
  BY <1>2, <1>3, <1>4 DEF BookInv, TakenIsKnown, UnclosedUnits, UnwrittenUnits, StandingUnits
<1> QED BY <1>1, <1>5, <1>6 DEF BookInv

LEMMA BooksKept == ASSUME IndInv, IndInv', BookInv, [Next]_vars PROVE BookInv'
<1> USE DEF BookInv
<1>1. CASE UNCHANGED vars
  BY <1>1, BooksStand
<1>2. ASSUME NEW c \in Calls, Serve(c) \/ Crash(c) PROVE BookInv'
  <2>1. InOrder'
    BY <1>2, ServingKeepsOrder DEF IndInv
  <2>2. OffersWhatIsLeft'
    BY <1>2, PreDeductOffers, RecordOffers, ProduceOffers, RollbackOffers, CloseEntryOffers,
       CrashOffers DEF Serve
  <2>3. TakenIsKnown'
    BY <1>2, PreDeductKnown, RecordKnown, ProduceKnown, RollbackKnown, CloseEntryKnown,
       CrashKnown DEF Serve
  <2> QED BY <2>1, <2>2, <2>3
<1>3. ASSUME NEW c \in Calls, Consume(c) PROVE BookInv'
  BY <1>3, ConsumingKeepsOrder, ConsumeOffers, ConsumeKnown DEF IndInv
<1>4. ASSUME NEW r \in Requests, GrowOld(r) PROVE BookInv'
  BY <1>4, AgingKeepsOrder, GrowOldOffers, GrowOldKnown DEF IndInv
<1>5. ASSUME NEW w \in Workers, Reconcile(w) \/ SettleError(w) \/ StopRound(w) PROVE BookInv'
  <2>1. OffersWhatIsLeft'
    BY <1>5, ReadingOffers, SettlingOffers DEF Reconcile
  <2> QED BY <1>5, <2>1, ReconcilingKeepsOrder, ReconcilingKnown
<1> QED BY <1>1, <1>2, <1>3, <1>4, <1>5 DEF Next

\* The books of every reachable state are in order, whatever fails where.
THEOREM BooksBalance == Spec => []BookInv
<1>1. Init => BookInv
  BY InitOrder, InitOffers, InitKnown DEF BookInv
<1>2. IndInv /\ IndInv' /\ BookInv /\ [Next]_vars => BookInv'
  BY BooksKept
<1> QED BY <1>1, <1>2, Invariance, PTL DEF Spec

\* Stock is given back only if it is not going to be ordered: what Redis offers and
\* what orders and records in Kafka stand for fit in the stock there was, but for the
\* mishaps, each at most the quantity of its call.
THEOREM NothingOfferedTwice == Spec => []OffersOnlyUnpromised
<1>1. IndInv /\ BookInv => OffersOnlyUnpromised
  <2> SUFFICES ASSUME IndInv, BookInv PROVE OffersOnlyUnpromised
    OBVIOUS
  <2>1. Owed \in SUBSET Requests /\ Carried \in SUBSET Calls /\ Promised \in SUBSET Requests
    BY QuantitiesAreTyped DEF Owed, Carried, Promised, IndInv, TypeOK
  <2>2. PromisedUnits \in Nat /\ OwedUnits \in Nat /\ CarriedUnits \in Nat
    BY <2>1, RequestUnits, CallUnits DEF PromisedUnits, OwedUnits, CarriedUnits
  <2>3. redis \in Nat /\ InitialStock \in Nat
    BY LedgerAssumption DEF IndInv, TypeOK, LedgerAssumption
  <2>4. Cost(ExcessKinds) \in Nat
    BY CostIsTyped DEF IndInv, ExcessKinds
  <2> QED BY <2>2, <2>3, <2>4 DEF BookInv, OffersWhatIsLeft, OffersOnlyUnpromised, PromisedUnits
<1> QED BY <1>1, Invariance, BooksBalance, PTL

\* Once everything has come to rest, CheckIdentity finds what was taken from Redis to be
\* what was ordered (model.go:171), but for the cost of the mishaps.
THEOREM IdentityAtRest == Spec => []QuietIdentity
<1>1. IndInv /\ BookInv => QuietIdentity
  <2> SUFFICES ASSUME IndInv, BookInv, Quiet PROVE Leaked \in (-Cost(ExcessKinds))..Cost(LeakKinds)
    BY DEF QuietIdentity
  <2>1. Promised = ordered /\ Standing = ordered
    BY DEF Quiet, Promised, Standing, Answers, Midway, IndInv, TypeOK
  <2>2. Unclosed = {} /\ Unwritten = {}
    BY DEF Quiet, Unclosed, Unwritten, Midway
  <2>3. Owed \in SUBSET Requests /\ Carried \in SUBSET Calls /\ ordered \in SUBSET Requests
    BY DEF Owed, Carried, IndInv, TypeOK
  <2>4. /\ Cardinality(Units(ordered)) \in Nat /\ OwedUnits \in Nat /\ CarriedUnits \in Nat
        /\ Cost(ExcessKinds) \in Nat /\ Cost(LeakKinds) \in Nat
    BY <2>3, RequestUnits, CallUnits, CostIsTyped DEF OwedUnits, CarriedUnits, IndInv
  <2>5. UnclosedUnits = 0 /\ UnwrittenUnits = 0
    BY <2>2, FS_EmptySet DEF UnclosedUnits, UnwrittenUnits, Taken
  <2>6. redis \in Nat /\ InitialStock \in Nat
    BY LedgerAssumption DEF IndInv, TypeOK, LedgerAssumption
  <2>7. redis + Cardinality(Units(ordered)) <= InitialStock + Cost(ExcessKinds)
    BY <2>1, <2>4, <2>6 DEF BookInv, OffersWhatIsLeft, PromisedUnits
  <2>8. InitialStock - redis <= Cardinality(Units(ordered)) + Cost(LeakKinds)
    BY <2>1, <2>4, <2>5, <2>6 DEF BookInv, TakenIsKnown, StandingUnits
  <2> QED BY <2>4, <2>6, <2>7, <2>8 DEF Leaked
<1> QED BY <1>1, Invariance, BooksBalance, PTL
===============================================================================
