-------------------------- MODULE ReservedOrderProofs --------------------------
(***************************************************************************)
(* What the three processes of the asynchronous order tell the client is   *)
(* true, what they accepted stays reserved, and the stock is short by      *)
(* exactly the reservations that stand, for every number of calls,         *)
(* requests and products, whatever is lost on the way.                     *)
(***************************************************************************)
EXTENDS ReservedOrder, UnitCounting, TLAPS

\* What makes the two properties inductive: a call that got past Reserve finds its
\* reservation standing, unless another call of its request has restored it.
Standing(c) == AlreadyReserved(c) \/ \E d \in SameRequest(c) : step[d] = "restored"

IndInv ==
    /\ step \in [Calls -> {"start", "reserved", "undelivered", "accepted", "refused",
                           "restored", "stranded", "crashed", "rejected"}]
    /\ DOMAIN reservation = Requests
    /\ DOMAIN answer = Calls /\ DOMAIN verdict = Calls
    /\ AnswerIsTrue
    /\ \A c \in Calls : step[c] \in {"reserved", "undelivered", "accepted"} => Standing(c)

-------------------------------------------------------------------------------
\* Of all the errors that can reach the gateway, only a refusal by Reserve for want of
\* stock becomes a 409: no error of Restore looks like one on the second hop.
LEMMA OnlyStockIsConflict ==
    /\ \A e \in Errors : HTTPStatus(OrderError(OrderCode({InventoryError(InventoryCode(e))}))) = 409
                            => e = "insufficient"
    /\ \A e \in {"canceled", "other"}, f \in Errors \cup {"ok"} :
          HTTPStatus(OrderError(OrderCode({e, InventoryError(RestoreCode(f))}))) # 409
    /\ \A joined : HTTPStatus(OrderError(OrderCode(joined))) # 202
  BY DEF Errors, HTTPStatus, OrderError, OrderCode, InventoryError, InventoryCode, RestoreCode

LEMMA InitEstablishes == Init => IndInv
  BY ReservedAssumption
  DEF Init, IndInv, AnswerIsTrue, ReservedAssumption

\* A step of one call leaves the others at their places.
LEMMA OthersStand ==
    ASSUME IndInv, NEW c \in Calls, NEW s, Goto(c, s),
           step[c] # "restored",
           \A r \in Requests : reservation[r].state = "reserved"
               => \/ reservation'[r].state = "reserved"
                  \/ r = Args[c].request /\ s = "restored",
           NEW d \in Calls, d # c, step'[d] \in {"reserved", "undelivered", "accepted"}
    PROVE  Standing(d)'
<1>1. step' = [step EXCEPT ![c] = s] /\ step'[d] = step[d]
  BY DEF Goto, IndInv
<1>2. CASE \E b \in SameRequest(d) : step[b] = "restored"
  BY <1>1, <1>2 DEF IndInv, Standing, SameRequest
<1>3. CASE AlreadyReserved(d)
  <2>1. Args[d].request \in Requests
    BY ReservedAssumption DEF ReservedAssumption
  <2>2. CASE Args[d].request = Args[c].request /\ s = "restored"
    <3>1. c \in SameRequest(d)' /\ step'[c] = "restored"
      BY <1>1, <2>2 DEF IndInv, SameRequest
    <3> QED BY <3>1 DEF Standing
  <2> QED BY <1>3, <2>1, <2>2 DEF AlreadyReserved, Booked, Standing
<1> QED BY <1>1, <1>2, <1>3 DEF IndInv, Standing

\* The arguments of a call are what the assumption says.
LEMMA ArgsAreTyped ==
    ASSUME NEW c \in Calls
    PROVE  Args[c].request \in Requests
  BY ReservedAssumption DEF ReservedAssumption

LEMMA ReserveKeeps == ASSUME IndInv, NEW c \in Calls, Reserve(c) PROVE IndInv'
<1>1. step[c] = "start" /\ topic' = topic
  BY DEF Reserve
<1>2. \/ Goto(c, "reserved") /\ Reserves(c) /\ UNCHANGED <<verdict, answer>>
      \/ \E e \in Errors : Refuse(c, e)
  BY DEF Reserve, ReserveError, Errors
<1>3. \A r \in Requests : reservation[r].state = "reserved" => reservation'[r].state = "reserved"
  <2>1. UNCHANGED reservation \/ Book(c, "reserved")
    BY DEF Reserve, Reserves, ReserveFresh
  <2> QED BY <2>1, ArgsAreTyped DEF Book, IndInv
<1>4. DOMAIN reservation' = Requests
  BY DEF Reserve, Reserves, ReserveFresh, Book, IndInv
<1>5. PICK s \in {"reserved", "refused"} : Goto(c, s)
  BY <1>2 DEF Refuse
<1>6. \A d \in Calls : step'[d] \in {"reserved", "undelivered", "accepted"} => Standing(d)'
  <2>1. CASE Goto(c, "reserved") /\ Reserves(c)
    <3>1. AlreadyReserved(c)'
      BY <2>1, ArgsAreTyped DEF Reserves, ReserveFresh, AlreadyReserved, Booked, Book, IndInv
    <3> QED BY <1>1, <1>3, <2>1, <3>1, OthersStand DEF Standing
  <2>2. CASE Goto(c, "refused")
    BY <1>1, <1>3, <2>2, OthersStand DEF Goto, IndInv
  <2> QED BY <1>2, <2>1, <2>2 DEF Refuse
<1>7. AnswerIsTrue' /\ DOMAIN answer' = Calls /\ DOMAIN verdict' = Calls
  <2>1. CASE UNCHANGED <<verdict, answer>>
    BY <1>1, <2>1 DEF IndInv, AnswerIsTrue
  <2>2. ASSUME NEW e \in Errors, Refuse(c, e) PROVE AnswerIsTrue'
    <3> DEFINE told == HTTPStatus(OrderError(OrderCode({InventoryError(InventoryCode(e))})))
    <3>1. told # 202 /\ (told = 409 => e = "insufficient")
      BY OnlyStockIsConflict
    <3>2. verdict' = [verdict EXCEPT ![c] = e]
          /\ (answer' = [answer EXCEPT ![c] = told] \/ answer' = [answer EXCEPT ![c] = 503])
      BY <2>2 DEF Refuse, Fail, Answer
    <3> QED BY <1>1, <3>1, <3>2 DEF IndInv, AnswerIsTrue
  <2> QED BY <1>2, <2>1, <2>2 DEF Refuse, Fail, Answer, IndInv
<1> QED BY <1>4, <1>5, <1>6, <1>7 DEF IndInv, Goto

LEMMA ProduceKeeps == ASSUME IndInv, NEW c \in Calls, Produce(c) PROVE IndInv'
<1>1. /\ step[c] = "reserved" /\ UNCHANGED <<reservation, verdict>>
      /\ topic \subseteq topic'
      /\ \E s \in {"accepted", "undelivered"} : Goto(c, s)
  BY DEF Produce
<1>2. AnswerIsTrue' /\ DOMAIN answer' = Calls
  BY DEF Produce, Answer, IndInv, AnswerIsTrue
<1>3. \A d \in Calls : step'[d] \in {"reserved", "undelivered", "accepted"} => Standing(d)'
  <2>1. Standing(c)'
    BY <1>1 DEF IndInv, Standing, AlreadyReserved, Booked, SameRequest, Goto
  <2> QED BY <1>1, <2>1, OthersStand
<1> QED BY <1>1, <1>2, <1>3 DEF IndInv, Goto

LEMMA RestoreKeeps == ASSUME IndInv, NEW c \in Calls, Restore(c) PROVE IndInv'
<1>1. PICK e \in {"canceled", "other"}, f \in Errors \cup {"ok"} :
          Fail(c, e, {e, InventoryError(RestoreCode(f))})
  BY DEF Restore, RestoreError, Errors
<1>2. /\ step[c] = "undelivered" /\ topic' = topic
      /\ \/ Goto(c, "restored") /\ Restores(c)
         \/ Goto(c, "stranded") /\ UNCHANGED reservation
  BY DEF Restore
<1>3. AnswerIsTrue' /\ DOMAIN answer' = Calls /\ DOMAIN verdict' = Calls
  <2> DEFINE told == HTTPStatus(OrderError(OrderCode({e, InventoryError(RestoreCode(f))})))
  <2>1. told # 202 /\ told # 409
    BY OnlyStockIsConflict
  <2>2. verdict' = [verdict EXCEPT ![c] = e]
        /\ (answer' = [answer EXCEPT ![c] = told] \/ answer' = [answer EXCEPT ![c] = 503])
    BY <1>1 DEF Fail, Answer
  <2> QED BY <1>2, <2>1, <2>2 DEF IndInv, AnswerIsTrue
<1>4. \A d \in Calls : step'[d] \in {"reserved", "undelivered", "accepted"} => Standing(d)'
  <2>1. CASE Goto(c, "restored") /\ Restores(c)
    <3>1. \A r \in Requests : reservation[r].state = "reserved"
              => reservation'[r].state = "reserved" \/ r = Args[c].request
      BY <2>1 DEF Restores, Book, IndInv
    <3> QED BY <1>2, <2>1, <3>1, OthersStand DEF Goto, IndInv
  <2>2. CASE Goto(c, "stranded") /\ UNCHANGED reservation
    BY <1>2, <2>2, OthersStand DEF Goto, IndInv
  <2> QED BY <1>2, <2>1, <2>2
<1>5. DOMAIN reservation' = Requests
  BY <1>2 DEF Restores, Book, IndInv
<1> QED BY <1>2, <1>3, <1>4, <1>5 DEF IndInv, Goto

\* A rejected call was never begun, and what a call that dies leaves is no answer.
LEMMA OtherStepsKeep == ASSUME IndInv, NEW c \in Calls, Reject(c) \/ Crash(c) PROVE IndInv'
<1>1. /\ step[c] \in {"start", "reserved", "undelivered"}
      /\ UNCHANGED <<reservation, topic, verdict>>
      /\ \E code \in {400, 500, 503} : answer' = [answer EXCEPT ![c] = code]
  BY DEF Reject, Crash
<1>2. PICK s \in {"rejected", "crashed"} : Goto(c, s)
  BY DEF Reject, Crash
<1>3. AnswerIsTrue' /\ DOMAIN answer' = Calls
  BY <1>1 DEF IndInv, AnswerIsTrue
<1>4. ASSUME NEW d \in Calls, step'[d] \in {"reserved", "undelivered", "accepted"}
      PROVE  Standing(d)'
  <2>1. d # c
    BY <1>2, <1>4 DEF Goto, IndInv
  <2>2. /\ step[c] # "restored"
        /\ \A r \in Requests : reservation[r].state = "reserved"
                                 => reservation'[r].state = "reserved"
    BY <1>1
  <2> QED BY <1>2, <1>4, <2>1, <2>2, OthersStand
<1> QED BY <1>1, <1>2, <1>3, <1>4 DEF IndInv, Goto

-------------------------------------------------------------------------------
\* Every reachable state satisfies the inductive invariant.
THEOREM Invariance == Spec => []IndInv
<1>1. IndInv /\ [Next]_vars => IndInv'
  <2> SUFFICES ASSUME IndInv, [Next]_vars PROVE IndInv'
    OBVIOUS
  <2>1. CASE UNCHANGED vars
    BY <2>1 DEF vars, IndInv, AnswerIsTrue, Standing, AlreadyReserved, Booked, SameRequest
  <2> QED BY <2>1, ReserveKeeps, ProduceKeeps, RestoreKeeps, OtherStepsKeep DEF Next
<1> QED BY <1>1, InitEstablishes, PTL DEF Spec

\* No client is told of an order that nobody will write, or of a sold-out product that
\* was not: of all the errors of two scripts, a produce and two RPC hops, joined or not,
\* only a refusal by Reserve becomes a 409 (grpcserver/server.go:30-31).
THEOREM AnswersAreTrue == Spec => []AnswerIsTrue
<1>1. IndInv => AnswerIsTrue
  BY DEF IndInv
<1> QED BY <1>1, Invariance, PTL

\* The reservation behind an accepted record stands, whatever other calls lose, unless
\* one of the same request compensated (asyncorder/service.go:32-36).
THEOREM AcceptedKeepsStock == Spec => []AcceptedStaysReserved
<1>1. IndInv => AcceptedStaysReserved
  BY DEF IndInv, Standing, AcceptedStaysReserved
<1> QED BY <1>1, Invariance, PTL

-------------------------------------------------------------------------------
(***************************************************************************)
(* The books of the inventory service.  A call that is past Reserve finds  *)
(* its terms booked, so that its Restore is never refused for a conflict,  *)
(* and what is booked can be counted.                                      *)
(***************************************************************************)
TermsAreBooked ==
    \A c \in Calls : step[c] \in {"reserved", "undelivered"} =>
        Booked(c).state \in {"reserved", "restored"} /\ Booked(c).terms = Terms(c)

QuantitiesFit ==
    \A r \in Requests : reservation[r].state = "reserved" =>
        /\ reservation[r].terms.product \in Products
        /\ reservation[r].terms.quantity \in 1..InitialStock[reservation[r].terms.product]

Books == /\ QuantitiesFit
         /\ \A p \in Products : IsFiniteSet(UnitsReserved(p))
         /\ StockMatchesReservations

BookInv == TypeOK /\ TermsAreBooked /\ ReservationsHaveOwners /\ Books

-------------------------------------------------------------------------------
LEMMA TermsAreTyped ==
    ASSUME NEW c \in Calls
    PROVE  /\ Args[c].request \in Requests /\ Args[c].product \in Products
           /\ Terms(c).product = Args[c].product /\ Terms(c).quantity = Quantity(c)
           /\ Quantity(c) \in Int
           /\ InitialStock[Args[c].product] \in Nat
<1>1. /\ Args[c] \in [request : Requests, product : Products, quantity : Int]
      /\ InitialStock \in [Products -> Nat]
  BY ReservedAssumption DEF ReservedAssumption
<1> QED BY ONLY <1>1 DEF Terms, Quantity

\* The units of one reservation.
Charge(r, q) == {r} \X (1..q)

LEMMA ChargeCounts ==
    ASSUME NEW r, NEW q \in Nat
    PROVE  IsFiniteSet(Charge(r, q)) /\ Cardinality(Charge(r, q)) = q
  BY CellsOfOne DEF Charge

\* A charge that is put on a set that has nothing of it counts in full.
LEMMA ChargeAdds ==
    ASSUME NEW S, IsFiniteSet(S), NEW r, NEW q \in Nat, S \cap Charge(r, q) = {}
    PROVE  /\ IsFiniteSet(S \cup Charge(r, q))
           /\ Cardinality(S \cup Charge(r, q)) = Cardinality(S) + q
<1>1. /\ IsFiniteSet(S \cup Charge(r, q))
      /\ Cardinality(S \cup Charge(r, q)) =
           Cardinality(S) + Cardinality(Charge(r, q)) - Cardinality(S \cap Charge(r, q))
  BY ChargeCounts, FS_Union
<1>2. Cardinality(S \cap Charge(r, q)) = 0
  BY FS_EmptySet
<1>3. Cardinality(S) \in Nat
  BY FS_CardinalityType
<1> QED BY <1>1, <1>2, <1>3, ChargeCounts

LEMMA UnitsAreNone ==
    ASSUME \A r \in Requests : reservation[r].state = "none", NEW p \in Products
    PROVE  UnitsReserved(p) = {}
  BY DEF UnitsReserved

LEMMA InitBooks == Init => BookInv
<1> SUFFICES ASSUME Init PROVE BookInv
  OBVIOUS
<1>1. \A r \in Requests : reservation[r].state = "none"
  BY DEF Init, Nothing
<1>2. \A p \in Products : IsFiniteSet(UnitsReserved(p)) /\ Cardinality(UnitsReserved(p)) = 0
  BY <1>1, UnitsAreNone, FS_EmptySet
<1>3. \A p \in Products : InitialStock[p] \in Nat
  BY ReservedAssumption DEF ReservedAssumption
<1>4. Books
  BY <1>1, <1>2, <1>3 DEF Init, Books, QuantitiesFit, StockMatchesReservations
<1>5. TermsAreBooked
  BY DEF Init, TermsAreBooked
<1>6. ReservationsHaveOwners
  BY <1>1, TermsAreTyped DEF ReservationsHaveOwners, AlreadyReserved, Booked
<1>7. TypeOK
  BY ReservedAssumption DEF Init, TypeOK, Bookings, ReservedAssumption
<1> QED BY <1>4, <1>5, <1>6, <1>7 DEF BookInv

-------------------------------------------------------------------------------
\* Reserve: the units of the call are new in the books, and gone from the stock.
LEMMA FreshKeepsBooks ==
    ASSUME TypeOK, Books, NEW c \in Calls, Valid(c), ReserveFresh(c)
    PROVE  Books'
<1> DEFINE r == Args[c].request  x == Args[c].product  q == Quantity(c)
<1>1. /\ r \in Requests /\ x \in Products /\ q \in Nat /\ q > 0
      /\ InitialStock[x] \in Nat
  BY TermsAreTyped DEF Valid
<1>2. /\ reservation[r].state # "reserved"
      /\ stock[x] >= q /\ stock \in [Products -> Nat]
      /\ stock' = [stock EXCEPT ![x] = @ + (- q)]
      /\ reservation' = [reservation EXCEPT ![r] = [state |-> "reserved", terms |-> Terms(c)]]
  BY DEF ReserveFresh, AlreadyReserved, Booked, Move, Book, TypeOK
<1>3. /\ reservation'[r].state = "reserved"
      /\ reservation'[r].terms.product = x /\ reservation'[r].terms.quantity = q
      /\ \A s \in Requests : s # r => reservation'[s] = reservation[s]
  BY <1>1, <1>2, TermsAreTyped DEF TypeOK
<1>4. Cardinality(UnitsReserved(x)) \in Nat /\ stock[x] + Cardinality(UnitsReserved(x)) = InitialStock[x]
  BY <1>1, FS_CardinalityType DEF Books, StockMatchesReservations
<1>5. q <= InitialStock[x]
  BY <1>1, <1>2, <1>4
<1>6. QuantitiesFit'
  BY <1>1, <1>3, <1>5 DEF Books, QuantitiesFit
<1>7. ASSUME NEW p \in Products, p # x
      PROVE  UnitsReserved(p)' = UnitsReserved(p) /\ stock'[p] = stock[p]
  <2>1. UnitsReserved(p)' = UnitsReserved(p)
    BY <1>2, <1>3, <1>7 DEF UnitsReserved
  <2> QED BY <1>2, <1>7, <2>1
<1>8. UnitsReserved(x)' = UnitsReserved(x) \cup Charge(r, q)
  BY <1>1, <1>2, <1>3, <1>5 DEF UnitsReserved, Charge
<1>9. UnitsReserved(x) \cap Charge(r, q) = {}
  BY <1>2 DEF UnitsReserved, Charge
<1>10. /\ IsFiniteSet(UnitsReserved(x)')
       /\ Cardinality(UnitsReserved(x)') = Cardinality(UnitsReserved(x)) + q
  BY <1>1, <1>8, <1>9, ChargeAdds DEF Books
<1>11. stock'[x] = stock[x] - q
  BY <1>1, <1>2
<1>12. \A p \in Products : /\ IsFiniteSet(UnitsReserved(p)')
                           /\ stock'[p] + Cardinality(UnitsReserved(p)') = InitialStock[p]
  <2> SUFFICES ASSUME NEW p \in Products
               PROVE  /\ IsFiniteSet(UnitsReserved(p)')
                      /\ stock'[p] + Cardinality(UnitsReserved(p)') = InitialStock[p]
    OBVIOUS
  <2>1. CASE p = x
    BY <1>1, <1>2, <1>4, <1>10, <1>11, <2>1
  <2>2. CASE p # x
    BY <1>7, <2>2 DEF Books, StockMatchesReservations
  <2> QED BY <2>1, <2>2
<1> QED BY <1>6, <1>12 DEF Books, StockMatchesReservations

\* Restore: the units of the reservation leave the books, and are back in the stock.
LEMMA RestoringKeepsBooks ==
    ASSUME TypeOK, Books, NEW c \in Calls, AlreadyReserved(c), SameTerms(c),
           Move(c, Quantity(c)), Book(c, "restored")
    PROVE  Books' /\ Quantity(c) \in Nat
<1> DEFINE r == Args[c].request  x == Args[c].product  q == Quantity(c)
<1>1. /\ r \in Requests /\ x \in Products /\ q \in Int
      /\ InitialStock[x] \in Nat
  BY TermsAreTyped
<1>2. /\ reservation[r].state = "reserved"
      /\ reservation[r].terms.product = x /\ reservation[r].terms.quantity = q
      /\ stock \in [Products -> Nat]
      /\ stock' = [stock EXCEPT ![x] = @ + q]
      /\ reservation' = [reservation EXCEPT ![r] = [state |-> "restored", terms |-> Terms(c)]]
  BY TermsAreTyped DEF AlreadyReserved, SameTerms, Booked, Move, Book, TypeOK
<1>3. /\ reservation'[r].state = "restored"
      /\ \A s \in Requests : s # r => reservation'[s] = reservation[s]
  BY <1>1, <1>2 DEF TypeOK
<1>4. q \in 1..InitialStock[x]
  BY <1>1, <1>2 DEF Books, QuantitiesFit
<1>5. QuantitiesFit'
  BY <1>3 DEF Books, QuantitiesFit
<1>6. ASSUME NEW p \in Products, p # x
      PROVE  UnitsReserved(p)' = UnitsReserved(p) /\ stock'[p] = stock[p]
  <2>1. UnitsReserved(p)' = UnitsReserved(p)
    BY <1>2, <1>3, <1>6 DEF UnitsReserved
  <2> QED BY <1>2, <1>6, <2>1
<1>7. UnitsReserved(x) = UnitsReserved(x)' \cup Charge(r, q)
  BY <1>1, <1>2, <1>3, <1>4 DEF UnitsReserved, Charge
<1>8. UnitsReserved(x)' \cap Charge(r, q) = {}
  BY <1>3 DEF UnitsReserved, Charge
<1>9. IsFiniteSet(UnitsReserved(x)')
  BY <1>1, <1>7, FS_Subset DEF Books
<1>10. /\ Cardinality(UnitsReserved(x)) = Cardinality(UnitsReserved(x)') + q
       /\ Cardinality(UnitsReserved(x)') \in Nat
  BY <1>4, <1>7, <1>8, <1>9, ChargeAdds, FS_CardinalityType
<1>11. stock'[x] = stock[x] + q /\ stock[x] \in Nat
  BY <1>1, <1>2
<1>12. \A p \in Products : /\ IsFiniteSet(UnitsReserved(p)')
                           /\ stock'[p] + Cardinality(UnitsReserved(p)') = InitialStock[p]
  <2> SUFFICES ASSUME NEW p \in Products
               PROVE  /\ IsFiniteSet(UnitsReserved(p)')
                      /\ stock'[p] + Cardinality(UnitsReserved(p)') = InitialStock[p]
    OBVIOUS
  <2>1. CASE p = x
    <3>1. stock[x] + Cardinality(UnitsReserved(x)) = InitialStock[x]
      BY <1>1 DEF Books, StockMatchesReservations
    <3> QED BY <1>1, <1>4, <1>9, <1>10, <1>11, <2>1, <3>1
  <2>2. CASE p # x
    BY <1>6, <2>2 DEF Books, StockMatchesReservations
  <2> QED BY <2>1, <2>2
<1> QED BY <1>4, <1>5, <1>12 DEF Books, StockMatchesReservations

LEMMA BooksStand ==
    ASSUME Books, UNCHANGED <<stock, reservation>>
    PROVE  Books'
  BY DEF Books, QuantitiesFit, StockMatchesReservations, UnitsReserved

-------------------------------------------------------------------------------
(***************************************************************************)
(* What a step of one call leaves standing for the others.                 *)
(***************************************************************************)

\* A script books nothing but its own call's terms, which are those that were there.
Rebooks(c) ==
    \A r \in Requests :
        \/ reservation'[r] = reservation[r]
        \/ /\ r = Args[c].request /\ SameTerms(c)
           /\ reservation'[r].state \in {"reserved", "restored"}
           /\ reservation'[r].terms = Terms(c)

LEMMA TermsStand ==
    ASSUME TypeOK, TermsAreBooked, NEW c \in Calls, NEW s, Goto(c, s), Rebooks(c),
           s \in {"reserved", "undelivered"} =>
               Booked(c)'.state \in {"reserved", "restored"} /\ Booked(c)'.terms = Terms(c)
    PROVE  TermsAreBooked'
<1> SUFFICES ASSUME NEW d \in Calls, step'[d] \in {"reserved", "undelivered"}
             PROVE  Booked(d)'.state \in {"reserved", "restored"} /\ Booked(d)'.terms = Terms(d)
  BY DEF TermsAreBooked, Terms, Quantity
<1>1. CASE d = c
  BY <1>1 DEF Goto, TypeOK
<1>2. CASE d # c
  <2>1. /\ Booked(d).state \in {"reserved", "restored"} /\ Booked(d).terms = Terms(d)
        /\ Args[d].request \in Requests
    BY <1>2, TermsAreTyped DEF Goto, TypeOK, TermsAreBooked
  <2>2. CASE reservation'[Args[d].request] = reservation[Args[d].request]
    BY <2>1, <2>2 DEF Booked
  <2>3. CASE /\ Args[d].request = Args[c].request /\ SameTerms(c)
             /\ reservation'[Args[d].request].state \in {"reserved", "restored"}
             /\ reservation'[Args[d].request].terms = Terms(c)
    BY <2>1, <2>3 DEF Booked, SameTerms
  <2> QED BY <2>1, <2>2, <2>3 DEF Rebooks
<1> QED BY <1>1, <1>2

\* The calls that account for a reservation that stands.
Owner(d) == \/ step[d] \in {"reserved", "undelivered", "stranded", "crashed"}
            \/ d \in topic
            \/ verdict[d] \in {"canceled", "other"} /\ step[d] = "refused"

LEMMA OwnersStand ==
    ASSUME TypeOK, ReservationsHaveOwners, NEW c \in Calls, NEW s, Goto(c, s), Rebooks(c),
           topic \subseteq topic',
           \A d \in Calls : d # c => verdict'[d] = verdict[d],
           \/ Owner(c)' \/ ~AlreadyReserved(c)'
           \/ ~Owner(c) /\ AlreadyReserved(c)
    PROVE  ReservationsHaveOwners'
<1> SUFFICES ASSUME NEW d \in Calls, AlreadyReserved(d)'
             PROVE  \E e \in SameRequest(d) : Owner(e)'
  BY DEF ReservationsHaveOwners, Owner, SameRequest
<1>1. ASSUME NEW e \in SameRequest(d), Owner(e), e # c PROVE Owner(e)'
  BY <1>1 DEF Owner, SameRequest, Goto, TypeOK
<1>2. CASE Args[d].request = Args[c].request
  <2>1. CASE Owner(c)'
    BY <1>2, <2>1 DEF SameRequest
  <2>2. CASE ~AlreadyReserved(c)'
    BY <1>2, <2>2 DEF AlreadyReserved, Booked
  <2>3. CASE ~Owner(c) /\ AlreadyReserved(c)
    <3>1. PICK e \in SameRequest(c) : Owner(e)
      BY <2>3 DEF ReservationsHaveOwners, Owner
    <3> QED BY <1>1, <1>2, <2>3, <3>1 DEF SameRequest
  <2> QED BY <2>1, <2>2, <2>3
<1>3. CASE Args[d].request # Args[c].request
  <2>1. AlreadyReserved(d)
    BY <1>3, TermsAreTyped DEF Rebooks, AlreadyReserved, Booked
  <2>2. PICK e \in SameRequest(d) : Owner(e)
    BY <2>1 DEF ReservationsHaveOwners, Owner
  <2> QED BY <1>1, <1>3, <2>2 DEF SameRequest
<1> QED BY <1>2, <1>3

\* What both scripts leave in the reservations.
LEMMA BookIsTyped ==
    ASSUME TypeOK, NEW c \in Calls, NEW s \in {"reserved", "restored"}, Book(c, s), SameTerms(c)
    PROVE  /\ reservation' \in [Requests -> Bookings]
           /\ Rebooks(c)
           /\ Booked(c)'.state = s /\ Booked(c)'.terms = Terms(c)
<1>1. Args[c].request \in Requests /\ [state |-> s, terms |-> Terms(c)] \in Bookings
  BY TermsAreTyped DEF Bookings
<1> QED BY <1>1 DEF TypeOK, Book, Booked, Rebooks

LEMMA ReservesKeeps ==
    ASSUME TypeOK, Books, NEW c \in Calls, Reserves(c)
    PROVE  /\ stock' \in [Products -> Nat] /\ reservation' \in [Requests -> Bookings]
           /\ Rebooks(c) /\ Books'
           /\ Booked(c)'.state = "reserved" /\ Booked(c)'.terms = Terms(c)
<1>1. CASE AlreadyReserved(c) /\ UNCHANGED <<stock, reservation>>
  BY <1>1, BooksStand DEF Reserves, TypeOK, Rebooks, AlreadyReserved, SameTerms, Booked
<1>2. CASE ReserveFresh(c)
  <2>1. stock' \in [Products -> Nat]
    BY <1>2, TermsAreTyped DEF Reserves, Valid, ReserveFresh, Move, TypeOK
  <2> QED BY <1>2, <2>1, BookIsTyped, FreshKeepsBooks DEF Reserves, ReserveFresh
<1> QED BY <1>1, <1>2 DEF Reserves

LEMMA RestoresKeeps ==
    ASSUME TypeOK, Books, NEW c \in Calls, Restores(c), SameTerms(c)
    PROVE  /\ stock' \in [Products -> Nat] /\ reservation' \in [Requests -> Bookings]
           /\ Rebooks(c) /\ Books' /\ ~AlreadyReserved(c)'
<1>1. CASE ~AlreadyReserved(c)
  BY <1>1, BooksStand DEF Restores, TypeOK, Rebooks, AlreadyReserved, Booked
<1>2. CASE AlreadyReserved(c)
  <2>1. Move(c, Quantity(c)) /\ Book(c, "restored")
    BY <1>2 DEF Restores
  <2>2. Books' /\ Quantity(c) \in Nat
    BY <1>2, <2>1, RestoringKeepsBooks
  <2>3. stock' \in [Products -> Nat]
    BY <2>1, <2>2, TermsAreTyped DEF Move, TypeOK
  <2>4. /\ reservation' \in [Requests -> Bookings] /\ Rebooks(c)
        /\ Booked(c)'.state = "restored"
    BY <2>1, BookIsTyped
  <2> QED BY <2>2, <2>3, <2>4 DEF AlreadyReserved
<1> QED BY <1>1, <1>2

\* The places a call can be at, and the answers there are.
LEMMA RefusalIsTyped ==
    ASSUME TypeOK, NEW c \in Calls, NEW e \in Errors, NEW joined, Fail(c, e, joined)
    PROVE  /\ verdict' \in [Calls -> Errors \cup {"none"}]
           /\ answer' \in [Calls -> {0, 202, 400, 409, 500, 503}]
           /\ verdict'[c] = e /\ \A d \in Calls : d # c => verdict'[d] = verdict[d]
  BY DEF TypeOK, Fail, Answer, HTTPStatus

-------------------------------------------------------------------------------
LEMMA ReserveKeepsBooks == ASSUME BookInv, NEW c \in Calls, Reserve(c) PROVE BookInv'
<1> USE DEF BookInv
<1>1. step[c] = "start" /\ topic' = topic
  BY DEF Reserve
<1>2. CASE Reserves(c) /\ Goto(c, "reserved") /\ UNCHANGED <<verdict, answer>>
  <2>1. TypeOK'
    BY <1>1, <1>2, ReservesKeeps DEF TypeOK, Goto
  <2>2. Owner(c)'
    BY <1>2 DEF Owner, Goto, TypeOK
  <2>3. TermsAreBooked'
    BY <1>2, ReservesKeeps, TermsStand
  <2>4. ReservationsHaveOwners'
    BY <1>1, <1>2, <2>2, ReservesKeeps, OwnersStand
  <2> QED BY <1>2, <2>1, <2>3, <2>4, ReservesKeeps
<1>3. ASSUME NEW e \in Errors, Refuse(c, e),
             \/ UNCHANGED <<stock, reservation>>
             \/ Reserves(c) /\ e \in {"canceled", "other"}
      PROVE  BookInv'
  <2>1. /\ Goto(c, "refused")
        /\ verdict' \in [Calls -> Errors \cup {"none"}]
        /\ answer' \in [Calls -> {0, 202, 400, 409, 500, 503}]
        /\ verdict'[c] = e /\ \A d \in Calls : d # c => verdict'[d] = verdict[d]
    BY <1>3, RefusalIsTyped DEF Refuse
  <2>2. CASE UNCHANGED <<stock, reservation>>
    <3>1. Rebooks(c)
      BY <2>2 DEF Rebooks
    <3>2. TypeOK'
      BY <1>1, <2>1, <2>2 DEF TypeOK, Goto
    <3>3. TermsAreBooked'
      BY <2>1, <3>1, TermsStand
    <3>4. \/ Owner(c)' \/ ~AlreadyReserved(c)'
          \/ ~Owner(c) /\ AlreadyReserved(c)
      BY <1>1, <2>2 DEF Owner, AlreadyReserved, Booked
    <3>5. ReservationsHaveOwners'
      BY <1>1, <2>1, <3>1, <3>4, OwnersStand
    <3> QED BY <2>2, <3>2, <3>3, <3>5, BooksStand
  <2>3. CASE Reserves(c) /\ e \in {"canceled", "other"}
    <3>1. TypeOK'
      BY <1>1, <2>1, <2>3, ReservesKeeps DEF TypeOK, Goto
    <3>2. Owner(c)'
      BY <2>1, <2>3 DEF Owner, Goto, TypeOK
    <3>3. TermsAreBooked'
      BY <2>1, <2>3, ReservesKeeps, TermsStand
    <3>4. ReservationsHaveOwners'
      BY <1>1, <2>1, <2>3, <3>2, ReservesKeeps, OwnersStand
    <3> QED BY <2>3, <3>1, <3>3, <3>4, ReservesKeeps
  <2> QED BY <1>3, <2>2, <2>3
<1>4. CASE ReserveFails(c) /\ Refuse(c, ReserveError(c)) /\ UNCHANGED <<stock, reservation>>
  BY <1>3, <1>4 DEF ReserveError, Errors
<1>5. CASE /\ Reserves(c) \/ UNCHANGED <<stock, reservation>>
           /\ \E e \in {"canceled", "other"} : Refuse(c, e)
  BY <1>3, <1>5 DEF Errors
<1> QED BY <1>2, <1>4, <1>5 DEF Reserve

LEMMA ProduceKeepsBooks == ASSUME BookInv, NEW c \in Calls, Produce(c) PROVE BookInv'
<1> USE DEF BookInv
<1>1. /\ step[c] = "reserved" /\ UNCHANGED <<stock, reservation, verdict>>
      /\ topic \subseteq topic' /\ topic' \subseteq Calls
  BY DEF Produce, TypeOK
<1>2. PICK s \in {"accepted", "undelivered"} :
        Goto(c, s) /\ (s = "accepted" => c \in topic')
  BY DEF Produce
<1>3. TypeOK'
  BY <1>1, <1>2 DEF Produce, Answer, TypeOK, Goto
<1>4. Rebooks(c)
  BY <1>1 DEF Rebooks
<1>5. Booked(c)'.state \in {"reserved", "restored"} /\ Booked(c)'.terms = Terms(c)
  BY <1>1 DEF TermsAreBooked, Booked
<1>6. Owner(c)'
  BY <1>2 DEF Owner, Goto, TypeOK
<1>7. TermsAreBooked'
  BY <1>2, <1>4, <1>5, TermsStand
<1>8. ReservationsHaveOwners'
  BY <1>1, <1>2, <1>4, <1>6, OwnersStand
<1> QED BY <1>1, <1>3, <1>7, <1>8, BooksStand

LEMMA RestoreKeepsBooks == ASSUME BookInv, NEW c \in Calls, Restore(c) PROVE BookInv'
<1> USE DEF BookInv
<1>1. step[c] = "undelivered" /\ topic' = topic
  BY DEF Restore
<1>2. SameTerms(c)
  BY <1>1 DEF TermsAreBooked, SameTerms
<1>3. PICK e \in {"canceled", "other"} : \E joined : Fail(c, e, joined)
  BY DEF Restore
<1>4. /\ verdict' \in [Calls -> Errors \cup {"none"}]
      /\ answer' \in [Calls -> {0, 202, 400, 409, 500, 503}]
      /\ \A d \in Calls : d # c => verdict'[d] = verdict[d]
  BY <1>3, RefusalIsTyped DEF Errors
<1>5. CASE Restores(c) /\ Goto(c, "restored")
  <2>1. TypeOK'
    BY <1>1, <1>2, <1>4, <1>5, RestoresKeeps DEF TypeOK, Goto
  <2>2. TermsAreBooked'
    BY <1>2, <1>5, RestoresKeeps, TermsStand
  <2>3. ReservationsHaveOwners'
    BY <1>1, <1>2, <1>4, <1>5, RestoresKeeps, OwnersStand
  <2> QED BY <1>2, <1>5, <2>1, <2>2, <2>3, RestoresKeeps
<1>6. CASE Goto(c, "stranded") /\ UNCHANGED <<stock, reservation>>
  <2>1. TypeOK'
    BY <1>1, <1>4, <1>6 DEF TypeOK, Goto
  <2>2. Rebooks(c)
    BY <1>6 DEF Rebooks
  <2>3. Owner(c)'
    BY <1>6 DEF Owner, Goto, TypeOK
  <2>4. TermsAreBooked'
    BY <1>6, <2>2, TermsStand
  <2>5. ReservationsHaveOwners'
    BY <1>1, <1>4, <1>6, <2>2, <2>3, OwnersStand
  <2> QED BY <1>6, <2>1, <2>4, <2>5, BooksStand
<1> QED BY <1>5, <1>6 DEF Restore

LEMMA OtherStepsKeepBooks ==
    ASSUME BookInv, NEW c \in Calls, Reject(c) \/ Crash(c) PROVE BookInv'
<1> USE DEF BookInv
<1>1. UNCHANGED <<stock, reservation, topic, verdict>>
  BY DEF Reject, Crash
<1>2. PICK s \in {"rejected", "crashed"} :
        Goto(c, s) /\ (s = "rejected" => step[c] = "start")
  BY DEF Reject, Crash
<1>3. answer' \in [Calls -> {0, 202, 400, 409, 500, 503}]
  BY DEF Reject, Crash, TypeOK
<1>4. TypeOK' /\ Rebooks(c)
  BY <1>1, <1>2, <1>3 DEF TypeOK, Goto, Rebooks
<1>5. \/ Owner(c)' \/ ~AlreadyReserved(c)'
      \/ ~Owner(c) /\ AlreadyReserved(c)
  BY <1>1, <1>2 DEF Owner, AlreadyReserved, Booked, Goto, TypeOK
<1>6. TermsAreBooked'
  BY <1>2, <1>4, TermsStand
<1>7. ReservationsHaveOwners'
  BY <1>1, <1>2, <1>4, <1>5, OwnersStand
<1> QED BY <1>1, <1>4, <1>6, <1>7, BooksStand

\* The stock of every product is short by exactly the reservations that stand, for any
\* quantities and any repetition of ids, and each of them has an owner
\* (inventory/reservation.go:16-57, asyncorder/service.go:26-39).
THEOREM BooksBalance == Spec => []Inv
<1>1. BookInv /\ [Next]_vars => BookInv'
  <2> SUFFICES ASSUME BookInv, [Next]_vars PROVE BookInv'
    OBVIOUS
  <2>1. CASE UNCHANGED vars
    BY <2>1, BooksStand
    DEF vars, BookInv, TypeOK, TermsAreBooked, ReservationsHaveOwners, AlreadyReserved, Booked,
        SameRequest
  <2> QED BY <2>1, ReserveKeepsBooks, ProduceKeepsBooks, RestoreKeepsBooks,
             OtherStepsKeepBooks DEF Next
<1>2. BookInv => Inv
  BY DEF BookInv, Books, Inv
<1> QED BY <1>1, <1>2, InitBooks, PTL DEF Spec
===============================================================================
