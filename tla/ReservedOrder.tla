---------------------------- MODULE ReservedOrder ----------------------------
(***************************************************************************)
(* POST /debug/orders/async across three processes: the gateway calls the  *)
(* order service (asyncorder.Service), which reserves stock at the         *)
(* inventory service (inventory.Service), produces a record to Kafka, and  *)
(* restores the reservation if that failed.  Calls may carry the same      *)
(* request id, one after the other or at once.                             *)
(*                                                                         *)
(* A reservation script is one step in Redis; a missing stock key is a     *)
(* stock of zero, which the script treats alike.  The interceptors for     *)
(* retries, breakers and rate limits are not written yet in the repository *)
(* (interceptor/p4.go) and left out.  Quantities fit in the int32 of the   *)
(* messages.                                                               *)
(*                                                                         *)
(* Every call between two of the processes may lose its request or its     *)
(* reply, ProduceSync may fail for a record that was written, and the      *)
(* order service may die at each step.                                     *)
(***************************************************************************)
EXTENDS Integers, FiniteSets

CONSTANTS Calls, Requests, Products,
          Args,          \* request id, product and quantity of each call
          InitialStock   \* seckill:stock:<product> after WarmStock

ASSUME ReservedAssumption ==
    /\ Args \in [Calls -> [request : Requests, product : Products, quantity : Int]]
    /\ Products \subseteq Int
    /\ InitialStock \in [Products -> Nat]

VARIABLES stock,        \* seckill:stock:<product>
          reservation,  \* seckill:reservation:<request>
          topic,        \* the calls whose record is in Kafka
          step,         \* where each call is in PlaceOrderAsync
          verdict,      \* the error a call met first, if any
          answer        \* the status the gateway answered

vars == <<stock, reservation, topic, step, verdict, answer>>

Errors == {"insufficient", "invalid", "conflict", "not_found", "canceled", "other"}

Nothing == [state |-> "none"]

\* A body without a quantity asks for one unit.
Quantity(c) == IF Args[c].quantity = 0 THEN 1 ELSE Args[c].quantity
Terms(c) == [product |-> Args[c].product, quantity |-> Quantity(c)]

Init == /\ stock = InitialStock
        /\ reservation = [r \in Requests |-> Nothing]
        /\ topic = {}
        /\ step = [c \in Calls |-> "start"]
        /\ verdict = [c \in Calls |-> "none"]
        /\ answer = [c \in Calls |-> 0]

Booked(c) == reservation[Args[c].request]
Book(c, s) == reservation' = [reservation EXCEPT ![Args[c].request] =
                                 [state |-> s, terms |-> Terms(c)]]
Move(c, units) == stock' = [stock EXCEPT ![Args[c].product] = @ + units]
Goto(c, s) == step' = [step EXCEPT ![c] = s]

-------------------------------------------------------------------------------
(***************************************************************************)
(* What becomes of an error on its way to the client.                      *)
(***************************************************************************)

\* Faulty variant: a conflict is a failed precondition too.
InventoryCodeBroad(e) ==
    IF e \in {"insufficient", "conflict"} THEN "FailedPrecondition"
    ELSE IF e = "canceled" THEN "Canceled" ELSE "Internal"

\* InventoryServer.Reserve: anything but the stock and the context is Internal.
InventoryCode(e) ==
    IF e = "insufficient" THEN "FailedPrecondition"
    ELSE IF e = "canceled" THEN "Canceled" ELSE "Internal"

\* InventoryServer.Restore knows other classes.
RestoreCode(e) ==
    CASE e = "ok"        -> "OK"
      [] e = "not_found" -> "NotFound"
      [] e = "conflict"  -> "InvalidArgument"
      [] e = "canceled"  -> "Canceled"
      [] OTHER           -> "Internal"

\* inventoryRPCError, for both.
InventoryError(code) ==
    CASE code = "OK"                 -> "ok"
      [] code = "FailedPrecondition" -> "insufficient"
      [] code = "NotFound"           -> "not_found"
      [] code = "InvalidArgument"    -> "conflict"
      [] code = "Canceled"           -> "canceled"
      [] OTHER                       -> "other"

\* OrderServer.PlaceOrderAsync looks into the joined errors of a call, in this order.
OrderCode(joined) ==
    IF "insufficient" \in joined THEN "FailedPrecondition"
    ELSE IF "invalid" \in joined THEN "InvalidArgument"
    ELSE IF "canceled" \in joined THEN "Canceled" ELSE "Internal"

\* OrderAdapter.PlaceOrderAsync.
OrderError(code) ==
    IF code = "FailedPrecondition" THEN "insufficient"
    ELSE IF code = "InvalidArgument" THEN "invalid"
    ELSE IF code = "Canceled" THEN "canceled" ELSE "other"

\* AsyncHTTP.PlaceOrder: everything but a sold-out product is 503.
HTTPStatus(e) == IF e = "insufficient" THEN 409 ELSE 503

\* The gateway's call may fail under a call that went on.
Answer(c, status) ==
    \/ answer' = [answer EXCEPT ![c] = status]
    \/ answer' = [answer EXCEPT ![c] = 503]

\* PlaceOrderAsync ends with these errors.
Fail(c, e, joined) ==
    /\ verdict' = [verdict EXCEPT ![c] = e]
    /\ Answer(c, HTTPStatus(OrderError(OrderCode(joined))))

Refuse(c, e) == Goto(c, "refused") /\ Fail(c, e, {InventoryError(InventoryCode(e))})

-------------------------------------------------------------------------------
(***************************************************************************)
(* inventory.Service.Reserve.                                              *)
(***************************************************************************)
\* A request id is never empty: the gateway makes one.
Valid(c) == Args[c].product > 0 /\ Quantity(c) > 0

\* Faulty variant: a reservation that was restored still counts.
AlreadyReservedOnce(c) == Booked(c).state # "none"

SameTerms(c) == Booked(c).state # "none" => Booked(c).terms = Terms(c)

AlreadyReserved(c) == Booked(c).state = "reserved"

ReserveFresh(c) ==
    /\ ~AlreadyReserved(c)
    /\ stock[Args[c].product] >= Quantity(c)
    /\ Move(c, - Quantity(c))
    /\ Book(c, "reserved")

\* What Reserve answers, and does.
Reserves(c) ==
    /\ Valid(c) /\ SameTerms(c)
    /\ \/ AlreadyReserved(c) /\ UNCHANGED <<stock, reservation>>
       \/ ReserveFresh(c)

ReserveError(c) ==
    IF ~Valid(c) THEN "invalid"
    ELSE IF ~SameTerms(c) THEN "conflict" ELSE "insufficient"

ReserveFails(c) ==
    \/ ~Valid(c)
    \/ ~SameTerms(c)
    \/ ~AlreadyReserved(c) /\ stock[Args[c].product] < Quantity(c)

\* Faulty variant: an error that is not about the stock does not end the call.
ReserveTrusting(c) ==
    /\ step[c] = "start"
    /\ \/ Reserves(c) /\ Goto(c, "reserved") /\ UNCHANGED <<verdict, answer>>
       \/ ReserveFails(c) /\ Refuse(c, ReserveError(c)) /\ UNCHANGED <<stock, reservation>>
       \/ /\ Goto(c, "reserved")
          /\ UNCHANGED <<stock, reservation, verdict, answer>>
    /\ UNCHANGED topic

\* The gateway does not get as far as the call: the body does not bind, or a request id
\* has to be made and NextID refuses.
Reject(c) ==
    /\ step[c] = "start"
    /\ Goto(c, "rejected")
    /\ \E status \in {400, 500} : answer' = [answer EXCEPT ![c] = status]
    /\ UNCHANGED <<stock, reservation, topic, verdict>>

\* PlaceOrderAsync starts with Reserve.  An error ends it, without a Restore, also
\* the error of a call that took effect.
Reserve(c) ==
    /\ step[c] = "start"
    /\ \/ Reserves(c) /\ Goto(c, "reserved") /\ UNCHANGED <<verdict, answer>>
       \/ ReserveFails(c) /\ Refuse(c, ReserveError(c)) /\ UNCHANGED <<stock, reservation>>
       \/ /\ Reserves(c) \/ UNCHANGED <<stock, reservation>>
          /\ \E e \in {"canceled", "other"} : Refuse(c, e)
    /\ UNCHANGED topic

Produce(c) ==
    /\ step[c] = "reserved"
    /\ \/ /\ topic' = topic \cup {c}
          /\ Goto(c, "accepted") /\ Answer(c, 202)
       \/ /\ UNCHANGED topic \/ topic' = topic \cup {c}
          /\ Goto(c, "undelivered") /\ UNCHANGED answer
    /\ UNCHANGED <<stock, reservation, verdict>>

\* restoreScript gives stock back once, for a reservation of the same terms.
Restores(c) ==
    IF AlreadyReserved(c) /\ SameTerms(c)
    THEN Move(c, Quantity(c)) /\ Book(c, "restored")
    ELSE UNCHANGED <<stock, reservation>>

\* What Service.Restore makes of the answer of the script.
RestoreError(c) == CASE Booked(c).state = "none" -> "not_found"
                     [] ~SameTerms(c)            -> "conflict"
                     [] OTHER                    -> "ok"

\* The compensation, on a context of its own.  The call fails either way, with the
\* error of the produce and, joined to it, that of the compensation.
Restore(c) ==
    /\ step[c] = "undelivered"
    /\ \E e \in {"canceled", "other"}, f \in {RestoreError(c), "canceled", "other"} :
         /\ Fail(c, e, {e, InventoryError(RestoreCode(f))})
         /\ \/ Restores(c) /\ Goto(c, "restored")
            \/ f # "ok" /\ UNCHANGED <<stock, reservation>> /\ Goto(c, "stranded")
    /\ UNCHANGED topic

\* The order service dies; the gateway gets Unavailable.
Crash(c) ==
    /\ step[c] \in {"reserved", "undelivered"}
    /\ Goto(c, "crashed")
    /\ answer' = [answer EXCEPT ![c] = 503]
    /\ UNCHANGED <<stock, reservation, topic, verdict>>

-------------------------------------------------------------------------------
Next == \E c \in Calls : Reject(c) \/ Reserve(c) \/ Produce(c) \/ Restore(c) \/ Crash(c)

Spec == Init /\ [][Next]_vars

-------------------------------------------------------------------------------
Bookings == {Nothing} \cup
            [state : {"reserved", "restored"}, terms : {Terms(c) : c \in Calls}]

\* The shape of the state: stock is never reserved below zero.
TypeOK ==
    /\ stock \in [Products -> Nat]
    /\ reservation \in [Requests -> Bookings]
    /\ topic \subseteq Calls
    /\ step \in [Calls -> {"start", "reserved", "undelivered", "accepted", "refused",
                           "restored", "stranded", "crashed", "rejected"}]
    /\ verdict \in [Calls -> Errors \cup {"none"}]
    /\ answer \in [Calls -> {0, 202, 400, 409, 500, 503}]

\* Whatever is lost, repeated or contradictory, a product's stock is short by exactly
\* the reservations that stand: no request id is charged twice or refunded twice
\* (grpcserver/server.go:77).
UnitsReserved(p) ==
    {u \in Requests \X (1..InitialStock[p]) :
        /\ reservation[u[1]].state = "reserved"
        /\ reservation[u[1]].terms.product = p
        /\ u[2] <= reservation[u[1]].terms.quantity}

StockMatchesReservations ==
    \A p \in Products : stock[p] + Cardinality(UnitsReserved(p)) = InitialStock[p]

\* No caller is told of an order that nobody will write, or of a sold-out product
\* that was not: the verdict survives both RPC hops (grpcserver/server.go:30-31).
AnswerIsTrue ==
    \A c \in Calls : /\ answer[c] = 202 => c \in topic
                     /\ answer[c] = 409 => verdict[c] = "insufficient"

SameRequest(c) == {d \in Calls : Args[d].request = Args[c].request}

\* The stock behind an accepted record stays reserved, whatever is lost.  Only the
\* compensation of another call of the same request takes it away.
AcceptedStaysReserved ==
    \A c \in Calls : step[c] = "accepted" =>
        \/ AlreadyReserved(c)
        \/ \E d \in SameRequest(c) : step[d] = "restored"

\* Every reservation that stands is some call's: still at work, in Kafka, or one of
\* the calls that the code has no answer to, whose Reserve was lost after it took
\* effect, whose Restore was lost, or whose process died (asyncorder/service.go:32-37).
ReservationsHaveOwners ==
    \A c \in Calls : AlreadyReserved(c) =>
        \E d \in SameRequest(c) :
            \/ step[d] \in {"reserved", "undelivered", "stranded", "crashed"}
            \/ d \in topic
            \/ verdict[d] \in {"canceled", "other"} /\ step[d] = "refused"

\* What holds of every state, whatever was lost.
Inv == TypeOK /\ StockMatchesReservations /\ ReservationsHaveOwners
===============================================================================
