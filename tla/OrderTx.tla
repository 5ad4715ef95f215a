------------------------------- MODULE OrderTx -------------------------------
(***************************************************************************)
(* order.PlaceOrderTx (src/internal/order/order.go), statement by          *)
(* statement, run by concurrent calls on one MySQL database at REPEATABLE  *)
(* READ.                                                                   *)
(*                                                                         *)
(* The database is modelled by what the code relies on:                    *)
(*   - a transaction's writes become visible at its commit, all at once;   *)
(*   - SELECT ... FOR UPDATE of a products row waits for, then keeps until *)
(*     the transaction ends, that row's exclusive lock;                    *)
(*   - an INSERT whose unique key is held by another open transaction      *)
(*     waits for it, and one whose key is committed fails with 1062.       *)
(* The transaction's snapshot is taken by its first SELECT and never read  *)
(* again, so a snapshot read is a read of the committed rows at that step. *)
(*                                                                         *)
(* step[c] names the statement call c executes next.                       *)
(***************************************************************************)
EXTENDS OrderStore

VARIABLES step,    \* where each call is in PlaceOrderTx
          draft,   \* the order each call is building, uncommitted once inserted
          debit    \* what each open transaction has subtracted from stock

vars == <<storeVars, step, draft, debit>>

\* A transaction holds its products row locked in these steps.
Locking == {"numbering", "inserting", "debiting", "committing"}
\* It holds an uncommitted orders row in these.
Inserted == {"debiting", "committing"}

Steps == {"start", "snapshot", "lock", "rolled_back", "returned"} \cup Locking

Init == /\ StoreInit
        /\ step = [c \in Calls |-> "start"]
        /\ draft = [c \in Calls |-> NoOrder]
        /\ debit = [c \in Calls |-> 0]

Goto(c, s) == step' = [step EXCEPT ![c] = s]

\* The deferred tx.Rollback, or the commit, has ended the transaction.
Return(c, how, o) ==
    /\ Answer(c, how, o)
    /\ Goto(c, "returned")
    /\ draft' = [draft EXCEPT ![c] = NoOrder]
    /\ debit' = [debit EXCEPT ![c] = 0]

\* Faulty variants, for the mutant runs: a plain SELECT instead of FOR UPDATE,
\* and early returns without the deferred tx.Rollback.
RowLockedByNobody(p) == FALSE
RowLockedForEver(p) ==
    \E d \in Calls :
        /\ step[d] \in Locking \/ (step[d] = "returned" /\ outcome[d] = "insufficient")
        /\ arg[d].product = p

RowLocked(p) == \E d \in Calls : step[d] \in Locking /\ arg[d].product = p

-------------------------------------------------------------------------------
\* The argument check, then BeginTxx.
Begin(c) ==
    /\ step[c] = "start"
    /\ \/ /\ arg[c].qty <= 0
          /\ Return(c, "invalid", NoOrder)
       \/ /\ arg[c].qty > 0
          /\ Goto(c, "snapshot")
          /\ UNCHANGED <<outcome, returned, draft, debit>>
    /\ UNCHANGED <<arg, stock, orders>>

\* Faulty variant: no fast path; only the unique index recognises a duplicate.
ReadNothing(c) ==
    /\ step[c] = "snapshot"
    /\ Goto(c, "lock")
    /\ UNCHANGED <<storeVars, draft, debit>>

\* The idempotent fast path: a snapshot read of orders by request_id.
ReadExisting(c) ==
    /\ step[c] = "snapshot"
    /\ \/ \E o \in orders : /\ o.request = arg[c].request
                            /\ Return(c, "ok", o)
       \/ /\ \A o \in orders : o.request # arg[c].request
          /\ Goto(c, "lock")
          /\ UNCHANGED <<outcome, returned, draft, debit>>
    /\ UNCHANGED <<arg, stock, orders>>

\* Faulty variant: `stock <= req.Quantity` refuses the exact last units.
LockStockOffByOne(c) ==
    LET p == arg[c].product IN
    /\ step[c] = "lock"
    /\ p \in Listed
    /\ ~RowLocked(p)
    /\ \/ /\ stock[p] <= arg[c].qty
          /\ Return(c, "insufficient", NoOrder)
       \/ /\ stock[p] > arg[c].qty
          /\ Goto(c, "numbering")
          /\ UNCHANGED <<outcome, returned, draft, debit>>
    /\ UNCHANGED <<arg, stock, orders>>

\* SELECT stock ... FOR UPDATE and the check of what it returned.
LockStock(c) ==
    LET p == arg[c].product IN
    /\ step[c] = "lock"
    /\ \/ /\ p \notin Listed
          /\ Return(c, "not_found", NoOrder)
       \/ /\ p \in Listed
          /\ ~RowLocked(p)
          /\ stock[p] < arg[c].qty
          /\ Return(c, "insufficient", NoOrder)
       \/ /\ p \in Listed
          /\ ~RowLocked(p)
          /\ stock[p] >= arg[c].qty
          /\ Goto(c, "numbering")
          /\ UNCHANGED <<outcome, returned, draft, debit>>
    /\ UNCHANGED <<arg, stock, orders>>

\* node.NextID: any id, one that was used before included.
NextID(c) ==
    /\ step[c] = "numbering"
    /\ \E i \in OrderIDs : draft' = [draft EXCEPT ![c] = Row(c, i)]
    /\ Goto(c, "inserting")
    /\ UNCHANGED <<storeVars, debit>>

KeyHeld(c) == \E d \in Calls \ {c} : step[d] \in Inserted /\ SameKey(draft[d], draft[c])
KeyTaken(c) == \E o \in orders : SameKey(o, draft[c])

\* Faulty variant: 1062 is taken to mean that the own row is already there.
InsertOrderTrusting(c) ==
    /\ step[c] = "inserting"
    /\ ~KeyHeld(c)
    /\ \/ /\ KeyTaken(c)
          /\ Return(c, "ok", draft[c])
       \/ /\ ~KeyTaken(c)
          /\ Goto(c, "debiting")
          /\ UNCHANGED <<outcome, returned, draft, debit>>
    /\ UNCHANGED <<arg, stock, orders>>

\* INSERT INTO orders; error 1062 rolls the transaction back at once.
InsertOrder(c) ==
    /\ step[c] = "inserting"
    /\ ~KeyHeld(c)
    /\ \/ /\ KeyTaken(c)
          /\ Goto(c, "rolled_back")
          /\ draft' = [draft EXCEPT ![c] = NoOrder]
       \/ /\ ~KeyTaken(c)
          /\ Goto(c, "debiting")
          /\ UNCHANGED draft
    /\ UNCHANGED <<storeVars, debit>>

\* Faulty variant: one unit is taken whatever the quantity ordered.
UpdateStockByOne(c) ==
    /\ step[c] = "debiting"
    /\ debit' = [debit EXCEPT ![c] = 1]
    /\ Goto(c, "committing")
    /\ UNCHANGED <<storeVars, draft>>

\* UPDATE products SET stock = stock - ?
UpdateStock(c) ==
    /\ step[c] = "debiting"
    /\ debit' = [debit EXCEPT ![c] = arg[c].qty]
    /\ Goto(c, "committing")
    /\ UNCHANGED <<storeVars, draft>>

\* Commit; the caller sees an error when the reply to it is lost.
Commit(c) ==
    /\ step[c] = "committing"
    /\ orders' = orders \cup {draft[c]}
    /\ stock' = [stock EXCEPT ![arg[c].product] = @ - debit[c]]
    /\ \/ Return(c, "ok", draft[c])
       \/ Return(c, "error", NoOrder)
    /\ UNCHANGED arg

\* After 1062: the winner's row, read outside the rolled-back transaction.
\* A collision of ids alone finds no row and returns sql.ErrNoRows.
ReadWinner(c) ==
    /\ step[c] = "rolled_back"
    /\ \/ \E o \in orders : /\ o.request = arg[c].request
                            /\ Return(c, "ok", o)
       \/ /\ \A o \in orders : o.request # arg[c].request
          /\ Return(c, "error", NoOrder)
    /\ UNCHANGED <<arg, stock, orders>>

\* Any statement may fail: a lost connection, an expired context, a lock wait
\* timeout, a clock that ran backwards in NextID, the death of the process.
\* MySQL rolls the transaction back.
Fail(c) ==
    /\ step[c] \in Steps \ {"start", "returned"}
    /\ Return(c, "error", NoOrder)
    /\ UNCHANGED <<arg, stock, orders>>

Finished == (\A c \in Calls : step[c] = "returned") /\ UNCHANGED vars

Proceed(c) == \/ Begin(c) \/ ReadExisting(c) \/ LockStock(c) \/ NextID(c)
              \/ InsertOrder(c) \/ UpdateStock(c) \/ Commit(c) \/ ReadWinner(c)

Next == (\E c \in Calls : Proceed(c) \/ Fail(c)) \/ Finished

Spec == Init /\ [][Next]_vars

(***************************************************************************)
(* A goroutine runs until its next statement returns, and InnoDB grants a  *)
(* lock once it is free.  Nothing makes a statement fail.                  *)
(***************************************************************************)
FairSpec == Spec /\ \A c \in Calls : WF_vars(Proceed(c))

-------------------------------------------------------------------------------
\* The shape of the rows, the answers and the calls' private state.  No row is
\* ever written with the refused quantity 0.
TypeOK ==
    /\ arg \in [Calls -> Args]
    /\ stock \in [Listed -> Int]
    /\ orders \subseteq Order
    /\ outcome \in [Calls -> Outcomes]
    /\ returned \in [Calls -> Order \cup {NoOrder}]
    /\ step \in [Calls -> Steps]
    /\ draft \in [Calls -> Order \cup {NoOrder}]
    /\ debit \in [Calls -> 0..MaxQty]

\* The row lock keeps two calls that both saw the last units from both taking
\* them: products.stock never goes below zero.
NoOversell == \A p \in Listed : stock[p] >= 0

\* The units of product p that the rows of table orders stand for.
SoldUnits(p) ==
    {u \in orders \X (1..MaxQty) : u[1].product = p /\ u[2] <= u[1].qty}

\* The identity of the tests: stock handed out equals quantity ordered, in every
\* committed state, so no failure leaves stock taken without an order or an
\* order without its stock.
StockMatchesOrders ==
    \A p \in Listed : stock[p] + Cardinality(SoldUnits(p)) = InitialStock[p]

\* However many calls repeat a request at once, one row is written for it, and
\* no two rows share an id.
OneOrderPerRequest ==
    \A o1, o2 \in orders : SameKey(o1, o2) => o1 = o2

\* An order a caller was given is in the table, under the caller's own request:
\* a losing duplicate is answered with the winner's row and not with its own.
AnswerIsCommitted ==
    \A c \in Calls : outcome[c] = "ok" =>
        /\ returned[c] \in orders
        /\ returned[c].request = arg[c].request

\* No two open transactions hold one products row, and what a holder read there
\* still covers what it is about to take.
LockExclusive ==
    \A c \in Calls : step[c] \in Locking =>
        /\ arg[c].product \in Listed
        /\ stock[arg[c].product] >= arg[c].qty
        /\ \A d \in Calls \ {c} :
             step[d] \in Locking => arg[d].product # arg[c].product

\* What the proofs carry from step to step besides: a call past the argument
\* check asks for something, its draft is its own request and its debit what it
\* asked for, and no other row or open insert has the keys it inserted.
CallsOwnTheirWork ==
    \A c \in Calls :
        /\ step[c] \notin {"start", "returned"} => arg[c].qty > 0
        /\ step[c] \in {"inserting"} \cup Inserted =>
              /\ draft[c] \in Order
              /\ draft[c] = Row(c, draft[c].id)
        /\ step[c] = "committing" => debit[c] = arg[c].qty
        /\ step[c] \in Inserted => ~KeyTaken(c) /\ ~KeyHeld(c)

\* The inductive invariant of OrderTxProofs: everything that makes a commit safe
\* whatever the other calls do meanwhile.
IndInv ==
    /\ TypeOK
    /\ IsFiniteSet(orders)
    /\ CallsOwnTheirWork
    /\ LockExclusive
    /\ NoOversell
    /\ OneOrderPerRequest
    /\ AnswerIsCommitted
    /\ StockMatchesOrders

\* A caller that repeats a request which has its order gets that order or an error to
\* retry on, and is never told that the product is sold out, even if its own order
\* took the last units (order.go:30-31).  Only a duplicate that was under way before
\* the commit may be refused (order.go:52).
HasOrder(c) == \E o \in orders : o.request = arg[c].request
ReplayNeverRefused ==
    \A c \in Calls : [](step[c] = "start" /\ HasOrder(c) => [](outcome[c] # "insufficient"))

\* Waiting for the row lock or for another insert of the key always ends.
EveryCallReturns == \A c \in Calls : <>(step[c] = "returned")
===============================================================================
