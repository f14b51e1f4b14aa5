----------------------------- MODULE PointOfSale -----------------------------
(***************************************************************************)
(* One sale is one transaction over its goods and its money.  CashDesk and *)
(* Inventory let such a transaction take effect in a single Commit step;   *)
(* this module looks inside, at the statements of PosService.createSale    *)
(* and cancelSale, the row locks they take in PostgreSQL, and the          *)
(* connection each of them keeps.                                          *)
(*                                                                         *)
(* An UPDATE locks its row until the transaction ends, and waits while     *)
(* another transaction has it.  createSale updates the inventory rows of   *)
(* its items sorted by product.  cancelSale updates the row of the sale,   *)
(* then the inventory rows in the order the database returned the items.   *)
(* The rows they insert are new, and nobody waits for them.  Every other   *)
(* handler updates one of these rows at most, so that it waits, or makes   *)
(* others wait, but is never both in the middle of two.                    *)
(*                                                                         *)
(* What is read before the first UPDATE, the checks on sessions, debts and *)
(* quantities, and the amounts are in CashDesk and Inventory.              *)
(***************************************************************************)
EXTENDS Integers, FiniteSets

CONSTANTS
    Worker, NoWorker,   \* transactions that can be in flight at once
    Products,           \* bound: number of products
    Sale,               \* ids of sales
    Pool                \* connections of the database client

Product == 1..Products  \* numbered in the order of localeCompare on their ids
Row == Product \cup Sale

ASSUME ConstantsOK ==
    /\ Products \in Nat
    /\ Pool \in Nat
    /\ NoWorker \notin Worker
    /\ Sale \cap Product = {}

VARIABLES
    sale,    \* sales and their items, whether they were paid
    goods,   \* inventory_movements of each sale: units out less units returned
    money,   \* cash_movements of each sale: paid less corrected, in its amounts
    lock,    \* the transaction that has the row
    txn      \* the transaction of each worker

vars == <<sale, goods, money, lock, txn>>
-----------------------------------------------------------------------------
SaleRow ==
    [status : {"NONE", "COMPLETED", "CANCELLED"}, items : SUBSET Product, paid : BOOLEAN]

Idle == [op |-> "idle"]
Txn ==
    {Idle}
    \cup [op : {"createSale", "cancelSale"}, sale : Sale, items : SUBSET Product,
          paid : BOOLEAN,
          todo : SUBSET Row,     \* rows still to update
          next : Row,            \* the row of the statement being executed
          moved : SUBSET Product]  \* items whose movement is inserted

TypeOK ==
    /\ sale \in [Sale -> SaleRow]
    /\ goods \in [Sale -> [Product -> Int]]
    /\ money \in [Sale -> Int]
    /\ lock \in [Row -> Worker \cup {NoWorker}]
    /\ txn \in [Worker -> Txn]

Init ==
    /\ sale = [s \in Sale |-> [status |-> "NONE", items |-> {}, paid |-> FALSE]]
    /\ goods = [s \in Sale |-> [p \in Product |-> 0]]
    /\ money = [s \in Sale |-> 0]
    /\ lock = [r \in Row |-> NoWorker]
    /\ txn = [w \in Worker |-> Idle]

Tables == <<sale, goods, money>>
InFlight == {w \in Worker : txn[w] # Idle}
-----------------------------------------------------------------------------
\* (mutant) the updates of a sale in the order of its items.
FirstUnsorted(op, s, todo) == IF s \in todo THEN {s} ELSE todo

\* The rows that may be updated first: sortedUpdates of createSale; the sale
\* and then any item in cancelSale.
First(op, s, todo) ==
    IF op = "createSale"
    THEN {p \in todo : \A q \in todo : p <= q}
    ELSE IF s \in todo THEN {s} ELSE todo

\* $transaction takes a connection and keeps it.
Begin(w, t) ==
    /\ txn[w] = Idle
    /\ Cardinality(InFlight) < Pool
    /\ txn' = [txn EXCEPT ![w] = t]
    /\ UNCHANGED <<Tables, lock>>

\* The sale is inserted under an id nobody else has.
BeginSale(w, s) ==
    /\ sale[s].status = "NONE"
    /\ \A v \in InFlight : txn[v].sale # s
    /\ \E items \in SUBSET Product \ {{}}, paid \in BOOLEAN :
       \E r \in First("createSale", s, items) :
          Begin(w, [op |-> "createSale", sale |-> s, items |-> items, paid |-> paid,
                    todo |-> items, next |-> r, moved |-> {}])

BeginCancel(w, s) ==
    LET items == sale[s].items IN
    /\ sale[s].status = "COMPLETED"
    /\ \E r \in First("cancelSale", s, {s} \cup items) :
          Begin(w, [op |-> "cancelSale", sale |-> s, items |-> items, paid |-> sale[s].paid,
                    todo |-> {s} \cup items, next |-> r, moved |-> {}])

Updating(w) == txn[w] # Idle /\ txn[w].todo # {}

\* The row of the next statement is had by another transaction.
Waiting(w) == Updating(w) /\ lock[txn[w].next] # NoWorker

\* (mutant) the movement of a returned item is not inserted through tx.
UpdateOutside(w) ==
    LET t == txn[w]
        rest == t.todo \ {t.next} IN
    /\ Updating(w)
    /\ lock[t.next] = NoWorker
    /\ lock' = [lock EXCEPT ![t.next] = w]
    /\ \E r \in (IF rest = {} THEN {t.next} ELSE First(t.op, t.sale, rest)) :
          IF t.op = "cancelSale" /\ t.next # t.sale
          THEN /\ goods' = [goods EXCEPT ![t.sale][t.next] = @ - 1]
               /\ txn' = [txn EXCEPT ![w] = [t EXCEPT !.todo = rest, !.next = r]]
          ELSE /\ UNCHANGED goods
               /\ txn' = [txn EXCEPT ![w] =
                      [t EXCEPT !.todo = rest, !.next = r,
                                !.moved = @ \cup ({t.next} \cap Product)]]
    /\ UNCHANGED <<sale, money>>

\* The statement gets its row, and the movement of the item is inserted.
Update(w) ==
    LET t == txn[w]
        rest == t.todo \ {t.next} IN
    /\ Updating(w)
    /\ lock[t.next] = NoWorker
    /\ lock' = [lock EXCEPT ![t.next] = w]
    /\ \E r \in (IF rest = {} THEN {t.next} ELSE First(t.op, t.sale, rest)) :
          txn' = [txn EXCEPT ![w] =
              [op |-> t.op, sale |-> t.sale, items |-> t.items, paid |-> t.paid,
               todo |-> rest, next |-> r, moved |-> t.moved \cup ({t.next} \cap Product)]]
    /\ UNCHANGED Tables

End(w) ==
    /\ txn' = [txn EXCEPT ![w] = Idle]
    /\ lock' = [r \in Row |-> IF lock[r] = w THEN NoWorker ELSE lock[r]]

\* (mutant) createLog instead of createLogWithClient: on another connection.
AuditApart(w) == Cardinality(InFlight) < Pool

\* The audit record is written on the connection of the transaction.
Audit(w) == w \in InFlight

\* Everything the transaction wrote becomes visible.
Commit(w) ==
    LET t == txn[w]
        unit == IF t.op = "createSale" THEN 1 ELSE -1 IN
    /\ t # Idle /\ t.todo = {}
    /\ Audit(w)
    /\ sale' = [sale EXCEPT ![t.sale] =
           [status |-> IF t.op = "createSale" THEN "COMPLETED" ELSE "CANCELLED",
            items |-> t.items, paid |-> t.paid]]
    /\ goods' = [goods EXCEPT ![t.sale] =
           [p \in Product |-> goods[t.sale][p] + (IF p \in t.moved THEN unit ELSE 0)]]
    /\ money' = [money EXCEPT ![t.sale] = @ + (IF t.paid THEN unit ELSE 0)]
    /\ End(w)

\* Prisma's time limit, a lost connection, a crash of the server: rolled back.
Abort(w) ==
    /\ txn[w] # Idle
    /\ End(w)
    /\ UNCHANGED Tables

\* Transactions that wait for each other.
Deadlocked(c) == c # {} /\ \A w \in c : Waiting(w) /\ lock[txn[w].next] \in c

\* PostgreSQL finds them and rolls one back.
Victim(w) ==
    /\ \E c \in SUBSET Worker : w \in c /\ Deadlocked(c)
    /\ End(w)
    /\ UNCHANGED Tables
-----------------------------------------------------------------------------
Next ==
    \E w \in Worker :
        \/ \E s \in Sale : BeginSale(w, s) \/ BeginCancel(w, s)
        \/ Update(w)
        \/ Commit(w)
        \/ Abort(w)
        \/ Victim(w)

Spec == Init /\ [][Next]_vars

\* The server and the database go on with what was begun.  PostgreSQL grants
\* a row to those that wait for it in turn: strong fairness of Update.  Nothing
\* is asked of the users, and no request needs its time limit.
Fairness ==
    \A w \in Worker : SF_vars(Update(w)) /\ WF_vars(Commit(w)) /\ WF_vars(Victim(w))

FairSpec == Spec /\ Fairness
-----------------------------------------------------------------------------
\* Sales that have products in common never wait for each other in a circle,
\* because of the order of their updates: in each deadlock that PostgreSQL has
\* to break there is a cancellation (pos.service.ts:792-804 and 951-955).
SalesNeverDeadlock ==
    \A c \in SUBSET Worker :
        Deadlocked(c) => \E w \in c : txn[w].op = "cancelSale"

\* However many cancellations of a sale get past the check of its status, and
\* whatever is rolled back, a sale is made with all its goods and its money or
\* not at all, and both were returned the same number of times, at least once
\* if it is cancelled (pos.service.ts:663-911, 941-1001).
GoodsFollowMoney ==
    \A s \in Sale, p \in Product :
        IF p \in sale[s].items
        THEN /\ sale[s].paid => goods[s][p] = money[s]
             /\ \A q \in sale[s].items : goods[s][p] = goods[s][q]
             /\ sale[s].status = "COMPLETED" => goods[s][p] = 1
             /\ sale[s].status = "CANCELLED" => goods[s][p] <= 0
        ELSE goods[s][p] = 0

\* Every sale and every cancellation that was begun is answered, even when all
\* connections are taken and transactions wait for each other: none needs a
\* second connection, and no lock outlives its transaction.
EveryRequestEnds == \A w \in Worker : txn[w] # Idle ~> txn[w] = Idle
=============================================================================
