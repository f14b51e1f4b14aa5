-------------------------- MODULE PointOfSaleProofs --------------------------
(***************************************************************************)
(* Theorems of PointOfSale, for any number of transactions, products,      *)
(* sales and connections: type correctness, no deadlock among sales, and   *)
(* goods that follow their money.                                          *)
(***************************************************************************)
EXTENDS PointOfSale, WellFoundedInduction, TLAPS

\* A request in flight of the given kind.
Doing(w, op) == txn[w] # Idle /\ txn[w].op = op

LEMMA TxnFields ==
    ASSUME TypeOK, NEW w \in Worker, txn[w] # Idle
    PROVE  /\ txn[w].op \in {"createSale", "cancelSale"}
           /\ txn[w].sale \in Sale
           /\ txn[w].items \in SUBSET Product
           /\ txn[w].paid \in BOOLEAN
           /\ txn[w].todo \in SUBSET Row
           /\ txn[w].next \in Row
           /\ txn[w].moved \in SUBSET Product
           /\ txn[w] = [op |-> txn[w].op, sale |-> txn[w].sale, items |-> txn[w].items,
                        paid |-> txn[w].paid, todo |-> txn[w].todo, next |-> txn[w].next,
                        moved |-> txn[w].moved]
BY DEF TypeOK, Txn

\* What a request that begins has done: its record, and what it had read.
Begun(w, op, s, items, paid, todo, r) ==
    /\ txn[w] = Idle
    /\ txn' = [txn EXCEPT ![w] =
           [op |-> op, sale |-> s, items |-> items, paid |-> paid, todo |-> todo,
            next |-> r, moved |-> {}]]
    /\ r \in First(op, s, todo)
    /\ op = "createSale" =>
          /\ todo = items
          /\ sale[s].status = "NONE"
          /\ \A v \in InFlight : txn[v].sale # s
    /\ op = "cancelSale" =>
          /\ todo = {s} \cup items
          /\ items = sale[s].items
          /\ paid = sale[s].paid
          /\ sale[s].status = "COMPLETED"
    /\ UNCHANGED <<sale, goods, money, lock>>

LEMMA BeginFields ==
    ASSUME NEW w \in Worker, NEW s \in Sale, TypeOK,
           BeginSale(w, s) \/ BeginCancel(w, s)
    PROVE  \E op \in {"createSale", "cancelSale"}, items \in SUBSET Product, paid \in BOOLEAN,
              todo \in SUBSET Row, r \in Row : Begun(w, op, s, items, paid, todo, r)
<1>1. CASE BeginSale(w, s)
  <2>1. PICK items \in SUBSET Product \ {{}}, paid \in BOOLEAN :
            \E r \in First("createSale", s, items) :
                Begin(w, [op |-> "createSale", sale |-> s, items |-> items, paid |-> paid,
                          todo |-> items, next |-> r, moved |-> {}])
    BY <1>1 DEF BeginSale
  <2>2. PICK r \in First("createSale", s, items) :
            Begin(w, [op |-> "createSale", sale |-> s, items |-> items, paid |-> paid,
                      todo |-> items, next |-> r, moved |-> {}])
    BY <2>1
  <2>3. r \in Row /\ items \in SUBSET Row
    BY <2>2 DEF First, Row
  <2>4. sale[s].status = "NONE" /\ \A v \in InFlight : txn[v].sale # s
    BY <1>1 DEF BeginSale
  <2>5. Begun(w, "createSale", s, items, paid, items, r)
    BY <2>2, <2>4 DEF Begin, Tables, Begun
  <2>. QED  BY <2>3, <2>5
<1>2. CASE BeginCancel(w, s)
  <2>1. PICK r \in First("cancelSale", s, {s} \cup sale[s].items) :
            Begin(w, [op |-> "cancelSale", sale |-> s, items |-> sale[s].items,
                      paid |-> sale[s].paid, todo |-> {s} \cup sale[s].items, next |-> r,
                      moved |-> {}])
    BY <1>2 DEF BeginCancel
  <2>2. sale[s].items \in SUBSET Product /\ sale[s].paid \in BOOLEAN
    BY DEF TypeOK, SaleRow
  <2>3. r \in Row /\ {s} \cup sale[s].items \in SUBSET Row
    BY <2>1, <2>2 DEF First, Row
  <2>4. sale[s].status = "COMPLETED"
    BY <1>2 DEF BeginCancel
  <2>5. Begun(w, "cancelSale", s, sale[s].items, sale[s].paid, {s} \cup sale[s].items, r)
    BY <2>1, <2>4 DEF Begin, Tables, Begun
  <2>. QED  BY <2>2, <2>3, <2>5
<1>. QED  BY <1>1, <1>2

\* The record of a request whose statement got its row.
LEMMA UpdateFields ==
    ASSUME NEW w \in Worker, TypeOK, Update(w)
    PROVE  \E r \in Row :
              /\ txn' = [txn EXCEPT ![w] =
                     [op |-> txn[w].op, sale |-> txn[w].sale, items |-> txn[w].items,
                      paid |-> txn[w].paid, todo |-> txn[w].todo \ {txn[w].next},
                      next |-> r, moved |-> txn[w].moved \cup ({txn[w].next} \cap Product)]]
              /\ txn[w].todo \ {txn[w].next} # {} =>
                    r \in First(txn[w].op, txn[w].sale, txn[w].todo \ {txn[w].next})
<1>. DEFINE t == txn[w]
            rest == txn[w].todo \ {txn[w].next}
<1>1. txn[w] # Idle
  BY DEF Update, Updating
<1>2. PICK r \in (IF rest = {} THEN {t.next} ELSE First(t.op, t.sale, rest)) :
          txn' = [txn EXCEPT ![w] =
              [op |-> t.op, sale |-> t.sale, items |-> t.items, paid |-> t.paid,
               todo |-> rest, next |-> r, moved |-> t.moved \cup ({t.next} \cap Product)]]
  BY DEF Update
<1>3. r \in Row
  BY <1>1, <1>2, TxnFields DEF First
<1>. QED  BY <1>2, <1>3

-----------------------------------------------------------------------------
(* Type correctness                                                        *)

\* The tables, the locks and the requests keep their types (pos.service.ts:338-1010).
THEOREM TypeCorrect == Spec => []TypeOK
<1>1. Init => TypeOK
  BY DEF Init, TypeOK, SaleRow, Txn
<1>2. TypeOK /\ [Next]_vars => TypeOK'
  <2>. SUFFICES ASSUME TypeOK, [Next]_vars  PROVE TypeOK'
    OBVIOUS
  <2>1. ASSUME NEW w \in Worker, NEW s \in Sale, BeginSale(w, s) \/ BeginCancel(w, s)
        PROVE  TypeOK'
    <3>1. PICK op \in {"createSale", "cancelSale"}, items \in SUBSET Product,
               paid \in BOOLEAN, todo \in SUBSET Row, r \in Row :
                   Begun(w, op, s, items, paid, todo, r)
      BY <2>1, BeginFields
    <3>2. [op |-> op, sale |-> s, items |-> items, paid |-> paid, todo |-> todo,
           next |-> r, moved |-> {}] \in Txn
      BY DEF Txn
    <3>. QED  BY <3>1, <3>2 DEF TypeOK, Begun
  <2>2. ASSUME NEW w \in Worker, Update(w)  PROVE TypeOK'
    <3>1. txn[w] # Idle /\ UNCHANGED <<sale, goods, money>>
      BY <2>2 DEF Update, Updating, Tables
    <3>2. lock' \in [Row -> Worker \cup {NoWorker}]
      BY <2>2 DEF Update, TypeOK
    <3>3. txn' \in [Worker -> Txn]
      <4>. DEFINE After(r) ==
               [op |-> txn[w].op, sale |-> txn[w].sale, items |-> txn[w].items,
                paid |-> txn[w].paid, todo |-> txn[w].todo \ {txn[w].next},
                next |-> r, moved |-> txn[w].moved \cup ({txn[w].next} \cap Product)]
      <4>1. PICK r \in Row : txn' = [txn EXCEPT ![w] = After(r)]
        BY <2>2, UpdateFields
      <4>2. After(r) \in Txn
        BY <3>1, TxnFields DEF Txn
      <4>. HIDE DEF After
      <4>. QED  BY <4>1, <4>2 DEF TypeOK
    <3>. QED  BY <3>1, <3>2, <3>3 DEF TypeOK
  <2>3. ASSUME NEW w \in Worker, End(w)
        PROVE  lock' \in [Row -> Worker \cup {NoWorker}] /\ txn' \in [Worker -> Txn]
    BY <2>3 DEF End, TypeOK, Txn
  <2>4. ASSUME NEW w \in Worker, Commit(w)  PROVE TypeOK'
    <3>. DEFINE t == txn[w]
                unit == IF t.op = "createSale" THEN 1 ELSE -1
    <3>1. t # Idle /\ End(w)
      BY <2>4 DEF Commit
    <3>2. t.sale \in Sale /\ t.items \in SUBSET Product /\ t.paid \in BOOLEAN
      BY <3>1, TxnFields
    <3>3. unit \in Int
      OBVIOUS
    <3>. HIDE DEF unit
    <3>4. sale' = [sale EXCEPT ![t.sale] =
              [status |-> IF t.op = "createSale" THEN "COMPLETED" ELSE "CANCELLED",
               items |-> t.items, paid |-> t.paid]]
      BY <2>4 DEF Commit
    <3>5. goods' = [goods EXCEPT ![t.sale] =
              [p \in Product |-> goods[t.sale][p] + (IF p \in t.moved THEN unit ELSE 0)]]
      BY <2>4 DEF Commit, unit
    <3>6. money' = [money EXCEPT ![t.sale] = @ + (IF t.paid THEN unit ELSE 0)]
      BY <2>4 DEF Commit, unit
    <3>. HIDE DEF t
    <3>7. sale' \in [Sale -> SaleRow]
      BY <3>2, <3>4 DEF TypeOK, SaleRow
    <3>8. goods' \in [Sale -> [Product -> Int]]
      BY <3>2, <3>3, <3>5 DEF TypeOK
    <3>9. money' \in [Sale -> Int]
      BY <3>2, <3>3, <3>6 DEF TypeOK
    <3>. QED  BY <2>3, <3>1, <3>7, <3>8, <3>9 DEF TypeOK
  <2>5. ASSUME NEW w \in Worker, Abort(w) \/ Victim(w)  PROVE TypeOK'
    BY <2>3, <2>5 DEF Abort, Victim, Tables, TypeOK
  <2>6. CASE UNCHANGED vars
    BY <2>6 DEF TypeOK, vars
  <2>. QED  BY <2>1, <2>2, <2>4, <2>5, <2>6 DEF Next
<1>. QED  BY <1>1, <1>2, PTL DEF Spec

-----------------------------------------------------------------------------
(* No deadlock among sales                                                 *)

\* A sale goes through its products upwards.
Ordered ==
    \A w \in Worker :
        Doing(w, "createSale") =>
            /\ txn[w].todo \subseteq Product
            /\ txn[w].todo # {} =>
                  txn[w].next \in txn[w].todo /\ \A q \in txn[w].todo : txn[w].next <= q
            /\ \A p \in txn[w].moved, q \in txn[w].todo : p < q

\* Only a request in flight has rows, those of the items it has moved.
LocksHeld ==
    \A r \in Row, w \in Worker :
        lock[r] = w => txn[w] # Idle /\ (r \in Product => r \in txn[w].moved)

LockInv == TypeOK /\ Ordered /\ LocksHeld

\* A nonempty set of products has a greatest one.
LEMMA GreatestProduct ==
    ASSUME NEW S \in SUBSET Product, S # {}
    PROVE  \E p \in S : \A q \in S : q <= p
<1>. DEFINE T == {Products - p : p \in S}
            R == {ss \in Nat \X Nat : ss[1] < ss[2]}
<1>1. Products \in Nat /\ S \subseteq Nat
  BY ConstantsOK DEF Product
<1>2. T \subseteq Nat /\ T # {}
  <2>1. \A p \in S : Products - p \in Nat
    BY <1>1 DEF Product
  <2>. QED  BY <2>1
<1>3. R = OpToRel(<, Nat)
  BY DEF OpToRel
<1>4. IsWellFoundedOn(R, Nat)
  BY <1>3, NatLessThanWellFounded
<1>. HIDE DEF T, R
<1>5. PICK x \in T : \A y \in T : <<y, x>> \notin R
  BY <1>2, <1>4, WFMin
<1>6. \A y \in T : ~(y < x)
  BY <1>2, <1>5 DEF R
<1>7. PICK p \in S : x = Products - p
  BY <1>5 DEF T
<1>8. \A q \in S : ~(Products - q < Products - p)
  BY <1>6, <1>7 DEF T
<1>. QED  BY <1>1, <1>7, <1>8

\* What a finished or rolled back transaction leaves.
LEMMA EndKeepsLocks ==
    ASSUME NEW w \in Worker, LockInv, End(w)
    PROVE  Ordered' /\ LocksHeld'
<1>1. txn' = [txn EXCEPT ![w] = Idle]
  BY DEF End
<1>2. lock' = [r \in Row |-> IF lock[r] = w THEN NoWorker ELSE lock[r]]
  BY DEF End
<1>3. Ordered'
  BY <1>1 DEF LockInv, TypeOK, Ordered, Doing
<1>4. LocksHeld'
  <2>. SUFFICES ASSUME NEW r \in Row, NEW v \in Worker, lock'[r] = v
                PROVE  txn'[v] # Idle /\ (r \in Product => r \in txn'[v].moved)
    BY DEF LocksHeld
  <2>1. lock[r] = v /\ v # w
    BY <1>2, ConstantsOK
  <2>2. txn'[v] = txn[v]
    BY <1>1, <2>1 DEF LockInv, TypeOK
  <2>. QED  BY <2>1, <2>2 DEF LockInv, LocksHeld
<1>. QED  BY <1>3, <1>4

LEMMA BeginKeepsLocks ==
    ASSUME NEW w \in Worker, NEW s \in Sale, LockInv,
           BeginSale(w, s) \/ BeginCancel(w, s)
    PROVE  Ordered' /\ LocksHeld'
<1>1. PICK op \in {"createSale", "cancelSale"}, items \in SUBSET Product, paid \in BOOLEAN,
           todo \in SUBSET Row, r \in Row : Begun(w, op, s, items, paid, todo, r)
  BY BeginFields DEF LockInv
<1>. DEFINE t == [op |-> op, sale |-> s, items |-> items, paid |-> paid, todo |-> todo,
                  next |-> r, moved |-> {}]
<1>2. txn' = [txn EXCEPT ![w] = t] /\ txn[w] = Idle /\ lock' = lock
  BY <1>1 DEF Begun
<1>3. op = "createSale" => todo \subseteq Product /\ r \in todo /\ \A q \in todo : r <= q
  BY <1>1 DEF Begun, First
<1>4. t.op = op /\ t.todo = todo /\ t.next = r /\ t.moved = {}
  OBVIOUS
<1>. HIDE DEF t
<1>5. Ordered'
  BY <1>2, <1>3, <1>4 DEF LockInv, TypeOK, Ordered, Doing
<1>6. LocksHeld'
  BY <1>2 DEF LockInv, TypeOK, LocksHeld
<1>. QED  BY <1>5, <1>6

LEMMA UpdateKeepsLocks ==
    ASSUME NEW w \in Worker, LockInv, Update(w)
    PROVE  Ordered' /\ LocksHeld'
<1>. DEFINE rest == txn[w].todo \ {txn[w].next}
            t(r) == [op |-> txn[w].op, sale |-> txn[w].sale, items |-> txn[w].items,
                     paid |-> txn[w].paid, todo |-> rest, next |-> r,
                     moved |-> txn[w].moved \cup ({txn[w].next} \cap Product)]
<1>1. TypeOK /\ Ordered /\ LocksHeld
  BY DEF LockInv
<1>2. txn[w] # Idle /\ txn[w].todo # {} /\ lock' = [lock EXCEPT ![txn[w].next] = w]
  BY DEF Update, Updating
<1>3. PICK r \in Row :
          /\ txn' = [txn EXCEPT ![w] = t(r)]
          /\ rest # {} => r \in First(txn[w].op, txn[w].sale, rest)
  BY <1>1, UpdateFields
<1>4. /\ t(r).op = txn[w].op /\ t(r).todo = rest /\ t(r).next = r
      /\ t(r).moved = txn[w].moved \cup ({txn[w].next} \cap Product)
      /\ t(r) # Idle
  <2>1. DOMAIN t(r) # DOMAIN Idle
    BY DEF Idle
  <2>. QED  BY <2>1
<1>. HIDE DEF t
<1>5. txn'[w] = t(r) /\ \A v \in Worker \ {w} : txn'[v] = txn[v]
  BY <1>1, <1>3 DEF TypeOK
<1>6. Ordered'
  <2>. SUFFICES ASSUME Doing(w, "createSale")
                PROVE  /\ rest \subseteq Product
                       /\ rest # {} => r \in rest /\ \A q \in rest : r <= q
                       /\ \A p \in t(r).moved, q \in rest : p < q
    BY <1>1, <1>2, <1>4, <1>5 DEF Ordered, Doing
  <2>1. /\ txn[w].todo \subseteq Product
        /\ txn[w].next \in txn[w].todo /\ \A q \in txn[w].todo : txn[w].next <= q
        /\ \A p \in txn[w].moved, q \in txn[w].todo : p < q
    BY <1>1, <1>2 DEF Ordered
  <2>2. rest # {} => r \in rest /\ \A q \in rest : r <= q
    BY <1>3 DEF First, Doing
  <2>3. \A q \in rest : txn[w].next < q
    BY <2>1 DEF Product
  <2>. QED  BY <1>4, <2>1, <2>2, <2>3
<1>7. LocksHeld'
  <2>. SUFFICES ASSUME NEW q \in Row, NEW v \in Worker, lock'[q] = v
                PROVE  txn'[v] # Idle /\ (q \in Product => q \in txn'[v].moved)
    BY DEF LocksHeld
  <2>1. CASE q = txn[w].next
    <3>1. v = w
      BY <1>1, <1>2, <2>1 DEF TypeOK
    <3>. QED  BY <1>4, <1>5, <2>1, <3>1
  <2>2. CASE q # txn[w].next
    <3>1. lock[q] = v
      BY <1>1, <1>2, <2>2 DEF TypeOK
    <3>2. txn[v] # Idle /\ (q \in Product => q \in txn[v].moved)
      BY <1>1, <3>1 DEF LocksHeld
    <3>. QED  BY <1>4, <1>5, <3>2
  <2>. QED  BY <2>1, <2>2
<1>. QED  BY <1>6, <1>7

\* A row lock is held by the request that moved the row, and a sale only waits for
\* a product after those it has moved (pos.service.ts:792-804).
THEOREM LocksOrdered == Spec => []LockInv
<1>1. Init => LockInv
  <2>1. Init => TypeOK
    BY DEF Init, TypeOK, SaleRow, Txn
  <2>2. Init => Ordered /\ LocksHeld
    BY ConstantsOK DEF Init, Ordered, Doing, LocksHeld
  <2>. QED  BY <2>1, <2>2 DEF LockInv
<1>2. LockInv /\ TypeOK' /\ [Next]_vars => LockInv'
  <2>. SUFFICES ASSUME LockInv, TypeOK', [Next]_vars  PROVE Ordered' /\ LocksHeld'
    BY DEF LockInv
  <2>1. ASSUME NEW w \in Worker, NEW s \in Sale, BeginSale(w, s) \/ BeginCancel(w, s)
        PROVE  Ordered' /\ LocksHeld'
    BY <2>1, BeginKeepsLocks
  <2>2. ASSUME NEW w \in Worker, Update(w)  PROVE Ordered' /\ LocksHeld'
    BY <2>2, UpdateKeepsLocks
  <2>3. ASSUME NEW w \in Worker, Commit(w) \/ Abort(w) \/ Victim(w)
        PROVE  Ordered' /\ LocksHeld'
    BY <2>3, EndKeepsLocks DEF Commit, Abort, Victim
  <2>4. CASE UNCHANGED vars
    BY <2>4 DEF vars, LockInv, Ordered, Doing, LocksHeld
  <2>. QED  BY <2>1, <2>2, <2>3, <2>4 DEF Next
<1>. QED  BY <1>1, <1>2, TypeCorrect, PTL DEF Spec

\* Sales never wait for each other in a circle, however many of them have however
\* many products in common (pos.service.ts:792-804): the one that waits for the
\* greatest product waits for a sale that has it, and waits for a greater one.
THEOREM NoDeadlockAmongSales == Spec => []SalesNeverDeadlock
<1>1. LockInv => SalesNeverDeadlock
  <2>. SUFFICES ASSUME LockInv, NEW c \in SUBSET Worker, Deadlocked(c),
                       \A w \in c : txn[w].op # "cancelSale"
                PROVE  FALSE
    BY DEF SalesNeverDeadlock
  <2>1. \A w \in c : /\ Doing(w, "createSale")
                     /\ txn[w].todo # {}
                     /\ lock[txn[w].next] \in c
    BY TxnFields DEF Deadlocked, Waiting, Updating, Doing, LockInv
  <2>2. \A w \in c : txn[w].next \in txn[w].todo /\ txn[w].next \in Product
    BY <2>1 DEF LockInv, Ordered
  <2>. DEFINE S == {txn[w].next : w \in c}
  <2>3. S \in SUBSET Product /\ S # {}
    BY <2>2 DEF Deadlocked
  <2>4. PICK w \in c : \A v \in c : txn[v].next <= txn[w].next
    BY <2>3, GreatestProduct
  <2>. DEFINE v == lock[txn[w].next]
  <2>5. v \in c
    BY <2>1
  <2>6. txn[w].next \in txn[v].moved
    BY <2>2, <2>5 DEF LockInv, LocksHeld, Row
  <2>7. txn[w].next < txn[v].next
    BY <2>1, <2>2, <2>5, <2>6 DEF LockInv, Ordered
  <2>8. txn[w].next \in Int /\ txn[v].next \in Int
    BY <2>2, <2>5 DEF Product
  <2>. QED  BY <2>4, <2>5, <2>7, <2>8
<1>. QED  BY <1>1, LocksOrdered, PTL

-----------------------------------------------------------------------------
(* Goods and money                                                         *)

\* What a request in flight will write: the items it has not moved are still
\* to do; a new sale is its own; a cancellation knows what was sold.
RequestsKnow ==
    \A w \in Worker :
        txn[w] # Idle =>
            /\ txn[w].todo # {} => txn[w].next \in txn[w].todo
            /\ txn[w].items = txn[w].moved \cup (txn[w].todo \cap Product)
            /\ txn[w].op = "createSale" =>
                  /\ sale[txn[w].sale].status = "NONE"
                  /\ \A v \in Worker \ {w} : txn[v] # Idle => txn[v].sale # txn[w].sale
            /\ txn[w].op = "cancelSale" =>
                  /\ sale[txn[w].sale].status # "NONE"
                  /\ txn[w].items = sale[txn[w].sale].items
                  /\ txn[w].paid = sale[txn[w].sale].paid

\* A sale that was not made has moved nothing.
NothingYet ==
    \A s \in Sale :
        sale[s].status = "NONE" =>
            /\ sale[s].items = {}
            /\ money[s] = 0
            /\ \A p \in Product : goods[s][p] = 0

BookInv == RequestsKnow /\ NothingYet /\ GoodsFollowMoney

LEMMA BeginKeepsBooks ==
    ASSUME NEW w \in Worker, NEW s \in Sale, TypeOK, BookInv,
           BeginSale(w, s) \/ BeginCancel(w, s)
    PROVE  BookInv'
<1>1. PICK op \in {"createSale", "cancelSale"}, items \in SUBSET Product, paid \in BOOLEAN,
           todo \in SUBSET Row, r \in Row : Begun(w, op, s, items, paid, todo, r)
  BY BeginFields
<1>. DEFINE t == [op |-> op, sale |-> s, items |-> items, paid |-> paid, todo |-> todo,
                  next |-> r, moved |-> {}]
<1>2. txn' = [txn EXCEPT ![w] = t] /\ txn[w] = Idle /\ UNCHANGED <<sale, goods, money>>
  BY <1>1 DEF Begun
<1>3. /\ t.op = op /\ t.sale = s /\ t.items = items /\ t.paid = paid
      /\ t.todo = todo /\ t.next = r /\ t.moved = {}
  OBVIOUS
<1>4. t.items = t.moved \cup (t.todo \cap Product) /\ t.next \in t.todo
  BY <1>1, <1>3, ConstantsOK DEF Begun, First
<1>5. t.op = "createSale" => sale[s].status = "NONE" /\ \A v \in InFlight : txn[v].sale # s
  BY <1>1, <1>3 DEF Begun
<1>6. t.op = "cancelSale" =>
          sale[s].status # "NONE" /\ t.items = sale[s].items /\ t.paid = sale[s].paid
  BY <1>1, <1>3 DEF Begun
<1>7. t.sale = s /\ t.op \in {"createSale", "cancelSale"}
  BY <1>3
<1>. HIDE DEF t
<1>8. txn'[w] = t /\ \A v \in Worker \ {w} : txn'[v] = txn[v]
  BY <1>2 DEF TypeOK
<1>9. RequestsKnow'
  <2>. SUFFICES ASSUME NEW v \in Worker, txn'[v] # Idle
                PROVE  /\ txn'[v].todo # {} => txn'[v].next \in txn'[v].todo
                       /\ txn'[v].items = txn'[v].moved \cup (txn'[v].todo \cap Product)
                       /\ txn'[v].op = "createSale" =>
                             /\ sale[txn'[v].sale].status = "NONE"
                             /\ \A u \in Worker \ {v} :
                                   txn'[u] # Idle => txn'[u].sale # txn'[v].sale
                       /\ txn'[v].op = "cancelSale" =>
                             /\ sale[txn'[v].sale].status # "NONE"
                             /\ txn'[v].items = sale[txn'[v].sale].items
                             /\ txn'[v].paid = sale[txn'[v].sale].paid
    BY <1>2 DEF RequestsKnow
  <2>1. CASE v = w
    BY <1>4, <1>5, <1>6, <1>7, <1>8, <2>1 DEF InFlight
  <2>2. CASE v # w
    <3>1. txn'[v] = txn[v] /\ txn[v] # Idle
      BY <1>8, <2>2
    <3>2. txn[v].op = "createSale" => txn[v].sale # s
      BY <1>5, <1>6, <1>7, <3>1 DEF BookInv, RequestsKnow, InFlight
    <3>. QED  BY <1>7, <1>8, <3>1, <3>2 DEF BookInv, RequestsKnow
  <2>. QED  BY <2>1, <2>2
<1>. QED  BY <1>2, <1>9 DEF BookInv, NothingYet, GoodsFollowMoney

LEMMA UpdateKeepsBooks ==
    ASSUME NEW w \in Worker, LockInv, BookInv, Update(w)
    PROVE  BookInv'
<1>. DEFINE rest == txn[w].todo \ {txn[w].next}
            t(r) == [op |-> txn[w].op, sale |-> txn[w].sale, items |-> txn[w].items,
                     paid |-> txn[w].paid, todo |-> rest, next |-> r,
                     moved |-> txn[w].moved \cup ({txn[w].next} \cap Product)]
<1>1. TypeOK /\ txn[w] # Idle /\ UNCHANGED <<sale, goods, money>>
  BY DEF Update, Updating, Tables, LockInv
<1>2. PICK r \in Row :
          /\ txn' = [txn EXCEPT ![w] = t(r)]
          /\ rest # {} => r \in First(txn[w].op, txn[w].sale, rest)
  BY <1>1, UpdateFields
<1>3. /\ t(r).op = txn[w].op /\ t(r).sale = txn[w].sale /\ t(r).items = txn[w].items
      /\ t(r).paid = txn[w].paid /\ t(r).todo = rest /\ t(r).next = r
      /\ t(r).moved = txn[w].moved \cup ({txn[w].next} \cap Product)
  OBVIOUS
<1>. HIDE DEF t
<1>4. txn'[w] = t(r) /\ \A v \in Worker \ {w} : txn'[v] = txn[v]
  BY <1>1, <1>2 DEF TypeOK
<1>5. txn[w].next \in Product => txn[w].next \in txn[w].items
  BY <1>1 DEF BookInv, RequestsKnow, Update, Updating
<1>6. rest # {} => r \in rest
  BY <1>2 DEF First
<1>7. RequestsKnow'
  <2>1. (rest \cap Product) \cup t(r).moved = txn[w].items
    BY <1>1, <1>3, <1>5 DEF BookInv, RequestsKnow
  <2>. QED  BY <1>1, <1>3, <1>4, <1>6, <2>1 DEF BookInv, RequestsKnow
<1>. QED  BY <1>1, <1>7 DEF BookInv, NothingYet, GoodsFollowMoney

LEMMA EndKeepsRequests ==
    ASSUME NEW w \in Worker, TypeOK, RequestsKnow, End(w),
           \A s \in Sale : sale'[s] = sale[s]
    PROVE  RequestsKnow'
BY TxnFields DEF TypeOK, RequestsKnow, End

\* The commit writes one unit of every item, and of the money if it was paid.
LEMMA CommitFields ==
    ASSUME NEW w \in Worker, TypeOK, BookInv, Commit(w)
    PROVE  \E unit \in {1, -1}, s \in Sale :
              /\ txn[w] # Idle /\ End(w)
              /\ s = txn[w].sale
              /\ unit = 1 <=> txn[w].op = "createSale"
              /\ \A i \in Sale \ {s} :
                    sale'[i] = sale[i] /\ goods'[i] = goods[i] /\ money'[i] = money[i]
              /\ sale'[s] = [status |-> IF unit = 1 THEN "COMPLETED" ELSE "CANCELLED",
                            items |-> txn[w].items, paid |-> txn[w].paid]
              /\ \A p \in Product :
                    goods'[s][p] = goods[s][p] + (IF p \in txn[w].items THEN unit ELSE 0)
              /\ money'[s] = money[s] + (IF txn[w].paid THEN unit ELSE 0)
<1>. DEFINE t == txn[w]
            unit == IF t.op = "createSale" THEN 1 ELSE -1
<1>1. t # Idle /\ t.todo = {} /\ End(w)
  BY DEF Commit
<1>2. t.sale \in Sale /\ t.moved = t.items
  BY <1>1, TxnFields DEF BookInv, RequestsKnow
<1>3. unit \in {1, -1} /\ (unit = 1 <=> t.op = "createSale")
  OBVIOUS
<1>4. sale' = [sale EXCEPT ![t.sale] =
          [status |-> IF unit = 1 THEN "COMPLETED" ELSE "CANCELLED",
           items |-> t.items, paid |-> t.paid]]
  <2>1. sale' = [sale EXCEPT ![t.sale] =
            [status |-> IF t.op = "createSale" THEN "COMPLETED" ELSE "CANCELLED",
             items |-> t.items, paid |-> t.paid]]
    BY DEF Commit
  <2>2. (IF t.op = "createSale" THEN "COMPLETED" ELSE "CANCELLED") =
            (IF unit = 1 THEN "COMPLETED" ELSE "CANCELLED")
    OBVIOUS
  <2>. QED  BY <2>1, <2>2
<1>5. goods' = [goods EXCEPT ![t.sale] =
          [p \in Product |-> goods[t.sale][p] + (IF p \in t.items THEN unit ELSE 0)]]
  BY <1>2 DEF Commit
<1>6. money' = [money EXCEPT ![t.sale] = @ + (IF t.paid THEN unit ELSE 0)]
  BY DEF Commit
<1>. HIDE DEF t, unit
<1>7. \A i \in Sale \ {t.sale} :
          sale'[i] = sale[i] /\ goods'[i] = goods[i] /\ money'[i] = money[i]
  BY <1>4, <1>5, <1>6 DEF TypeOK
<1>8. /\ sale'[t.sale] = [status |-> IF unit = 1 THEN "COMPLETED" ELSE "CANCELLED",
                          items |-> t.items, paid |-> t.paid]
      /\ \A p \in Product :
            goods'[t.sale][p] = goods[t.sale][p] + (IF p \in t.items THEN unit ELSE 0)
      /\ money'[t.sale] = money[t.sale] + (IF t.paid THEN unit ELSE 0)
  BY <1>2, <1>4, <1>5, <1>6 DEF TypeOK
<1>9. /\ t.sale \in Sale /\ unit \in {1, -1}
      /\ t # Idle /\ End(w) /\ (unit = 1 <=> t.op = "createSale")
  BY <1>1, <1>2, <1>3
<1>. QED  BY <1>7, <1>8, <1>9 DEF t

LEMMA CommitKeepsBooks ==
    ASSUME NEW w \in Worker, TypeOK, BookInv, Commit(w)
    PROVE  BookInv'
<1>1. PICK unit \in {1, -1}, s \in Sale :
              /\ txn[w] # Idle /\ End(w)
              /\ s = txn[w].sale
              /\ unit = 1 <=> txn[w].op = "createSale"
              /\ \A i \in Sale \ {s} :
                    sale'[i] = sale[i] /\ goods'[i] = goods[i] /\ money'[i] = money[i]
              /\ sale'[s] = [status |-> IF unit = 1 THEN "COMPLETED" ELSE "CANCELLED",
                            items |-> txn[w].items, paid |-> txn[w].paid]
              /\ \A p \in Product :
                    goods'[s][p] = goods[s][p] + (IF p \in txn[w].items THEN unit ELSE 0)
              /\ money'[s] = money[s] + (IF txn[w].paid THEN unit ELSE 0)
  BY CommitFields
<1>2. /\ sale'[s].status = IF unit = 1 THEN "COMPLETED" ELSE "CANCELLED"
      /\ sale'[s].items = txn[w].items
      /\ sale'[s].paid = txn[w].paid
  BY <1>1
<1>3. CASE unit = 1
  <2>1. /\ sale[s].status = "NONE" /\ sale[s].items = {}
        /\ \A v \in Worker \ {w} : txn[v] # Idle => txn[v].sale # s
        /\ \A p \in Product : goods[s][p] = 0
        /\ money[s] = 0
    BY <1>1, <1>3 DEF BookInv, RequestsKnow, NothingYet
  <2>2. \A v \in Worker : txn'[v] # Idle => v # w /\ txn'[v] = txn[v] /\ txn[v].sale # s
    BY <1>1, <2>1 DEF End, TypeOK
  <2>3. \A v \in Worker : txn'[v] # Idle => sale'[txn'[v].sale] = sale[txn'[v].sale]
    <3>. SUFFICES ASSUME NEW v \in Worker, txn'[v] # Idle
                  PROVE  sale'[txn[v].sale] = sale[txn[v].sale]
      BY <2>2
    <3>1. txn[v].sale \in Sale /\ txn[v].sale # s
      BY <2>2, TxnFields
    <3>. QED  BY <1>1, <3>1
  <2>4. RequestsKnow'
    BY <2>2, <2>3 DEF BookInv, RequestsKnow
  <2>5. NothingYet'
    BY <1>1, <1>2, <1>3 DEF BookInv, NothingYet
  <2>6. GoodsFollowMoney'
    <3>. SUFFICES ASSUME NEW i \in Sale, NEW p \in Product
                  PROVE  IF p \in sale'[i].items
                         THEN /\ sale'[i].paid => goods'[i][p] = money'[i]
                              /\ \A q \in sale'[i].items : goods'[i][p] = goods'[i][q]
                              /\ sale'[i].status = "COMPLETED" => goods'[i][p] = 1
                              /\ sale'[i].status = "CANCELLED" => goods'[i][p] <= 0
                         ELSE goods'[i][p] = 0
      BY DEF GoodsFollowMoney
    <3>1. CASE i # s
      BY <1>1, <3>1 DEF BookInv, GoodsFollowMoney
    <3>2. CASE i = s
      <4>1. txn[w].items \subseteq Product
        BY <1>1, TxnFields
      <4>2. \A q \in Product : goods'[s][q] = IF q \in txn[w].items THEN 1 ELSE 0
        BY <1>1, <1>3, <2>1
      <4>3. txn[w].paid => money'[s] = 1
        BY <1>1, <1>3, <2>1
      <4>. QED  BY <1>2, <1>3, <3>2, <4>1, <4>2, <4>3
    <3>. QED  BY <3>1, <3>2
  <2>. QED  BY <2>4, <2>5, <2>6 DEF BookInv
<1>4. CASE unit = -1
  <2>1. /\ sale[s].status \in {"COMPLETED", "CANCELLED"}
        /\ txn[w].items = sale[s].items /\ txn[w].paid = sale[s].paid
    BY <1>1, <1>4, TxnFields DEF BookInv, RequestsKnow, TypeOK, SaleRow
  <2>2. \A v \in Worker : txn'[v] # Idle => v # w /\ txn'[v] = txn[v]
    BY <1>1 DEF End, TypeOK
  <2>3. \A v \in Worker : txn[v] # Idle /\ txn[v].sale = s => txn[v].op = "cancelSale"
    BY <2>1, TxnFields DEF BookInv, RequestsKnow
  <2>4. sale'[s].status # "NONE" /\ sale'[s].items = sale[s].items /\ sale'[s].paid = sale[s].paid
    BY <1>2, <1>4, <2>1
  <2>5. RequestsKnow'
    <3>. SUFFICES ASSUME NEW v \in Worker, txn'[v] # Idle
                  PROVE  /\ txn[v].todo # {} => txn[v].next \in txn[v].todo
                         /\ txn[v].items = txn[v].moved \cup (txn[v].todo \cap Product)
                         /\ txn[v].op = "createSale" =>
                               /\ sale'[txn[v].sale].status = "NONE"
                               /\ \A u \in Worker \ {v} :
                                     txn'[u] # Idle => txn'[u].sale # txn[v].sale
                         /\ txn[v].op = "cancelSale" =>
                               /\ sale'[txn[v].sale].status # "NONE"
                               /\ txn[v].items = sale'[txn[v].sale].items
                               /\ txn[v].paid = sale'[txn[v].sale].paid
      BY <2>2 DEF RequestsKnow
    <3>1. txn[v] # Idle /\ txn'[v] = txn[v]
      BY <2>2
    <3>2. CASE txn[v].sale = s
      BY <2>3, <2>4, <3>1, <3>2 DEF BookInv, RequestsKnow
    <3>3. CASE txn[v].sale # s
      <4>1. sale'[txn[v].sale] = sale[txn[v].sale]
        BY <1>1, <3>1, <3>3, TxnFields
      <4>. QED  BY <2>2, <3>1, <4>1 DEF BookInv, RequestsKnow
    <3>. QED  BY <3>2, <3>3
  <2>6. NothingYet'
    BY <1>1, <2>4 DEF BookInv, NothingYet
  <2>7. GoodsFollowMoney'
    <3>. SUFFICES ASSUME NEW i \in Sale, NEW p \in Product
                  PROVE  IF p \in sale'[i].items
                         THEN /\ sale'[i].paid => goods'[i][p] = money'[i]
                              /\ \A q \in sale'[i].items : goods'[i][p] = goods'[i][q]
                              /\ sale'[i].status = "COMPLETED" => goods'[i][p] = 1
                              /\ sale'[i].status = "CANCELLED" => goods'[i][p] <= 0
                         ELSE goods'[i][p] = 0
      BY DEF GoodsFollowMoney
    <3>1. CASE i # s
      BY <1>1, <3>1 DEF BookInv, GoodsFollowMoney
    <3>2. CASE i = s
      <4>1. sale[s].items \subseteq Product /\ \A q \in Product : goods[s][q] \in Int
        BY DEF TypeOK, SaleRow
      <4>. QED  BY <1>1, <1>2, <1>4, <2>1, <3>2, <4>1 DEF BookInv, GoodsFollowMoney, TypeOK
    <3>. QED  BY <3>1, <3>2
  <2>. QED  BY <2>5, <2>6, <2>7 DEF BookInv
<1>. QED  BY <1>3, <1>4

\* All the movements of a sale, of goods and of money, are those of its making and
\* of the same number of cancellations, whatever overlaps and is rolled back
\* (pos.service.ts:663-911, 941-1001): what is in flight knows what was sold, and
\* has moved each item when nothing is left to do.
THEOREM GoodsAndMoneyTogether == Spec => []GoodsFollowMoney
<1>1. Init => BookInv
  BY DEF Init, BookInv, RequestsKnow, NothingYet, GoodsFollowMoney
<1>2. LockInv /\ BookInv /\ [Next]_vars => BookInv'
  <2>. SUFFICES ASSUME LockInv, BookInv, [Next]_vars  PROVE BookInv'
    OBVIOUS
  <2>. USE DEF LockInv
  <2>1. ASSUME NEW w \in Worker, NEW s \in Sale, BeginSale(w, s) \/ BeginCancel(w, s)
        PROVE  BookInv'
    BY <2>1, BeginKeepsBooks
  <2>2. ASSUME NEW w \in Worker, Update(w)  PROVE BookInv'
    BY <2>2, UpdateKeepsBooks
  <2>3. ASSUME NEW w \in Worker, Commit(w)  PROVE BookInv'
    BY <2>3, CommitKeepsBooks
  <2>4. ASSUME NEW w \in Worker, Abort(w) \/ Victim(w)  PROVE BookInv'
    <3>1. End(w) /\ UNCHANGED <<sale, goods, money>>
      BY <2>4 DEF Abort, Victim, Tables
    <3>2. RequestsKnow'
      BY <3>1, EndKeepsRequests DEF BookInv
    <3>. QED  BY <3>1, <3>2 DEF BookInv, NothingYet, GoodsFollowMoney
  <2>5. CASE UNCHANGED vars
    BY <2>5 DEF vars, BookInv, RequestsKnow, NothingYet, GoodsFollowMoney
  <2>. QED  BY <2>1, <2>2, <2>3, <2>4, <2>5 DEF Next
<1>3. BookInv => GoodsFollowMoney
  BY DEF BookInv
<1>. QED  BY <1>1, <1>2, <1>3, LocksOrdered, PTL DEF Spec
=============================================================================
