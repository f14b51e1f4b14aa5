--------------------------- MODULE InventoryProofs --------------------------
(***************************************************************************)
(* Theorems about Inventory, for every value of its constants.             *)
(***************************************************************************)
EXTENDS Inventory, Sums, TLAPS

(* Rounding to the step of a column.                                       *)
LEMMA DivNat == ASSUME NEW a \in Nat, NEW b \in Nat \ {0} PROVE a \div b \in Nat
OBVIOUS

LEMMA TimesNat == ASSUME NEW a \in Nat, NEW b \in Nat PROVE a * b \in Nat
OBVIOUS

\* What a column keeps of a quantity that is not negative is not negative.
LEMMA StoreNat == ASSUME NEW x \in Nat PROVE Store(x) \in Nat
<1>. DEFINE k == (2 * x + Grain) \div (2 * Grain)
<1>1. 2 * x + Grain \in Nat /\ 2 * Grain \in Nat \ {0}
  BY ConstantsOK
<1>2. k \in Nat
  BY <1>1, DivNat
<1>. HIDE DEF k
<1>3. k * Grain \in Nat
  BY <1>2, ConstantsOK, TimesNat
<1>4. QED
  BY <1>3 DEF Store, k

\* At whole steps of the columns nothing is rounded.
LEMMA StoreExact == ASSUME Grain = 1, NEW x \in Nat PROVE Store(x) = x
BY DEF Store

(* The invariant: no stock is negative, and what a transaction in flight   *)
(* will subtract is covered by the stock it read.                          *)
ReadsCover ==
    \A w \in Worker :
        /\ txn[w].op = "createSale" =>
               \A p \in Product : /\ txn[w].items[p] = 0 => txn[w].taken[p] = 0
                                  /\ txn[w].taken[p] <= txn[w].onHand[p]
        /\ txn[w].op \in {"addStock", "adjustStock", "wasteStock"} => txn[w].previous \in Nat
        /\ txn[w].op = "wasteStock" => txn[w].quantity <= txn[w].previous
StockInv == NonNegativeStock /\ ReadsCover

\* What a transaction has read is typed by its operation.
LEMMA TxnFields ==
    ASSUME TypeOK, NEW w \in Worker
    PROVE  /\ txn[w].op = "createSale" =>
                /\ txn[w].items \in [Product -> Nat] /\ txn[w].taken \in [Product -> Nat]
                /\ txn[w].onHand \in [Product -> Int]
           /\ txn[w].op = "cancelSale" => txn[w].sale \in Sale
           /\ txn[w].op \in {"addStock", "adjustStock", "wasteStock"} =>
                /\ txn[w].product \in Product /\ txn[w].previous \in Int
                /\ txn[w].quantity \in Nat
<1>1. txn[w] \in Txn
  BY DEF TypeOK
<1>2. QED
  BY <1>1 DEF Txn, Idle

ReadStep(w) ==
    \/ ReadSale(w) \/ (\E i \in Sale : ReadCancelSale(w, i))
    \/ ReadAddStock(w) \/ ReadAdjustStock(w) \/ ReadWasteStock(w)
CommitStep(w) ==
    \/ (\E i \in Sale : CommitSale(w, i)) \/ CommitCancelSale(w)
    \/ CommitAddStock(w) \/ CommitAdjustStock(w) \/ CommitWasteStock(w)

LEMMA NextSteps ==
    ASSUME Next
    PROVE  \E w \in Worker : ReadStep(w) \/ CommitStep(w) \/ Abort(w)
BY DEF Next, ReadStep, CommitStep

\* The shape of what ReadSale takes into the transaction.
LEMMA ReadSaleFacts ==
    ASSUME TypeOK, StockInv, NEW w \in Worker, ReadSale(w)
    PROVE  /\ UNCHANGED Tables
           /\ \E t \in Txn :
                /\ Begin(w, t) /\ t.op = "createSale"
                /\ \A p \in Product :
                     /\ t.items[p] = 0 => t.taken[p] = 0
                     /\ t.taken[p] <= t.onHand[p]
                     /\ t.onHand[p] = inventory[p].current
                     /\ ~AllowUnderWeight => t.items[p] <= t.taken[p]
<1>1. PICK asked \in [Product -> Quantity \cup {0}], taken \in [Product -> Quantity \cup {0}],
           override \in BOOLEAN :
        /\ \A p \in Product :
              IF asked[p] = 0 THEN taken[p] = 0
              ELSE taken[p] \in Taken(p, asked[p], override)
        /\ Begin(w, [op |-> "createSale", items |-> asked, taken |-> taken,
                     onHand |-> [p \in Product |-> inventory[p].current]])
        /\ UNCHANGED Tables
  BY DEF ReadSale
<1>. DEFINE onHand == [p \in Product |-> inventory[p].current]
            t == [op |-> "createSale", items |-> asked, taken |-> taken, onHand |-> onHand]
<1>2. onHand \in [Product -> Int]
  BY DEF TypeOK, InventoryRow
<1>3. asked \in [Product -> Nat] /\ taken \in [Product -> Nat]
  <2>1. \A q \in Quantity \cup {0} : q \in Nat
    BY ConstantsOK
  <2>2. QED
    BY <2>1
<1>4. t \in Txn
  BY <1>2, <1>3 DEF Txn
<1>5. ASSUME NEW p \in Product
      PROVE  /\ asked[p] = 0 => taken[p] = 0
             /\ taken[p] <= onHand[p]
             /\ onHand[p] = inventory[p].current
             /\ ~AllowUnderWeight => asked[p] <= taken[p]
  <2>1. CASE asked[p] = 0
    BY <1>1, <2>1 DEF StockInv, NonNegativeStock
  <2>2. CASE asked[p] # 0
    <3>1. taken[p] \in Stated(p, asked[p], override) /\ taken[p] <= inventory[p].current
      BY <1>1, <2>2 DEF Taken
    <3>2. ~AllowUnderWeight => asked[p] <= taken[p]
      BY <1>3, <3>1, ConstantsOK DEF Stated
    <3>3. QED
      BY <2>2, <3>1, <3>2
  <2>3. QED
    BY <2>1, <2>2
<1>6. /\ t.op = "createSale" /\ t.items = asked /\ t.taken = taken /\ t.onHand = onHand
      /\ Begin(w, t)
  BY <1>1
<1>. HIDE DEF t, onHand
<1>7. QED
  BY <1>1, <1>4, <1>5, <1>6

\* What each commit does to the row of one product.
Row(p, c, i, o, l) ==
    /\ inventory'[p].current = c /\ inventory'[p].totalIn = i
    /\ inventory'[p].totalOut = o /\ inventory'[p].lost = l

\* A table of rows written column by column is typed.
LEMMA RowsTyped ==
    ASSUME NEW rows, rows = [p \in Product |-> rows[p]],
           \A p \in Product : rows[p] \in InventoryRow
    PROVE  rows \in [Product -> InventoryRow]
OBVIOUS

LEMMA SaleEffect ==
    ASSUME TypeOK, StockInv, NEW w \in Worker, NEW i \in Sale, CommitSale(w, i)
    PROVE  /\ inventory' \in [Product -> InventoryRow]
           /\ \A p \in Product :
                LET t == txn[w] IN
                IF t.items[p] = 0 THEN inventory'[p] = inventory[p]
                ELSE Row(p, Store(t.onHand[p] - t.taken[p]), inventory[p].totalIn,
                         Store(inventory[p].totalOut + t.taken[p]), inventory[p].lost)
           /\ \A p \in Product : inventory'[p].current >= 0
<1>. DEFINE t == txn[w]
<1>1. /\ t.op = "createSale"
      /\ t.items \in [Product -> Nat] /\ t.taken \in [Product -> Nat]
      /\ t.onHand \in [Product -> Int]
      /\ \A p \in Product : t.taken[p] <= t.onHand[p]
  BY TxnFields DEF CommitSale, StockInv, ReadsCover
<1>2. ASSUME NEW p \in Product
      PROVE  /\ inventory'[p] \in InventoryRow /\ inventory'[p].current >= 0
             /\ IF t.items[p] = 0 THEN inventory'[p] = inventory[p]
                ELSE Row(p, Store(t.onHand[p] - t.taken[p]), inventory[p].totalIn,
                         Store(inventory[p].totalOut + t.taken[p]), inventory[p].lost)
  <2>1. inventory[p] \in InventoryRow /\ inventory[p].totalOut \in Nat
        /\ inventory[p].current >= 0
    BY DEF TypeOK, InventoryRow, StockInv, NonNegativeStock
  <2>2. CASE t.items[p] = 0
    BY <2>1, <2>2 DEF CommitSale
  <2>3. CASE t.items[p] # 0
    <3>. DEFINE c == Store(t.onHand[p] - t.taken[p])
                o == Store(inventory[p].totalOut + t.taken[p])
    <3>1. t.onHand[p] - t.taken[p] \in Nat /\ inventory[p].totalOut + t.taken[p] \in Nat
      BY <1>1, <2>1
    <3>2. c \in Nat /\ o \in Nat
      BY <3>1, StoreNat
    <3>3. inventory'[p] = [inventory[p] EXCEPT !.current = c, !.totalOut = o]
      BY <2>3 DEF CommitSale
    <3>. HIDE DEF c, o
    <3>4. c \in Int /\ o \in Nat
      BY <3>2
    <3>5. /\ inventory'[p] \in InventoryRow /\ inventory'[p].current = c
          /\ inventory'[p].totalOut = o /\ inventory'[p].totalIn = inventory[p].totalIn
          /\ inventory'[p].lost = inventory[p].lost
      BY <2>1, <3>4, <3>3 DEF InventoryRow
    <3>6. Row(p, c, inventory[p].totalIn, o, inventory[p].lost)
      BY <3>5 DEF Row
    <3>7. inventory'[p].current >= 0
      BY <3>2, <3>5
    <3>8. QED
      BY <2>3, <3>5, <3>6, <3>7 DEF c, o
  <2>4. QED
    BY <2>2, <2>3
<1>3. inventory' = [p \in Product |-> inventory'[p]]
  BY DEF CommitSale
<1>4. QED
  BY <1>2, <1>3, RowsTyped

LEMMA CancelEffect ==
    ASSUME TypeOK, StockInv, NEW w \in Worker, CommitCancelSale(w)
    PROVE  /\ inventory' \in [Product -> InventoryRow]
           /\ \A p \in Product :
                Row(p, Store(inventory[p].current + sale[txn[w].sale].items[p]),
                    inventory[p].totalIn, inventory[p].totalOut, inventory[p].lost)
           /\ \A p \in Product : inventory'[p].current >= 0
<1>. DEFINE items == sale[txn[w].sale].items
<1>1. items \in [Product -> Nat]
  BY TxnFields DEF CommitCancelSale, TypeOK, SaleRow
<1>2. ASSUME NEW p \in Product
      PROVE  /\ inventory'[p] \in InventoryRow /\ inventory'[p].current >= 0
             /\ Row(p, Store(inventory[p].current + items[p]),
                    inventory[p].totalIn, inventory[p].totalOut, inventory[p].lost)
  <2>. DEFINE c == Store(inventory[p].current + items[p])
  <2>1. inventory[p] \in InventoryRow /\ inventory[p].current \in Nat
    BY DEF TypeOK, InventoryRow, StockInv, NonNegativeStock
  <2>2. inventory[p].current + items[p] \in Nat
    BY <1>1, <2>1
  <2>3. c \in Nat
    BY <2>2, StoreNat
  <2>4. inventory'[p] = [inventory[p] EXCEPT !.current = c]
    BY DEF CommitCancelSale
  <2>. HIDE DEF c
  <2>5. /\ inventory'[p] \in InventoryRow /\ inventory'[p].current = c
        /\ Row(p, c, inventory[p].totalIn, inventory[p].totalOut, inventory[p].lost)
    BY <2>1, <2>3, <2>4 DEF InventoryRow, Row
  <2>6. inventory'[p].current >= 0
    BY <2>3, <2>5
  <2>7. QED
    BY <2>5, <2>6 DEF c
<1>3. inventory' = [p \in Product |-> inventory'[p]]
  BY DEF CommitCancelSale
<1>4. QED
  BY <1>2, <1>3, RowsTyped

\* One row written by an operation on the stock of one product.
LEMMA OneRow ==
    ASSUME TypeOK, StockInv, NEW p \in Product, NEW r \in InventoryRow, r.current >= 0,
           inventory' = [inventory EXCEPT ![p] = r]
    PROVE  /\ inventory' \in [Product -> InventoryRow] /\ inventory'[p] = r
           /\ \A q \in Product \ {p} : inventory'[q] = inventory[q]
           /\ \A q \in Product : inventory'[q].current >= 0
BY DEF TypeOK, StockInv, NonNegativeStock

\* A change of one product's row, all others left alone.
Changed(p, c, i, o, l) ==
    /\ inventory' \in [Product -> InventoryRow]
    /\ Row(p, c, i, o, l)
    /\ \A q \in Product \ {p} : inventory'[q] = inventory[q]
    /\ \A q \in Product : inventory'[q].current >= 0

LEMMA AddEffect ==
    ASSUME TypeOK, StockInv, NEW w \in Worker, CommitAddStock(w)
    PROVE  LET t == txn[w] p == t.product IN
           Changed(p, Store(t.previous + t.quantity),
                   Store(inventory[p].totalIn + t.quantity), inventory[p].totalOut,
                   inventory[p].lost)
<1>. DEFINE t == txn[w]  p == t.product
            c == Store(t.previous + t.quantity)
            i == Store(inventory[p].totalIn + t.quantity)
<1>1. p \in Product /\ t.previous \in Nat /\ t.quantity \in Nat
  BY TxnFields DEF CommitAddStock, StockInv, ReadsCover
<1>2. inventory[p] \in InventoryRow /\ inventory[p].totalIn \in Nat
  BY <1>1 DEF TypeOK, InventoryRow
<1>3. t.previous + t.quantity \in Nat /\ inventory[p].totalIn + t.quantity \in Nat
  BY <1>1, <1>2
<1>4. c \in Nat /\ i \in Nat
  BY <1>3, StoreNat
<1>5. inventory' = [inventory EXCEPT ![p] = [inventory[p] EXCEPT !.current = c, !.totalIn = i]]
  BY DEF CommitAddStock
<1>. DEFINE r == [inventory[p] EXCEPT !.current = c, !.totalIn = i]
<1>. HIDE DEF c, i, t, p
<1>6. /\ r \in InventoryRow /\ r.current = c /\ r.totalIn = i
      /\ r.totalOut = inventory[p].totalOut /\ r.lost = inventory[p].lost
  <2>1. c \in Int /\ i \in Nat
    BY <1>4
  <2>2. QED
    BY <1>2, <2>1 DEF InventoryRow, r
<1>. HIDE DEF r
<1>7. Changed(p, c, i, inventory[p].totalOut, inventory[p].lost)
  <2>1. r.current >= 0 /\ inventory' = [inventory EXCEPT ![p] = r]
    BY <1>4, <1>5, <1>6 DEF r
  <2>2. /\ inventory' \in [Product -> InventoryRow] /\ inventory'[p] = r
        /\ \A q \in Product \ {p} : inventory'[q] = inventory[q]
        /\ \A q \in Product : inventory'[q].current >= 0
    BY <1>1, <1>6, <2>1, OneRow
  <2>3. QED
    BY <1>6, <2>2 DEF Changed, Row
<1>8. QED
  BY <1>7 DEF c, i, t, p

LEMMA PositiveNat == ASSUME NEW x \in Int PROVE Positive(x) \in Nat
BY DEF Positive

LEMMA AdjustEffect ==
    ASSUME TypeOK, StockInv, NEW w \in Worker, CommitAdjustStock(w)
    PROVE  LET t == txn[w] p == t.product IN
           Changed(p, Store(t.quantity),
                   Store(inventory[p].totalIn + Positive(t.quantity - t.previous)),
                   Store(inventory[p].totalOut + Positive(-(t.quantity - t.previous))),
                   inventory[p].lost)
<1>. DEFINE t == txn[w]  p == t.product
            c == Store(t.quantity)
            i == Store(inventory[p].totalIn + Positive(t.quantity - t.previous))
            o == Store(inventory[p].totalOut + Positive(-(t.quantity - t.previous)))
<1>1. p \in Product /\ t.previous \in Nat /\ t.quantity \in Nat
  BY TxnFields DEF CommitAdjustStock, StockInv, ReadsCover
<1>2. /\ inventory[p] \in InventoryRow /\ inventory[p].totalIn \in Nat
      /\ inventory[p].totalOut \in Nat
  BY <1>1 DEF TypeOK, InventoryRow
<1>3. /\ Positive(t.quantity - t.previous) \in Nat
      /\ Positive(-(t.quantity - t.previous)) \in Nat
  BY <1>1, PositiveNat
<1>4. /\ inventory[p].totalIn + Positive(t.quantity - t.previous) \in Nat
      /\ inventory[p].totalOut + Positive(-(t.quantity - t.previous)) \in Nat
  BY <1>2, <1>3
<1>5. c \in Nat /\ i \in Nat /\ o \in Nat
  BY <1>1, <1>4, StoreNat
<1>6. inventory' = [inventory EXCEPT ![p] =
          [inventory[p] EXCEPT !.current = c, !.totalIn = i, !.totalOut = o]]
  BY DEF CommitAdjustStock
<1>. DEFINE r == [inventory[p] EXCEPT !.current = c, !.totalIn = i, !.totalOut = o]
<1>. HIDE DEF c, i, o, t, p
<1>7. /\ r \in InventoryRow /\ r.current = c /\ r.totalIn = i
      /\ r.totalOut = o /\ r.lost = inventory[p].lost
  <2>1. c \in Int /\ i \in Nat /\ o \in Nat
    BY <1>5
  <2>2. QED
    BY <1>2, <2>1 DEF InventoryRow, r
<1>. HIDE DEF r
<1>8. Changed(p, c, i, o, inventory[p].lost)
  <2>1. r.current >= 0 /\ inventory' = [inventory EXCEPT ![p] = r]
    BY <1>5, <1>6, <1>7 DEF r
  <2>2. /\ inventory' \in [Product -> InventoryRow] /\ inventory'[p] = r
        /\ \A q \in Product \ {p} : inventory'[q] = inventory[q]
        /\ \A q \in Product : inventory'[q].current >= 0
    BY <1>1, <1>7, <2>1, OneRow
  <2>3. QED
    BY <1>7, <2>2 DEF Changed, Row
<1>9. QED
  BY <1>8 DEF c, i, o, t, p

LEMMA WasteEffect ==
    ASSUME TypeOK, StockInv, NEW w \in Worker, CommitWasteStock(w)
    PROVE  LET t == txn[w] p == t.product IN
           Changed(p, Store(t.previous - t.quantity), inventory[p].totalIn,
                   Store(inventory[p].totalOut + t.quantity),
                   Store(inventory[p].lost + t.quantity))
<1>. DEFINE t == txn[w]  p == t.product
            c == Store(t.previous - t.quantity)
            o == Store(inventory[p].totalOut + t.quantity)
            l == Store(inventory[p].lost + t.quantity)
<1>1. /\ p \in Product /\ t.previous \in Nat /\ t.quantity \in Nat
      /\ t.quantity <= t.previous
  BY TxnFields DEF CommitWasteStock, StockInv, ReadsCover
<1>2. /\ inventory[p] \in InventoryRow /\ inventory[p].lost \in Nat
      /\ inventory[p].totalOut \in Nat
  BY <1>1 DEF TypeOK, InventoryRow
<1>3. /\ t.previous - t.quantity \in Nat /\ inventory[p].totalOut + t.quantity \in Nat
      /\ inventory[p].lost + t.quantity \in Nat
  BY <1>1, <1>2
<1>4. c \in Nat /\ l \in Nat /\ o \in Nat
  BY <1>3, StoreNat
<1>5. inventory' = [inventory EXCEPT ![p] =
          [inventory[p] EXCEPT !.current = c, !.lost = l, !.totalOut = o]]
  BY DEF CommitWasteStock
<1>. DEFINE r == [inventory[p] EXCEPT !.current = c, !.lost = l, !.totalOut = o]
<1>. HIDE DEF c, l, o, t, p
<1>6. /\ r \in InventoryRow /\ r.current = c /\ r.totalIn = inventory[p].totalIn
      /\ r.totalOut = o /\ r.lost = l
  <2>1. c \in Int /\ l \in Nat /\ o \in Nat
    BY <1>4
  <2>2. QED
    BY <1>2, <2>1 DEF InventoryRow, r
<1>. HIDE DEF r
<1>7. Changed(p, c, inventory[p].totalIn, o, l)
  <2>1. r.current >= 0 /\ inventory' = [inventory EXCEPT ![p] = r]
    BY <1>4, <1>5, <1>6 DEF r
  <2>2. /\ inventory' \in [Product -> InventoryRow] /\ inventory'[p] = r
        /\ \A q \in Product \ {p} : inventory'[q] = inventory[q]
        /\ \A q \in Product : inventory'[q].current >= 0
    BY <1>1, <1>6, <2>1, OneRow
  <2>3. QED
    BY <1>6, <2>2 DEF Changed, Row
<1>8. QED
  BY <1>7 DEF c, l, o, t, p
-----------------------------------------------------------------------------
(* What each commit adds to the movements of a product: net counts towards *)
(* NetMoved, back towards the returns.                                     *)
Adds(p, net, back) ==
    /\ NetMoved(p)' = NetMoved(p) + net
    /\ moved'[p]["RETURN"] = moved[p]["RETURN"] + back

LEMMA MovedFields ==
    ASSUME TypeOK, NEW p \in Product
    PROVE  /\ moved[p] \in [MovementType -> Int]
           /\ moved[p]["STOCK_IN"] \in Int /\ moved[p]["SALE"] \in Int
           /\ moved[p]["WASTE"] \in Int /\ moved[p]["ADJUSTMENT"] \in Int
           /\ moved[p]["RETURN"] \in Int /\ NetMoved(p) \in Int
BY DEF TypeOK, MovementType, NetMoved

\* One movement of a type other than RETURN.
LEMMA MoveAdds ==
    ASSUME TypeOK, NEW p \in Product, NEW type \in MovementType \ {"RETURN"}, NEW q \in Int,
           Move(p, type, q)
    PROVE  /\ moved' \in [Product -> [MovementType -> Int]]
           /\ Adds(p, q, 0)
           /\ \A r \in Product \ {p} : Adds(r, 0, 0)
<1>1. moved[p] \in [MovementType -> Int] /\ moved[p][type] + q \in Int
  BY DEF TypeOK
<1>. DEFINE row == [moved[p] EXCEPT ![type] = moved[p][type] + q]
<1>2. row \in [MovementType -> Int]
  BY <1>1
<1>3. moved' = [moved EXCEPT ![p] = row]
  BY DEF Move
<1>4. /\ moved' \in [Product -> [MovementType -> Int]] /\ moved'[p] = row
      /\ \A r \in Product \ {p} : moved'[r] = moved[r]
  BY <1>2, <1>3 DEF TypeOK
<1>5. \A r \in Product \ {p} : Adds(r, 0, 0)
  BY <1>4, MovedFields DEF Adds, NetMoved
<1>6. row[type] = moved[p][type] + q /\ \A u \in MovementType \ {type} : row[u] = moved[p][u]
  BY <1>1
<1>. HIDE DEF row
<1>7. Adds(p, q, 0)
  BY <1>4, <1>6, MovedFields DEF Adds, NetMoved, MovementType
<1>8. QED
  BY <1>4, <1>5, <1>7

LEMMA ScaleWasteNat ==
    ASSUME NEW t, NEW p, t.items[p] \in Nat, t.taken[p] \in Nat
    PROVE  ScaleWaste(t, p) \in Nat
BY DEF ScaleWaste, Waste

LEMMA SaleAdds ==
    ASSUME TypeOK, NEW w \in Worker, NEW i \in Sale, CommitSale(w, i)
    PROVE  /\ moved' \in [Product -> [MovementType -> Int]]
           /\ \A p \in Product :
                Adds(p, -(txn[w].items[p] + ScaleWaste(txn[w], p)), 0)
<1>. DEFINE t == txn[w]
<1>1. t.items \in [Product -> Nat] /\ t.taken \in [Product -> Nat]
  BY TxnFields DEF CommitSale
<1>2. ASSUME NEW p \in Product
      PROVE  /\ moved'[p] \in [MovementType -> Int]
             /\ Adds(p, -(t.items[p] + ScaleWaste(t, p)), 0)
  <2>. DEFINE sold == moved[p]["SALE"] - t.items[p]
              waste == moved[p]["WASTE"] - ScaleWaste(t, p)
  <2>1. t.items[p] \in Nat /\ ScaleWaste(t, p) \in Nat
    BY <1>1, ScaleWasteNat
  <2>2. sold \in Int /\ waste \in Int
    BY <2>1, MovedFields
  <2>3. moved'[p] = [moved[p] EXCEPT !["SALE"] = sold, !["WASTE"] = waste]
    BY DEF CommitSale, TypeOK, MovementType
  <2>4. -(t.items[p] + ScaleWaste(t, p)) = (sold + waste) - (moved[p]["SALE"] + moved[p]["WASTE"])
    BY <2>1, MovedFields
  <2>. HIDE DEF sold, waste, t
  <2>5. /\ moved'[p] \in [MovementType -> Int]
        /\ moved'[p]["SALE"] = sold /\ moved'[p]["WASTE"] = waste
        /\ \A u \in MovementType \ {"SALE", "WASTE"} : moved'[p][u] = moved[p][u]
    BY <2>2, <2>3, MovedFields DEF MovementType
  <2>6. Adds(p, (sold + waste) - (moved[p]["SALE"] + moved[p]["WASTE"]), 0)
    BY <2>2, <2>5, MovedFields, SMTT(30) DEF Adds, NetMoved, MovementType
  <2>7. QED
    BY <2>4, <2>5, <2>6
<1>3. moved' = [p \in Product |-> moved'[p]]
  BY DEF CommitSale
<1>4. QED
  BY <1>2, <1>3

LEMMA CancelAdds ==
    ASSUME TypeOK, NEW w \in Worker, CommitCancelSale(w)
    PROVE  /\ moved' \in [Product -> [MovementType -> Int]]
           /\ \A p \in Product : Adds(p, 0, sale[txn[w].sale].items[p])
<1>. DEFINE items == sale[txn[w].sale].items
<1>1. items \in [Product -> Nat]
  BY TxnFields DEF CommitCancelSale, TypeOK, SaleRow
<1>2. ASSUME NEW p \in Product
      PROVE  moved'[p] \in [MovementType -> Int] /\ Adds(p, 0, items[p])
  <2>. DEFINE back == moved[p]["RETURN"] + items[p]
  <2>1. moved'[p] = [moved[p] EXCEPT !["RETURN"] = back]
    BY DEF CommitCancelSale, TypeOK, MovementType
  <2>2. back \in Int
    BY <1>1, MovedFields
  <2>3. /\ moved'[p] \in [MovementType -> Int] /\ moved'[p]["RETURN"] = back
        /\ \A u \in MovementType \ {"RETURN"} : moved'[p][u] = moved[p][u]
    BY <2>1, <2>2, MovedFields DEF MovementType
  <2>4. QED
    BY <2>3, MovedFields DEF Adds, NetMoved, MovementType
<1>3. moved' = [p \in Product |-> moved'[p]]
  BY DEF CommitCancelSale
<1>4. QED
  BY <1>2, <1>3
-----------------------------------------------------------------------------
(* Types, and stock that is never negative.                                *)

LEMMA InitInv == Init => TypeOK /\ StockInv
<1>1. ASSUME Init
      PROVE  TypeOK
  BY <1>1 DEF Init, TypeOK, InventoryRow, MovementType, SaleRow, Txn
<1>2. ASSUME Init
      PROVE  StockInv
  BY <1>2 DEF Init, StockInv, NonNegativeStock, ReadsCover, Idle
<1>3. QED
  BY <1>1, <1>2

\* A step that changes no table and takes a covered transaction.
LEMMA ReadInv ==
    ASSUME TypeOK, StockInv, NEW w \in Worker, ReadStep(w)
    PROVE  TypeOK' /\ StockInv'
<1>1. ASSUME NEW t \in Txn, Begin(w, t), UNCHANGED Tables,
             t.op = "createSale" =>
                 \A p \in Product : /\ t.items[p] = 0 => t.taken[p] = 0
                                    /\ t.taken[p] <= t.onHand[p],
             t.op \in {"addStock", "adjustStock", "wasteStock"} => t.previous \in Nat,
             t.op = "wasteStock" => t.quantity <= t.previous
      PROVE  TypeOK' /\ StockInv'
  <2>1. TypeOK' /\ NonNegativeStock'
    BY <1>1 DEF TypeOK, Begin, Tables, StockInv, NonNegativeStock
  <2>2. \A v \in Worker : txn'[v] = IF v = w THEN t ELSE txn[v]
    BY <1>1 DEF Begin, TypeOK
  <2>3. ReadsCover'
    BY <1>1, <2>2 DEF StockInv, ReadsCover
  <2>4. QED
    BY <2>1, <2>3 DEF StockInv
<1>2. CASE ReadSale(w)
  <2>1. PICK t \in Txn :
            /\ UNCHANGED Tables /\ Begin(w, t) /\ t.op = "createSale"
            /\ \A p \in Product : /\ t.items[p] = 0 => t.taken[p] = 0
                                  /\ t.taken[p] <= t.onHand[p]
    BY <1>2, ReadSaleFacts
  <2>2. QED
    BY <1>1, <2>1
<1>3. CASE \E i \in Sale : ReadCancelSale(w, i)
  <2>1. PICK i \in Sale : Begin(w, [op |-> "cancelSale", sale |-> i]) /\ UNCHANGED Tables
    BY <1>3 DEF ReadCancelSale
  <2>2. [op |-> "cancelSale", sale |-> i] \in Txn
    BY DEF Txn
  <2>3. QED
    BY <1>1, <2>1, <2>2
<1>4. ASSUME NEW op \in {"addStock", "adjustStock", "wasteStock"}, NEW p \in Product,
             NEW quantity \in Nat, ReadStock(w, op, p, quantity),
             op = "wasteStock" => quantity <= inventory[p].current
      PROVE  TypeOK' /\ StockInv'
  <2>. DEFINE t == [op |-> op, product |-> p, previous |-> inventory[p].current,
                    quantity |-> quantity]
  <2>1. inventory[p].current \in Nat
    BY DEF TypeOK, InventoryRow, StockInv, NonNegativeStock
  <2>2. t \in Txn
    BY <2>1 DEF Txn
  <2>3. /\ t.op = op /\ t.previous = inventory[p].current /\ t.quantity = quantity
        /\ Begin(w, t) /\ UNCHANGED Tables
    BY <1>4 DEF ReadStock
  <2>. HIDE DEF t
  <2>4. QED
    BY <1>1, <1>4, <2>1, <2>2, <2>3
<1>5. CASE ReadAddStock(w)
  BY <1>4, <1>5, ConstantsOK DEF ReadAddStock
<1>6. CASE ReadAdjustStock(w)
  BY <1>4, <1>6, ConstantsOK DEF ReadAdjustStock
<1>7. CASE ReadWasteStock(w)
  BY <1>4, <1>7, ConstantsOK DEF ReadWasteStock
<1>8. QED
  BY <1>2, <1>3, <1>5, <1>6, <1>7 DEF ReadStep

LEMMA CommitInv ==
    ASSUME TypeOK, StockInv, NEW w \in Worker, CommitStep(w)
    PROVE  TypeOK' /\ StockInv'
<1>1. Done(w)
  BY DEF CommitStep, CommitSale, CommitCancelSale, CommitAddStock, CommitAdjustStock,
     CommitWasteStock
<1>2. txn' \in [Worker -> Txn] /\ ReadsCover'
  <2>1. txn' \in [Worker -> Txn] /\ txn'[w] = Idle /\ \A v \in Worker \ {w} : txn'[v] = txn[v]
    BY <1>1 DEF Done, TypeOK, Txn
  <2>2. QED
    BY <2>1 DEF StockInv, ReadsCover, Idle
<1>3. ASSUME inventory' \in [Product -> InventoryRow],
             \A p \in Product : inventory'[p].current >= 0,
             moved' \in [Product -> [MovementType -> Int]],
             sale' \in [Sale -> SaleRow]
      PROVE  TypeOK' /\ StockInv'
  BY <1>2, <1>3 DEF TypeOK, StockInv, NonNegativeStock
<1>4. ASSUME NEW i \in Sale, CommitSale(w, i)
      PROVE  TypeOK' /\ StockInv'
  <2>1. txn[w].items \in [Product -> Nat]
    BY <1>4, TxnFields DEF CommitSale
  <2>2. sale' \in [Sale -> SaleRow]
    BY <1>4, <2>1 DEF CommitSale, TypeOK, SaleRow
  <2>3. /\ inventory' \in [Product -> InventoryRow]
        /\ \A p \in Product : inventory'[p].current >= 0
    BY <1>4, SaleEffect
  <2>4. moved' \in [Product -> [MovementType -> Int]]
    BY <1>4, SaleAdds
  <2>5. QED
    BY <1>3, <2>2, <2>3, <2>4
<1>5. CASE CommitCancelSale(w)
  <2>1. sale' \in [Sale -> SaleRow]
    BY <1>5 DEF CommitCancelSale, TypeOK, SaleRow
  <2>2. /\ inventory' \in [Product -> InventoryRow]
        /\ \A p \in Product : inventory'[p].current >= 0
    BY <1>5, CancelEffect
  <2>3. moved' \in [Product -> [MovementType -> Int]]
    BY <1>5, CancelAdds
  <2>4. QED
    BY <1>3, <2>1, <2>2, <2>3
<1>6. CASE CommitAddStock(w)
  <2>. DEFINE t == txn[w]
  <2>1. t.product \in Product /\ t.quantity \in Int
    BY <1>6, TxnFields DEF CommitAddStock
  <2>2. Move(t.product, "STOCK_IN", t.quantity) /\ UNCHANGED sale
    BY <1>6 DEF CommitAddStock
  <2>3. moved' \in [Product -> [MovementType -> Int]]
    BY <2>1, <2>2, MoveAdds DEF MovementType
  <2>4. /\ inventory' \in [Product -> InventoryRow]
        /\ \A p \in Product : inventory'[p].current >= 0
    BY <1>6, AddEffect DEF Changed
  <2>5. QED
    BY <1>3, <2>2, <2>3, <2>4 DEF TypeOK
<1>7. CASE CommitAdjustStock(w)
  <2>. DEFINE t == txn[w]
  <2>1. t.product \in Product /\ t.quantity - t.previous \in Int
    BY <1>7, TxnFields DEF CommitAdjustStock
  <2>2. Move(t.product, "ADJUSTMENT", t.quantity - t.previous) /\ UNCHANGED sale
    BY <1>7 DEF CommitAdjustStock
  <2>3. moved' \in [Product -> [MovementType -> Int]]
    BY <2>1, <2>2, MoveAdds DEF MovementType
  <2>4. /\ inventory' \in [Product -> InventoryRow]
        /\ \A p \in Product : inventory'[p].current >= 0
    BY <1>7, AdjustEffect DEF Changed
  <2>5. QED
    BY <1>3, <2>2, <2>3, <2>4 DEF TypeOK
<1>8. CASE CommitWasteStock(w)
  <2>. DEFINE t == txn[w]
  <2>1. t.product \in Product /\ -t.quantity \in Int
    BY <1>8, TxnFields DEF CommitWasteStock
  <2>2. Move(t.product, "WASTE", -t.quantity) /\ UNCHANGED sale
    BY <1>8 DEF CommitWasteStock
  <2>3. moved' \in [Product -> [MovementType -> Int]]
    BY <2>1, <2>2, MoveAdds DEF MovementType
  <2>4. /\ inventory' \in [Product -> InventoryRow]
        /\ \A p \in Product : inventory'[p].current >= 0
    BY <1>8, WasteEffect DEF Changed
  <2>5. QED
    BY <1>3, <2>2, <2>3, <2>4 DEF TypeOK
<1>9. QED
  BY <1>4, <1>5, <1>6, <1>7, <1>8 DEF CommitStep

LEMMA NextInv == TypeOK /\ StockInv /\ [Next]_vars => (TypeOK /\ StockInv)'
<1>1. ASSUME TypeOK, StockInv, NEW w \in Worker, Abort(w)
      PROVE  (TypeOK /\ StockInv)'
  <2>1. /\ txn' \in [Worker -> Txn] /\ txn'[w] = Idle
        /\ \A v \in Worker \ {w} : txn'[v] = txn[v]
    BY <1>1 DEF Abort, Done, TypeOK, Txn
  <2>2. ReadsCover'
    BY <1>1, <2>1 DEF StockInv, ReadsCover, Idle
  <2>3. QED
    BY <1>1, <2>1, <2>2 DEF Abort, Tables, TypeOK, StockInv, NonNegativeStock
<1>2. ASSUME TypeOK, StockInv, UNCHANGED vars
      PROVE  (TypeOK /\ StockInv)'
  BY <1>2 DEF TypeOK, StockInv, NonNegativeStock, ReadsCover, vars
<1>3. QED
  BY <1>1, <1>2, ReadInv, CommitInv, NextSteps

\* Every reachable state is typed.
THEOREM TypeCorrect == Spec => []TypeOK
BY InitInv, NextInv, PTL DEF Spec

\* Whatever transactions overlap, and whatever the columns round, no stock is
\* ever negative.
THEOREM NeverNegative == Spec => []NonNegativeStock
<1>1. StockInv => NonNegativeStock
  BY DEF StockInv
<1>2. QED
  BY <1>1, InitInv, NextInv, PTL DEF Spec
-----------------------------------------------------------------------------
(***************************************************************************)
(* What the movements of a product say about its totals and its stock, for *)
(* settings under which every line takes what its movements record: waste  *)
(* of the scale is registered, under-weight refused, and quantities are    *)
(* whole steps of the columns.                                             *)
(***************************************************************************)

Exact == Grain = 1 /\ AutoRegisterScaleWaste /\ ~AllowUnderWeight
OneWorker == \A v, w \in Worker : v = w

\* A sale in flight takes at least what was asked for: the rest is waste.
SaleCovers(w) ==
    txn[w].op = "createSale" => \A p \in Product : txn[w].items[p] <= txn[w].taken[p]

\* The stock a transaction has read is the stock there is.
ReadsCurrent(w) ==
    /\ txn[w].op = "createSale" =>
           \A p \in Product : txn[w].onHand[p] = inventory[p].current
    /\ txn[w].op \in {"addStock", "adjustStock", "wasteStock"} =>
           txn[w].previous = inventory[txn[w].product].current

TotalsInv == TotalsMatchMovements /\ \A w \in Worker : SaleCovers(w)
StockSerialInv == TotalsInv /\ StockExplained /\ \A w \in Worker : ReadsCurrent(w)
-----------------------------------------------------------------------------
\* Stock, totals and movements of a product move together: net is what its
\* movements other than returns add, back what its returns add.  The stock does
\* so only if the transaction read the current one.
MovesTogether(w, p, net, back) ==
    /\ Adds(p, net, back)
    /\ inventory'[p].totalIn - inventory'[p].totalOut =
           inventory[p].totalIn - inventory[p].totalOut + net
    /\ ReadsCurrent(w) => inventory'[p].current = inventory[p].current + net + back

LEMMA RowFields ==
    ASSUME TypeOK, StockInv, NEW p \in Product
    PROVE  /\ inventory[p].current \in Nat /\ inventory[p].totalIn \in Nat
           /\ inventory[p].totalOut \in Nat /\ inventory[p].lost \in Nat
BY DEF TypeOK, InventoryRow, StockInv, NonNegativeStock

LEMMA SaleTogether ==
    ASSUME Exact, TypeOK, StockInv, NEW w \in Worker, SaleCovers(w),
           NEW i \in Sale, CommitSale(w, i), NEW p \in Product
    PROVE  \E net, back \in Int : MovesTogether(w, p, net, back)
<1>. DEFINE t == txn[w]
<1>1. /\ t.op = "createSale"
      /\ t.items[p] \in Nat /\ t.taken[p] \in Nat /\ t.onHand[p] \in Int
      /\ t.items[p] = 0 => t.taken[p] = 0
      /\ t.items[p] <= t.taken[p] /\ t.taken[p] <= t.onHand[p]
  BY TxnFields DEF CommitSale, StockInv, ReadsCover, SaleCovers
<1>2. t.items[p] + ScaleWaste(t, p) = t.taken[p]
  <2>. DEFINE asked == t.items[p]  weight == t.taken[p]
  <2>. HIDE DEF t
  <2>1. ScaleWaste(t, p) = Waste(asked, weight)
    BY DEF ScaleWaste, Exact
  <2>2. asked \in Nat /\ weight \in Nat /\ asked <= weight
    BY <1>1
  <2>. HIDE DEF asked, weight
  <2>3. asked + Waste(asked, weight) = weight
    BY <2>2 DEF Waste
  <2>4. QED
    BY <2>1, <2>3 DEF asked, weight
<1>3. Adds(p, -t.taken[p], 0)
  BY <1>2, SaleAdds
<1>4. IF t.items[p] = 0 THEN inventory'[p] = inventory[p]
      ELSE Row(p, Store(t.onHand[p] - t.taken[p]), inventory[p].totalIn,
               Store(inventory[p].totalOut + t.taken[p]), inventory[p].lost)
  BY SaleEffect
<1>5. MovesTogether(w, p, -t.taken[p], 0)
  <2>1. CASE t.items[p] = 0
    BY <1>1, <1>3, <1>4, <2>1, RowFields DEF MovesTogether, ReadsCurrent
  <2>2. CASE t.items[p] # 0
    <3>1. t.onHand[p] - t.taken[p] \in Nat /\ inventory[p].totalOut + t.taken[p] \in Nat
      BY <1>1, RowFields
    <3>2. /\ Store(t.onHand[p] - t.taken[p]) = t.onHand[p] - t.taken[p]
          /\ Store(inventory[p].totalOut + t.taken[p]) = inventory[p].totalOut + t.taken[p]
      BY <3>1, StoreExact DEF Exact
    <3>3. /\ inventory'[p].current = t.onHand[p] - t.taken[p]
          /\ inventory'[p].totalIn = inventory[p].totalIn
          /\ inventory'[p].totalOut = inventory[p].totalOut + t.taken[p]
      BY <1>4, <2>2, <3>2 DEF Row
    <3>4. ReadsCurrent(w) => t.onHand[p] = inventory[p].current
      BY <1>1 DEF ReadsCurrent
    <3>5. QED
      BY <1>1, <1>3, <3>3, <3>4, RowFields DEF MovesTogether
  <2>3. QED
    BY <2>1, <2>2
<1>6. -t.taken[p] \in Int /\ 0 \in Int
  BY <1>1
<1>7. QED
  BY <1>5, <1>6

LEMMA CancelTogether ==
    ASSUME Exact, TypeOK, StockInv, NEW w \in Worker, CommitCancelSale(w), NEW p \in Product
    PROVE  \E net, back \in Int : MovesTogether(w, p, net, back)
<1>. DEFINE back == sale[txn[w].sale].items[p]
<1>1. back \in Nat
  BY TxnFields DEF CommitCancelSale, TypeOK, SaleRow
<1>2. Adds(p, 0, back)
  BY CancelAdds
<1>3. Row(p, Store(inventory[p].current + back), inventory[p].totalIn,
          inventory[p].totalOut, inventory[p].lost)
  BY CancelEffect
<1>. HIDE DEF back
<1>4. Store(inventory[p].current + back) = inventory[p].current + back
  <2>1. inventory[p].current + back \in Nat
    BY <1>1, RowFields
  <2>2. QED
    BY <2>1, StoreExact DEF Exact
<1>5. MovesTogether(w, p, 0, back)
  BY <1>1, <1>2, <1>3, <1>4, RowFields DEF MovesTogether, Row
<1>6. QED
  BY <1>1, <1>5

\* An operation on the stock of one product that posts one movement.
LEMMA OneProductTogether ==
    ASSUME TypeOK, StockInv, NEW w \in Worker, NEW p \in Product,
           NEW type \in MovementType \ {"RETURN"}, NEW net \in Int, Move(p, type, net),
           NEW c, NEW i \in Int, NEW o \in Int, NEW l, Changed(p, c, i, o, l),
           i - o = inventory[p].totalIn - inventory[p].totalOut + net,
           ReadsCurrent(w) => c = inventory[p].current + net,
           NEW q \in Product
    PROVE  \E n, back \in Int : MovesTogether(w, q, n, back)
<1>1. CASE q = p
  <2>1. Adds(p, net, 0)
    BY MoveAdds
  <2>2. ReadsCurrent(w) => c = inventory[p].current + net + 0
    BY RowFields
  <2>3. MovesTogether(w, p, net, 0)
    BY <2>1, <2>2 DEF MovesTogether, Changed, Row
  <2>4. QED
    BY <1>1, <2>3
<1>2. CASE q # p
  <2>1. Adds(q, 0, 0) /\ inventory'[q] = inventory[q]
    BY <1>2, MoveAdds DEF Changed
  <2>2. MovesTogether(w, q, 0, 0)
    BY <2>1, RowFields DEF MovesTogether
  <2>3. QED
    BY <2>2
<1>3. QED
  BY <1>1, <1>2

LEMMA AddTogether ==
    ASSUME Exact, TypeOK, StockInv, NEW w \in Worker, CommitAddStock(w), NEW q \in Product
    PROVE  \E net, back \in Int : MovesTogether(w, q, net, back)
<1>. DEFINE t == txn[w]  p == t.product
            i == inventory[p].totalIn + t.quantity
<1>1. /\ t.op = "addStock" /\ p \in Product /\ t.previous \in Nat /\ t.quantity \in Nat
      /\ Move(p, "STOCK_IN", t.quantity)
  BY TxnFields DEF CommitAddStock, StockInv, ReadsCover
<1>2. /\ t.previous + t.quantity \in Nat /\ i \in Nat /\ inventory[p].totalOut \in Nat
      /\ inventory[p].totalIn \in Nat
  BY <1>1, RowFields
<1>3. Changed(p, t.previous + t.quantity, i, inventory[p].totalOut, inventory[p].lost)
  BY <1>2, AddEffect, StoreExact DEF Exact
<1>4. ReadsCurrent(w) => t.previous + t.quantity = inventory[p].current + t.quantity
  BY <1>1 DEF ReadsCurrent
<1>5. i - inventory[p].totalOut = inventory[p].totalIn - inventory[p].totalOut + t.quantity
  BY <1>1, <1>2
<1>6. "STOCK_IN" \in MovementType \ {"RETURN"} /\ t.quantity \in Int
      /\ i \in Int /\ inventory[p].totalOut \in Int
  BY <1>1, <1>2 DEF MovementType
<1>. HIDE DEF t, p, i
<1>7. QED
  BY <1>1, <1>3, <1>4, <1>5, <1>6, OneProductTogether

LEMMA PositiveSplits ==
    ASSUME NEW x \in Int
    PROVE  /\ Positive(x) \in Nat /\ Positive(-x) \in Nat
           /\ Positive(x) - Positive(-x) = x
BY DEF Positive

LEMMA AdjustTogether ==
    ASSUME Exact, TypeOK, StockInv, NEW w \in Worker, CommitAdjustStock(w), NEW q \in Product
    PROVE  \E net, back \in Int : MovesTogether(w, q, net, back)
<1>. DEFINE t == txn[w]  p == t.product  net == t.quantity - t.previous
            i == inventory[p].totalIn + Positive(net)
            o == inventory[p].totalOut + Positive(-net)
<1>1. /\ t.op = "adjustStock" /\ p \in Product /\ t.previous \in Nat /\ t.quantity \in Nat
      /\ Move(p, "ADJUSTMENT", net)
  BY TxnFields DEF CommitAdjustStock, StockInv, ReadsCover
<1>2. net \in Int
  BY <1>1
<1>3. /\ Positive(net) \in Nat /\ Positive(-net) \in Nat /\ Positive(net) - Positive(-net) = net
  BY <1>2, PositiveSplits
<1>4. inventory[p].totalOut \in Nat /\ inventory[p].totalIn \in Nat
  BY <1>1, RowFields
<1>5. i \in Nat /\ o \in Nat /\ i - o = inventory[p].totalIn - inventory[p].totalOut + net
  <2>. HIDE DEF net
  <2>1. QED
    BY <1>2, <1>3, <1>4
<1>6. Changed(p, t.quantity, i, o, inventory[p].lost)
  BY <1>1, <1>5, AdjustEffect, StoreExact DEF Exact
<1>7. ReadsCurrent(w) => t.quantity = inventory[p].current + net
  BY <1>1 DEF ReadsCurrent
<1>8. "ADJUSTMENT" \in MovementType \ {"RETURN"} /\ i \in Int /\ o \in Int
  BY <1>5 DEF MovementType
<1>. HIDE DEF t, p, net, i, o
<1>9. QED
  BY <1>1, <1>2, <1>5, <1>6, <1>7, <1>8, OneProductTogether

LEMMA WasteTogether ==
    ASSUME Exact, TypeOK, StockInv, NEW w \in Worker, CommitWasteStock(w), NEW q \in Product
    PROVE  \E net, back \in Int : MovesTogether(w, q, net, back)
<1>. DEFINE t == txn[w]  p == t.product  net == -t.quantity
            o == inventory[p].totalOut + t.quantity
<1>1. /\ t.op = "wasteStock" /\ p \in Product /\ t.previous \in Nat /\ t.quantity \in Nat
      /\ t.quantity <= t.previous /\ Move(p, "WASTE", net)
  BY TxnFields DEF CommitWasteStock, StockInv, ReadsCover
<1>2. /\ inventory[p].totalOut \in Nat /\ inventory[p].totalIn \in Nat
      /\ inventory[p].lost \in Nat
  BY <1>1, RowFields
<1>3. /\ t.previous - t.quantity \in Nat /\ o \in Nat /\ net \in Int
      /\ inventory[p].lost + t.quantity \in Nat
      /\ inventory[p].totalIn - o = inventory[p].totalIn - inventory[p].totalOut + net
  BY <1>1, <1>2
<1>4. Changed(p, t.previous - t.quantity, inventory[p].totalIn, o,
              inventory[p].lost + t.quantity)
  BY <1>3, WasteEffect, StoreExact DEF Exact
<1>5. ReadsCurrent(w) => t.previous - t.quantity = inventory[p].current + net
  BY <1>1, <1>3 DEF ReadsCurrent
<1>6. "WASTE" \in MovementType \ {"RETURN"} /\ inventory[p].totalIn \in Int /\ o \in Int
  BY <1>2, <1>3 DEF MovementType
<1>. HIDE DEF t, p, net, o
<1>7. QED
  BY <1>1, <1>3, <1>4, <1>5, <1>6, OneProductTogether

LEMMA CommitTogether ==
    ASSUME Exact, TypeOK, StockInv, NEW w \in Worker, SaleCovers(w), CommitStep(w),
           NEW p \in Product
    PROVE  \E net, back \in Int : MovesTogether(w, p, net, back)
BY SaleTogether, CancelTogether, AddTogether, AdjustTogether, WasteTogether DEF CommitStep
-----------------------------------------------------------------------------
LEMMA EndsIdle ==
    ASSUME TypeOK, NEW w \in Worker, CommitStep(w) \/ Abort(w)
    PROVE  txn'[w] = Idle /\ \A v \in Worker \ {w} : txn'[v] = txn[v]
<1>1. Done(w)
  BY DEF CommitStep, CommitSale, CommitCancelSale, CommitAddStock, CommitAdjustStock,
     CommitWasteStock, Abort
<1>2. QED
  BY <1>1 DEF Done, TypeOK

\* A read changes no table, and what it takes is current and covers the sale.
LEMMA ReadTakes ==
    ASSUME Exact, TypeOK, StockInv, NEW w \in Worker, ReadStep(w)
    PROVE  /\ UNCHANGED Tables
           /\ \A v \in Worker \ {w} : txn'[v] = txn[v]
           /\ SaleCovers(w)' /\ ReadsCurrent(w)'
<1>1. ASSUME NEW t, Begin(w, t)
      PROVE  txn'[w] = t /\ \A v \in Worker \ {w} : txn'[v] = txn[v]
  BY <1>1 DEF Begin, TypeOK
<1>2. CASE ReadSale(w)
  <2>1. PICK t \in Txn :
            /\ UNCHANGED Tables /\ Begin(w, t) /\ t.op = "createSale"
            /\ \A p \in Product : /\ t.onHand[p] = inventory[p].current
                                  /\ ~AllowUnderWeight => t.items[p] <= t.taken[p]
    BY <1>2, ReadSaleFacts
  <2>2. QED
    BY <1>1, <2>1 DEF SaleCovers, ReadsCurrent, Tables, Exact
<1>3. CASE \E i \in Sale : ReadCancelSale(w, i)
  <2>1. PICK i \in Sale : Begin(w, [op |-> "cancelSale", sale |-> i]) /\ UNCHANGED Tables
    BY <1>3 DEF ReadCancelSale
  <2>2. txn'[w].op = "cancelSale"
    BY <1>1, <2>1
  <2>3. QED
    BY <1>1, <2>1, <2>2 DEF SaleCovers, ReadsCurrent
<1>4. ASSUME NEW op \in {"addStock", "adjustStock", "wasteStock"}, NEW p, NEW quantity,
             ReadStock(w, op, p, quantity)
      PROVE  /\ UNCHANGED Tables
             /\ \A v \in Worker \ {w} : txn'[v] = txn[v]
             /\ SaleCovers(w)' /\ ReadsCurrent(w)'
  <2>. DEFINE t == [op |-> op, product |-> p, previous |-> inventory[p].current,
                    quantity |-> quantity]
  <2>1. Begin(w, t) /\ UNCHANGED Tables
    BY <1>4 DEF ReadStock
  <2>2. txn'[w].op # "createSale" /\ txn'[w].product = p
        /\ txn'[w].previous = inventory[p].current
    BY <1>1, <2>1
  <2>3. QED
    BY <1>1, <2>1, <2>2 DEF SaleCovers, ReadsCurrent, Tables
<1>5. QED
  BY <1>2, <1>3, <1>4 DEF ReadStep, ReadAddStock, ReadAdjustStock, ReadWasteStock

LEMMA CoversNext ==
    ASSUME Exact, TypeOK, StockInv, NEW w \in Worker, ReadStep(w) \/ CommitStep(w) \/ Abort(w),
           \A v \in Worker : SaleCovers(v)
    PROVE  \A v \in Worker : SaleCovers(v)'
<1>1. CASE ReadStep(w)
  BY <1>1, ReadTakes DEF SaleCovers
<1>2. CASE CommitStep(w) \/ Abort(w)
  BY <1>2, EndsIdle DEF SaleCovers, Idle
<1>3. QED
  BY <1>1, <1>2

\* With one worker nothing can disturb what it has read.
LEMMA CurrentNext ==
    ASSUME Exact, OneWorker, TypeOK, StockInv, NEW w \in Worker,
           ReadStep(w) \/ CommitStep(w) \/ Abort(w)
    PROVE  \A v \in Worker : ReadsCurrent(v)'
<1>1. ASSUME NEW v \in Worker
      PROVE  v = w
  BY DEF OneWorker
<1>2. CASE ReadStep(w)
  BY <1>1, <1>2, ReadTakes
<1>3. CASE CommitStep(w) \/ Abort(w)
  BY <1>1, <1>3, EndsIdle DEF ReadsCurrent, Idle
<1>4. QED
  BY <1>2, <1>3

LEMMA TablesKept ==
    ASSUME UNCHANGED Tables
    PROVE  /\ TotalsMatchMovements => TotalsMatchMovements'
           /\ StockExplained => StockExplained'
BY DEF Tables, TotalsMatchMovements, StockExplained, NetMoved

LEMMA InitLedger == Init => TotalsInv /\ StockSerialInv
<1>1. ASSUME Init
      PROVE  \A p \in Product : /\ inventory[p].current = 0 /\ inventory[p].totalIn = 0
                                /\ inventory[p].totalOut = 0
                                /\ NetMoved(p) = 0 /\ moved[p]["RETURN"] = 0
  BY <1>1 DEF Init, NetMoved, MovementType
<1>2. ASSUME Init, NEW w \in Worker
      PROVE  SaleCovers(w) /\ ReadsCurrent(w)
  BY <1>2 DEF Init, SaleCovers, ReadsCurrent, Idle
<1>3. QED
  BY <1>1, <1>2 DEF TotalsInv, StockSerialInv, TotalsMatchMovements, StockExplained

LEMMA TotalsNext ==
    ASSUME Exact, TypeOK, StockInv, TotalsInv, [Next]_vars
    PROVE  TotalsInv'
<1>1. ASSUME NEW w \in Worker, ReadStep(w) \/ CommitStep(w) \/ Abort(w)
      PROVE  TotalsMatchMovements'
  <2>1. CASE ReadStep(w)
    BY <2>1, ReadTakes, TablesKept DEF TotalsInv
  <2>2. CASE Abort(w)
    BY <2>2, TablesKept DEF TotalsInv, Abort
  <2>3. CASE CommitStep(w)
    <3>1. ASSUME NEW p \in Product
          PROVE  inventory'[p].totalIn - inventory'[p].totalOut = NetMoved(p)'
      <4>1. PICK net, back \in Int : MovesTogether(w, p, net, back)
        BY <2>3, CommitTogether DEF TotalsInv
      <4>2. /\ NetMoved(p)' = NetMoved(p) + net
            /\ inventory'[p].totalIn - inventory'[p].totalOut =
                 inventory[p].totalIn - inventory[p].totalOut + net
        BY <4>1 DEF MovesTogether, Adds
      <4>3. inventory[p].totalIn - inventory[p].totalOut = NetMoved(p)
        BY DEF TotalsInv, TotalsMatchMovements
      <4>4. QED
        BY <4>2, <4>3
    <3>2. QED
      BY <3>1 DEF TotalsMatchMovements
  <2>4. QED
    BY <1>1, <2>1, <2>2, <2>3
<1>2. CASE Next
  BY <1>1, <1>2, NextSteps, CoversNext DEF TotalsInv
<1>3. CASE UNCHANGED vars
  BY <1>3, TablesKept DEF TotalsInv, SaleCovers, vars, Tables
<1>4. QED
  BY <1>2, <1>3

LEMMA SerialNext ==
    ASSUME Exact, OneWorker, TypeOK, StockInv, StockSerialInv, [Next]_vars
    PROVE  StockSerialInv'
<1>1. TotalsInv'
  BY TotalsNext DEF StockSerialInv
<1>2. ASSUME NEW w \in Worker, ReadStep(w) \/ CommitStep(w) \/ Abort(w)
      PROVE  StockExplained'
  <2>1. CASE ReadStep(w)
    BY <2>1, ReadTakes, TablesKept DEF StockSerialInv
  <2>2. CASE Abort(w)
    BY <2>2, TablesKept DEF StockSerialInv, Abort
  <2>3. CASE CommitStep(w)
    <3>1. ASSUME NEW p \in Product
          PROVE  inventory'[p].current = NetMoved(p)' + moved'[p]["RETURN"]
      <4>1. PICK net, back \in Int : MovesTogether(w, p, net, back)
        BY <2>3, CommitTogether DEF StockSerialInv, TotalsInv
      <4>2. /\ NetMoved(p)' = NetMoved(p) + net
            /\ moved'[p]["RETURN"] = moved[p]["RETURN"] + back
            /\ inventory'[p].current = inventory[p].current + net + back
        BY <4>1 DEF MovesTogether, Adds, StockSerialInv
      <4>3. inventory[p].current = NetMoved(p) + moved[p]["RETURN"]
        BY DEF StockSerialInv, StockExplained
      <4>4. QED
        BY <4>2, <4>3, MovedFields
    <3>2. QED
      BY <3>1 DEF StockExplained
  <2>4. QED
    BY <1>2, <2>1, <2>2, <2>3
<1>3. CASE Next
  BY <1>1, <1>2, <1>3, NextSteps, CurrentNext DEF StockSerialInv
<1>4. CASE UNCHANGED vars
  BY <1>1, <1>4, TablesKept DEF StockSerialInv, ReadsCurrent, vars, Tables
<1>5. QED
  BY <1>3, <1>4

\* The totals of every product are those of its movements, whatever
\* transactions overlap and overwrite each other's stock.
THEOREM TotalsMatch ==
    ASSUME Exact PROVE Spec => []TotalsMatchMovements
<1>1. Init => TypeOK /\ StockInv /\ TotalsInv
  BY InitInv, InitLedger
<1>2. TypeOK /\ StockInv /\ TotalsInv /\ [Next]_vars => (TypeOK /\ StockInv /\ TotalsInv)'
  BY NextInv, TotalsNext
<1>3. TotalsInv => TotalsMatchMovements
  BY DEF TotalsInv
<1>4. QED
  BY <1>1, <1>2, <1>3, PTL DEF Spec

\* When requests do not overlap, the movements of a product explain all of its
\* stock.
THEOREM MovementsExplainStock ==
    ASSUME Exact, OneWorker PROVE Spec => []StockExplained
<1>1. Init => TypeOK /\ StockInv /\ StockSerialInv
  BY InitInv, InitLedger
<1>2. TypeOK /\ StockInv /\ StockSerialInv /\ [Next]_vars
          => (TypeOK /\ StockInv /\ StockSerialInv)'
  BY NextInv, SerialNext
<1>3. StockSerialInv => StockExplained
  BY DEF StockSerialInv
<1>4. QED
  BY <1>1, <1>2, <1>3, PTL DEF Spec
-----------------------------------------------------------------------------
(* What came back: a sum over sales.                                       *)

\* What the cancelled ones of the sales r had sold of p.
Returned(r, p) ==
    SumFunctionOnSet([i \in Sale |-> r[i].items[p]],
                     {i \in Sale : r[i].status = "CANCELLED"})

\* A sale that is cancelled adds what it had sold, once; others add nothing.
LEMMA SaleReturned ==
    ASSUME IsFiniteSet(Sale), NEW r \in [Sale -> SaleRow], NEW i \in Sale,
           NEW row \in SaleRow, r[i].status # "CANCELLED", NEW p \in Product
    PROVE  Returned([r EXCEPT ![i] = row], p) =
               Returned(r, p) + IF row.status = "CANCELLED" THEN row.items[p] ELSE 0
<1>. DEFINE q == [r EXCEPT ![i] = row]
            g == [x \in Sale |-> r[x].items[p]]
            h == [x \in Sale |-> q[x].items[p]]
            T == {x \in Sale : r[x].status = "CANCELLED"}
            U == {x \in Sale : q[x].status = "CANCELLED"}
<1>1. /\ T \in SUBSET Sale /\ U \in SUBSET Sale
      /\ \A x \in Sale \ {i} : x \in T <=> x \in U
      /\ i \notin T /\ (i \in U <=> row.status = "CANCELLED")
      /\ (\A x \in T : g[x] \in Int) /\ (\A x \in U : h[x] \in Int)
      /\ \A x \in T \ {i} : h[x] = g[x]
      /\ h[i] = row.items[p]
  BY DEF SaleRow
<1>2. Returned(r, p) = SumFunctionOnSet(g, T) /\ Returned(q, p) = SumFunctionOnSet(h, U)
  BY DEF Returned
<1>. HIDE DEF q, g, h, T, U
<1>3. IsFiniteSet(T)
  BY <1>1, FS_Subset
<1>4. SumFunctionOnSet(g, T) \in Int
  BY <1>1, <1>3, SumType
<1>5. SumFunctionOnSet(h, U) = SumFunctionOnSet(g, T) - Share(g, T, i) + Share(h, U, i)
  BY <1>1, SumChange
<1>6. QED
  BY <1>1, <1>2, <1>4, <1>5 DEF q, Share

LEMMA ReturnedOnceIs ==
    /\ ReturnedOnce <=> \A p \in Product : moved[p]["RETURN"] = Returned(sale, p)
    /\ ReturnedOnce' <=> \A p \in Product : moved'[p]["RETURN"] = Returned(sale', p)
BY DEF ReturnedOnce, Returned

\* A cancellation in flight is of a sale that is not cancelled yet.
CancelsOpen(w) == txn[w].op = "cancelSale" => sale[txn[w].sale].status = "COMPLETED"

ReturnInv == ReturnedOnce /\ \A w \in Worker : CancelsOpen(w)

LEMMA InitReturns == Init => ReturnInv
<1>. SUFFICES ASSUME Init PROVE ReturnInv
  OBVIOUS
<1>1. \A w \in Worker : CancelsOpen(w)
  BY DEF Init, CancelsOpen, Idle
<1>2. ASSUME NEW p \in Product
      PROVE  moved[p]["RETURN"] = Returned(sale, p)
  <2>1. {i \in Sale : sale[i].status = "CANCELLED"} = {} /\ moved[p]["RETURN"] = 0
    BY DEF Init, MovementType
  <2>2. QED
    BY <2>1, SumNone DEF Returned
<1>3. QED
  BY <1>1, <1>2, ReturnedOnceIs DEF ReturnInv

\* A step that makes no return and cancels no sale.
LEMMA ReturnsKept ==
    ASSUME IsFiniteSet(Sale), TypeOK, ReturnedOnce,
           \A p \in Product : moved'[p]["RETURN"] = moved[p]["RETURN"],
           \/ UNCHANGED sale
           \/ \E i \in Sale, row \in SaleRow :
                  /\ sale[i].status = "NONE" /\ row.status = "COMPLETED"
                  /\ sale' = [sale EXCEPT ![i] = row]
    PROVE  ReturnedOnce'
<1>1. CASE UNCHANGED sale
  BY <1>1, ReturnedOnceIs
<1>2. ASSUME NEW i \in Sale, NEW row \in SaleRow, sale[i].status = "NONE",
             row.status = "COMPLETED", sale' = [sale EXCEPT ![i] = row], NEW p \in Product
      PROVE  moved'[p]["RETURN"] = Returned(sale', p)
  <2>1. sale \in [Sale -> SaleRow]
    BY DEF TypeOK
  <2>2. Returned([sale EXCEPT ![i] = row], p) = Returned(sale, p) + 0
    BY <1>2, <2>1, SaleReturned
  <2>3. moved[p]["RETURN"] = Returned(sale, p) /\ moved[p]["RETURN"] \in Int
    BY ReturnedOnceIs, MovedFields
  <2>4. QED
    BY <1>2, <2>2, <2>3
<1>3. QED
  BY <1>1, <1>2, ReturnedOnceIs

LEMMA CancelReturns ==
    ASSUME IsFiniteSet(Sale), TypeOK, ReturnedOnce, NEW w \in Worker, CancelsOpen(w),
           CommitCancelSale(w)
    PROVE  ReturnedOnce'
<1>. DEFINE i == txn[w].sale
            row == [status |-> "CANCELLED", items |-> sale[i].items]
<1>1. sale \in [Sale -> SaleRow] /\ i \in Sale /\ sale[i].status = "COMPLETED"
  BY TxnFields DEF CommitCancelSale, TypeOK, CancelsOpen
<1>2. row \in SaleRow
  BY <1>1 DEF SaleRow
<1>3. [sale[i] EXCEPT !.status = "CANCELLED"] = row
  BY <1>1 DEF SaleRow
<1>4. sale' = [sale EXCEPT ![i] = row]
  BY <1>3 DEF CommitCancelSale
<1>5. ASSUME NEW p \in Product
      PROVE  moved'[p]["RETURN"] = Returned(sale', p)
  <2>1. moved'[p]["RETURN"] = moved[p]["RETURN"] + row.items[p]
    BY CancelAdds DEF Adds
  <2>2. row.status = "CANCELLED" /\ row.items = sale[i].items
    OBVIOUS
  <2>3. moved[p]["RETURN"] = Returned(sale, p)
    BY ReturnedOnceIs
  <2>. HIDE DEF row, i
  <2>4. Returned([sale EXCEPT ![i] = row], p) = Returned(sale, p) + row.items[p]
    BY <1>1, <1>2, <2>2, SaleReturned
  <2>5. QED
    BY <1>4, <2>1, <2>3, <2>4
<1>6. QED
  BY <1>5, ReturnedOnceIs

LEMMA ReturnNext ==
    ASSUME IsFiniteSet(Sale), OneWorker, Exact, TypeOK, StockInv, ReturnInv, [Next]_vars
    PROVE  ReturnInv'
<1>1. ASSUME NEW w \in Worker, ReadStep(w)
      PROVE  ReturnInv'
  <2>1. UNCHANGED Tables
    BY <1>1, ReadTakes
  <2>2. ReturnedOnce'
    BY <2>1, ReturnsKept DEF ReturnInv, Tables
  <2>3. CancelsOpen(w)'
    <3>1. CASE \E i \in Sale : ReadCancelSale(w, i)
      BY <2>1, <3>1 DEF ReadCancelSale, Begin, TypeOK, CancelsOpen, Tables
    <3>2. CASE ReadSale(w)
      BY <3>2 DEF ReadSale, Begin, TypeOK, CancelsOpen
    <3>3. CASE ReadAddStock(w) \/ ReadAdjustStock(w) \/ ReadWasteStock(w)
      BY <3>3 DEF ReadAddStock, ReadAdjustStock, ReadWasteStock, ReadStock, Begin, TypeOK,
         CancelsOpen
    <3>4. QED
      BY <1>1, <3>1, <3>2, <3>3 DEF ReadStep
  <2>4. QED
    BY <2>2, <2>3 DEF ReturnInv, OneWorker
<1>2. ASSUME NEW w \in Worker, CommitStep(w) \/ Abort(w)
      PROVE  \A v \in Worker : CancelsOpen(v)'
  BY <1>2, EndsIdle DEF CancelsOpen, Idle, OneWorker
<1>3. ASSUME NEW w \in Worker, CommitStep(w) \/ Abort(w)
      PROVE  ReturnedOnce'
  <2>1. CASE \E i \in Sale : CommitSale(w, i)
    <3>1. PICK i \in Sale : CommitSale(w, i)
      BY <2>1
    <3>2. [status |-> "COMPLETED", items |-> txn[w].items] \in SaleRow
      BY <3>1, TxnFields DEF CommitSale, SaleRow
    <3>3. /\ sale[i].status = "NONE"
          /\ sale' = [sale EXCEPT ![i] = [status |-> "COMPLETED", items |-> txn[w].items]]
      BY <3>1 DEF CommitSale
    <3>4. \A p \in Product : moved'[p]["RETURN"] = moved[p]["RETURN"]
      BY <3>1, SaleAdds, MovedFields DEF Adds
    <3>5. QED
      BY <3>2, <3>3, <3>4, ReturnsKept DEF ReturnInv
  <2>2. CASE CommitCancelSale(w)
    BY <2>2, CancelReturns DEF ReturnInv
  <2>3. ASSUME NEW p \in Product, NEW type \in MovementType \ {"RETURN"}, NEW q \in Int,
               Move(p, type, q), UNCHANGED sale
        PROVE  ReturnedOnce'
    <3>1. \A r \in Product : moved'[r]["RETURN"] = moved[r]["RETURN"]
      BY <2>3, MoveAdds, MovedFields DEF Adds
    <3>2. QED
      BY <2>3, <3>1, ReturnsKept DEF ReturnInv
  <2>4. CASE CommitAddStock(w)
    <3>1. /\ txn[w].product \in Product /\ txn[w].quantity \in Int
          /\ Move(txn[w].product, "STOCK_IN", txn[w].quantity) /\ UNCHANGED sale
      BY <2>4, TxnFields DEF CommitAddStock
    <3>2. QED
      BY <2>3, <3>1 DEF MovementType
  <2>5. CASE CommitAdjustStock(w)
    <3>1. /\ txn[w].product \in Product /\ txn[w].quantity - txn[w].previous \in Int
          /\ Move(txn[w].product, "ADJUSTMENT", txn[w].quantity - txn[w].previous)
          /\ UNCHANGED sale
      BY <2>5, TxnFields DEF CommitAdjustStock
    <3>2. QED
      BY <2>3, <3>1 DEF MovementType
  <2>6. CASE CommitWasteStock(w)
    <3>1. /\ txn[w].product \in Product /\ -txn[w].quantity \in Int
          /\ Move(txn[w].product, "WASTE", -txn[w].quantity) /\ UNCHANGED sale
      BY <2>6, TxnFields DEF CommitWasteStock
    <3>2. QED
      BY <2>3, <3>1 DEF MovementType
  <2>7. CASE Abort(w)
    BY <2>7, ReturnsKept DEF Abort, Tables, ReturnInv
  <2>8. QED
    BY <1>3, <2>1, <2>2, <2>4, <2>5, <2>6, <2>7 DEF CommitStep
<1>4. CASE Next
  BY <1>1, <1>2, <1>3, <1>4, NextSteps DEF ReturnInv
<1>5. CASE UNCHANGED vars
  BY <1>5, ReturnsKept DEF ReturnInv, CancelsOpen, vars
<1>6. QED
  BY <1>4, <1>5

\* When requests do not overlap, no product leaves the shelf that did not come
\* in, and what came back is what the cancelled sales had sold, once.
THEOREM UnitsMoveOnly ==
    ASSUME Exact, OneWorker, IsFiniteSet(Sale) PROVE Spec => []UnitsMoveOnce
<1>1. Init => TypeOK /\ StockInv /\ StockSerialInv /\ ReturnInv
  BY InitInv, InitLedger, InitReturns
<1>2. TypeOK /\ StockInv /\ StockSerialInv /\ ReturnInv /\ [Next]_vars
          => (TypeOK /\ StockInv /\ StockSerialInv /\ ReturnInv)'
  BY NextInv, SerialNext, ReturnNext
<1>3. TypeOK /\ StockInv /\ StockSerialInv /\ ReturnInv => UnitsMoveOnce
  <2>. SUFFICES ASSUME TypeOK, StockInv, StockSerialInv, ReturnInv PROVE UnitsMoveOnce
    OBVIOUS
  <2>1. ASSUME NEW p \in Product
        PROVE  inventory[p].totalOut <= inventory[p].totalIn + moved[p]["RETURN"]
    <3>1. /\ inventory[p].totalIn - inventory[p].totalOut = NetMoved(p)
          /\ inventory[p].current = NetMoved(p) + moved[p]["RETURN"]
          /\ inventory[p].current >= 0
      BY DEF StockSerialInv, TotalsInv, TotalsMatchMovements, StockExplained, StockInv,
         NonNegativeStock
    <3>2. QED
      BY <3>1, RowFields, MovedFields
  <2>2. QED
    BY <2>1 DEF UnitsMoveOnce, NeverOversold, ReturnInv
<1>4. QED
  BY <1>1, <1>2, <1>3, PTL DEF Spec
=============================================================================
