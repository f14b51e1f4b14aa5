------------------------------ MODULE Inventory -----------------------------
(***************************************************************************)
(* The stock of the products: every handler that writes the tables         *)
(* inventory and inventory_movements (pos.service.ts createSale and        *)
(* cancelSale, inventory.service.ts addStock, adjustStock and wasteStock). *)
(*                                                                         *)
(* As in CashDesk a handler is one READ COMMITTED transaction that reads   *)
(* before it writes: Read... takes the reads and the guards, Commit...     *)
(* makes the writes visible at once.  Handlers write currentQuantity as    *)
(* the absolute value they computed from what they read; only cancelSale   *)
(* and the totals are incremented in the database.                         *)
(*                                                                         *)
(* Quantities are in units of the precision the code computes with         *)
(* (roundKg: six decimals).  The columns of inventory keep three: Grain is *)
(* the number of units in one step of those columns.  The movements keep   *)
(* all six decimals and are kept here as their total per product and type, *)
(* which is all that the properties read of them.  Every product has its   *)
(* inventory row, as products.service.ts creates it.                       *)
(***************************************************************************)
EXTENDS Integers, FiniteSetsExt

CONSTANTS
    Worker,      \* transactions that can be in flight at once
    Product, Sale,
    Bulk,        \* products sold by weight (UnitType.KG)
    Quantity,    \* quantities requested, weighed, added, wasted, counted
    Grain,       \* precision of the columns of inventory
    MaxTotal,    \* bound: totalStockIn and totalStockOut of a product
    \* settings of the tenant
    ScaleVerificationEnabled, RequireScaleVerification, AllowUnderWeight,
    AutoRegisterScaleWaste, ScaleToleranceAction, MaxWastePerLine, MaxWastePercent

ASSUME ConstantsOK ==
    /\ Bulk \subseteq Product
    /\ Quantity \subseteq Nat \ {0}
    /\ Grain \in Nat \ {0}
    /\ MaxTotal \in Nat
    /\ ScaleVerificationEnabled \in BOOLEAN
    /\ RequireScaleVerification \in BOOLEAN
    /\ AllowUnderWeight \in BOOLEAN
    /\ AutoRegisterScaleWaste \in BOOLEAN
    /\ ScaleToleranceAction \in
         {"BLOCK", "REQUIRE_MANAGER_CONFIRMATION", "ALLOW_WITH_WARNING"}
    /\ MaxWastePerLine \in Nat
    /\ MaxWastePercent \in Nat

VARIABLES
    inventory,   \* inventory
    moved,       \* inventory_movements, total quantity per product and type
    sale,        \* sales and the quantity of each product on them
    txn          \* what the transaction of each worker has read

vars == <<inventory, moved, sale, txn>>
-----------------------------------------------------------------------------
MovementType == {"STOCK_IN", "SALE", "WASTE", "ADJUSTMENT", "RETURN"}
InventoryRow == [current : Int, totalIn : Nat, totalOut : Nat, lost : Nat]
SaleRow ==
    [status : {"NONE", "COMPLETED", "CANCELLED"}, items : [Product -> Nat]]

Idle == [op |-> "idle"]
\* items: what is asked for; taken: what leaves the shelf; zero for products not sold.
Txn ==
    {Idle}
    \cup [op : {"createSale"}, items : [Product -> Nat], taken : [Product -> Nat],
          onHand : [Product -> Int]]
    \cup [op : {"cancelSale"}, sale : Sale]
    \cup [op : {"addStock", "adjustStock", "wasteStock"}, product : Product,
          previous : Int, quantity : Nat]

TypeOK ==
    /\ inventory \in [Product -> InventoryRow]
    /\ moved \in [Product -> [MovementType -> Int]]
    /\ sale \in [Sale -> SaleRow]
    /\ txn \in [Worker -> Txn]

Init ==
    /\ inventory = [p \in Product |-> [current |-> 0, totalIn |-> 0, totalOut |-> 0, lost |-> 0]]
    /\ moved = [p \in Product |-> [m \in MovementType |-> 0]]
    /\ sale = [i \in Sale |-> [status |-> "NONE", items |-> [p \in Product |-> 0]]]
    /\ txn = [w \in Worker |-> Idle]
-----------------------------------------------------------------------------
\* What a column of inventory keeps of a quantity: rounded half up.
Store(x) == ((2 * x + Grain) \div (2 * Grain)) * Grain

Begin(w, t) == txn[w] = Idle /\ txn' = [txn EXCEPT ![w] = t]
Done(w) == txn' = [txn EXCEPT ![w] = Idle]
Tables == <<inventory, moved, sale>>

\* The transaction is rolled back: lost connection, timeout, crash of the server.
Abort(w) == txn[w] # Idle /\ Done(w) /\ UNCHANGED Tables

\* A movement of one product (inventoryMovement.create).
Move(p, type, quantity) == moved' = [moved EXCEPT ![p][type] = @ + quantity]
-----------------------------------------------------------------------------
(* Sales: the stock side of PosService.createSale and cancelSale.          *)

Waste(asked, weight) == IF weight > asked THEN weight - asked ELSE 0

\* resolveScaleData: the tolerated waste of a line, by weight or by percentage.
MaxAllowedWaste(asked) ==
    LET byPercent == (2 * asked * MaxWastePercent + 100) \div 200 IN
    IF MaxWastePerLine >= byPercent THEN MaxWastePerLine ELSE byPercent

WithinTolerance(asked, weight, override) ==
    Waste(asked, weight) > MaxAllowedWaste(asked) =>
        CASE ScaleToleranceAction = "BLOCK" -> FALSE
          [] ScaleToleranceAction = "REQUIRE_MANAGER_CONFIRMATION" -> override
          [] OTHER -> TRUE

Weighed(p) == p \in Bulk /\ ScaleVerificationEnabled

\* The quantities a line may state: the verified weight of a weighed product,
\* otherwise what was asked for.
Stated(p, asked, override) ==
    IF ~Weighed(p) THEN {asked}
    ELSE {weight \in Quantity : /\ weight < asked => AllowUnderWeight
                                /\ WithinTolerance(asked, weight, override)}
         \cup {q \in {asked} : ~RequireScaleVerification}

\* (mutant) the stock on hand is not looked at.
TakenUnchecked(p, asked, override) == Stated(p, asked, override)

\* The quantities a line may take from the shelf.
Taken(p, asked, override) ==
    {q \in Stated(p, asked, override) : q <= inventory[p].current}

\* A request names each product at most once; override: the user may exceed
\* the tolerance and states a reason.
ReadSale(w) ==
    \E asked \in [Product -> Quantity \cup {0}], taken \in [Product -> Quantity \cup {0}],
       override \in BOOLEAN :
        /\ \E p \in Product : asked[p] > 0
        /\ \A p \in Product :
              IF asked[p] = 0 THEN taken[p] = 0
              ELSE taken[p] \in Taken(p, asked[p], override)
        /\ Begin(w, [op |-> "createSale", items |-> asked, taken |-> taken,
                     onHand |-> [p \in Product |-> inventory[p].current]])
        /\ UNCHANGED Tables

\* What is registered as waste of the scale.
ScaleWaste(t, p) ==
    IF AutoRegisterScaleWaste THEN Waste(t.items[p], t.taken[p]) ELSE 0

\* (mutant) the movement of the sale takes the weight, the waste comes on top.
CommitSaleWeight(w, i) ==
    LET t == txn[w] IN
    /\ t.op = "createSale"
    /\ sale[i].status = "NONE"
    /\ \A p \in Product : inventory[p].totalOut + t.taken[p] <= MaxTotal   \* bound
    /\ sale' = [sale EXCEPT ![i] = [status |-> "COMPLETED", items |-> t.items]]
    /\ inventory' = [p \in Product |->
           IF t.items[p] = 0 THEN inventory[p]
           ELSE [inventory[p] EXCEPT
                   !.current = Store(t.onHand[p] - t.taken[p]),
                   !.totalOut = Store(inventory[p].totalOut + t.taken[p])]]
    /\ moved' = [p \in Product |->
           [moved[p] EXCEPT !["SALE"] = @ - t.taken[p],
                            !["WASTE"] = @ - ScaleWaste(t, p)]]
    /\ Done(w)

CommitSale(w, i) ==
    LET t == txn[w] IN
    /\ t.op = "createSale"
    /\ sale[i].status = "NONE"
    /\ \A p \in Product : inventory[p].totalOut + t.taken[p] <= MaxTotal   \* bound
    /\ sale' = [sale EXCEPT ![i] = [status |-> "COMPLETED", items |-> t.items]]
    /\ inventory' = [p \in Product |->
           IF t.items[p] = 0 THEN inventory[p]
           ELSE [inventory[p] EXCEPT
                   !.current = Store(t.onHand[p] - t.taken[p]),
                   !.totalOut = Store(inventory[p].totalOut + t.taken[p])]]
    /\ moved' = [p \in Product |->
           [moved[p] EXCEPT !["SALE"] = @ - t.items[p],
                            !["WASTE"] = @ - ScaleWaste(t, p)]]
    /\ Done(w)

\* (mutant) a cancelled sale is not refused.
ReadCancelAgain(w, i) ==
    /\ sale[i].status # "NONE"
    /\ Begin(w, [op |-> "cancelSale", sale |-> i])
    /\ UNCHANGED Tables

ReadCancelSale(w, i) ==
    /\ sale[i].status = "COMPLETED"
    /\ Begin(w, [op |-> "cancelSale", sale |-> i])
    /\ UNCHANGED Tables

CommitCancelSale(w) ==
    LET i == txn[w].sale
        items == sale[i].items IN
    /\ txn[w].op = "cancelSale"
    /\ sale' = [sale EXCEPT ![i].status = "CANCELLED"]
    /\ inventory' = [p \in Product |->
           [inventory[p] EXCEPT !.current = Store(inventory[p].current + items[p])]]
    /\ moved' = [p \in Product |-> [moved[p] EXCEPT !["RETURN"] = @ + items[p]]]
    /\ Done(w)
-----------------------------------------------------------------------------
(* InventoryService.addStock, adjustStock, wasteStock.                     *)

ReadStock(w, op, p, quantity) ==
    /\ Begin(w, [op |-> op, product |-> p, previous |-> inventory[p].current,
                 quantity |-> quantity])
    /\ UNCHANGED Tables

ReadAddStock(w) ==
    \E p \in Product, quantity \in Quantity : ReadStock(w, "addStock", p, quantity)

CommitAddStock(w) ==
    LET t == txn[w]
        p == t.product IN
    /\ t.op = "addStock"
    /\ inventory[p].totalIn + t.quantity <= MaxTotal   \* bound
    /\ inventory' = [inventory EXCEPT ![p] =
           [@ EXCEPT !.current = Store(t.previous + t.quantity),
                     !.totalIn = Store(inventory[p].totalIn + t.quantity)]]
    /\ Move(p, "STOCK_IN", t.quantity)
    /\ Done(w)
    /\ UNCHANGED sale

ReadAdjustStock(w) ==
    \E p \in Product, quantity \in Quantity \cup {0} :
        ReadStock(w, "adjustStock", p, quantity)

\* The part of a difference that counts as an entry, or as an exit if negated.
Positive(x) == IF x > 0 THEN x ELSE 0

\* (mutant) the totals of an adjustment are swapped.
CommitAdjustSwapped(w) ==
    LET t == txn[w]
        p == t.product
        difference == t.quantity - t.previous IN
    /\ t.op = "adjustStock"
    /\ inventory[p].totalIn + Positive(difference) <= MaxTotal    \* bound
    /\ inventory[p].totalOut + Positive(-difference) <= MaxTotal  \* bound
    /\ inventory' = [inventory EXCEPT ![p] =
           [@ EXCEPT !.current = Store(t.quantity),
                     !.totalIn = Store(inventory[p].totalIn + Positive(-difference)),
                     !.totalOut = Store(inventory[p].totalOut + Positive(difference))]]
    /\ Move(p, "ADJUSTMENT", difference)
    /\ Done(w)
    /\ UNCHANGED sale

CommitAdjustStock(w) ==
    LET t == txn[w]
        p == t.product
        difference == t.quantity - t.previous IN
    /\ t.op = "adjustStock"
    /\ inventory[p].totalIn + Positive(difference) <= MaxTotal    \* bound
    /\ inventory[p].totalOut + Positive(-difference) <= MaxTotal  \* bound
    /\ inventory' = [inventory EXCEPT ![p] =
           [@ EXCEPT !.current = Store(t.quantity),
                     !.totalIn = Store(inventory[p].totalIn + Positive(difference)),
                     !.totalOut = Store(inventory[p].totalOut + Positive(-difference))]]
    /\ Move(p, "ADJUSTMENT", difference)
    /\ Done(w)
    /\ UNCHANGED sale

ReadWasteStock(w) ==
    \E p \in Product, quantity \in Quantity :
        /\ quantity <= inventory[p].current
        /\ ReadStock(w, "wasteStock", p, quantity)

CommitWasteStock(w) ==
    LET t == txn[w]
        p == t.product IN
    /\ t.op = "wasteStock"
    /\ inventory[p].totalOut + t.quantity <= MaxTotal   \* bound
    /\ inventory' = [inventory EXCEPT ![p] =
           [@ EXCEPT !.current = Store(t.previous - t.quantity),
                     !.lost = Store(inventory[p].lost + t.quantity),
                     !.totalOut = Store(inventory[p].totalOut + t.quantity)]]
    /\ Move(p, "WASTE", -t.quantity)
    /\ Done(w)
    /\ UNCHANGED sale
-----------------------------------------------------------------------------
Next ==
    \E w \in Worker :
        \/ ReadSale(w)         \/ \E i \in Sale : CommitSale(w, i)
        \/ CommitCancelSale(w) \/ \E i \in Sale : ReadCancelSale(w, i)
        \/ ReadAddStock(w)     \/ CommitAddStock(w)
        \/ ReadAdjustStock(w)  \/ CommitAdjustStock(w)
        \/ ReadWasteStock(w)   \/ CommitWasteStock(w)
        \/ Abort(w)

Spec == Init /\ [][Next]_vars
-----------------------------------------------------------------------------
(* Properties that hold whatever the interleaving of the transactions.     *)

\* The stock of a product is never negative: a handler writes a value it
\* checked against what it read, however stale (pos.service.ts:487-522,
\* inventory.service.ts:327-334).
NonNegativeStock == \A p \in Product : inventory[p].current >= 0

\* What the movements of a product other than returns add up to.
NetMoved(p) ==
    moved[p]["STOCK_IN"] + moved[p]["SALE"] + moved[p]["WASTE"] + moved[p]["ADJUSTMENT"]

\* The totals of a product are those of its movements, even when overlapping
\* transactions overwrite each other's stock: both are only ever added to.
\* Holds when every line takes what its movements say (waste is registered, no
\* under-weight) and at whole steps of the columns.
TotalsMatchMovements ==
    \A p \in Product : inventory[p].totalIn - inventory[p].totalOut = NetMoved(p)
-----------------------------------------------------------------------------
(* Properties that hold when requests do not overlap (one worker).         *)

\* The stock on hand is the sum of the movements: the movement history
\* explains every gram on the shelf (README.md:26).
StockExplained ==
    \A p \in Product : inventory[p].current = NetMoved(p) + moved[p]["RETURN"]

\* The shop never hands out more of a product than came in and came back
\* (pos.service.ts:487-491).
NeverOversold ==
    \A p \in Product :
        inventory[p].totalOut <= inventory[p].totalIn + moved[p]["RETURN"]

\* What came back is what the cancelled sales had sold, once
\* (pos.service.ts:933-971).
ReturnedOnce ==
    \A p \in Product :
        moved[p]["RETURN"] =
            SumFunctionOnSet([i \in Sale |-> sale[i].items[p]],
                             {i \in Sale : sale[i].status = "CANCELLED"})

\* Units leave the shelf only if they came in, and come back only from a
\* cancelled sale, once: the guards of createSale (pos.service.ts:487-491) and
\* of cancelSale (:933) hold over any sequence of requests.
UnitsMoveOnce == NeverOversold /\ ReturnedOnce
=============================================================================
