SPECIFICATION Spec
CONSTANTS
    Worker = {w1}
    User = {ana}
    NoUser = NoUser
    Sale = {s1}
    ManualAccount = {m1}
    Payment = {p1}
    MaxSession = 2
    Amount = {1, 2}
    Opening = {1}
    Counted = {0}
    Approver = {ana}
    EntryType = {"WITHDRAWAL"}
    LedgerCap = 1
    AllowCashDiscrepancyClose = TRUE
    RequireCashDiscrepancyReason = TRUE
INVARIANTS
    CashExplained
    CollectedWithinDebt
    CancelReturnsOnce
PROPERTIES
    DeskInOrder
CONSTRAINT ApprovedByHand
CHECK_DEADLOCK FALSE
