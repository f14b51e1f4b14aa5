SPECIFICATION Spec
CONSTANTS
    Worker = {w1, w2}
    User = {ana}
    NoUser = NoUser
    Sale = {}
    ManualAccount = {m1}
    Payment = {}
    MaxSession = 1
    Amount = {1, 2}
    Opening = {1}
    Counted = {0}
    Approver = {}
    EntryType = {}
    LedgerCap = 1
    AllowCashDiscrepancyClose = FALSE
    RequireCashDiscrepancyReason = FALSE
INVARIANTS
    CollectedWithinDebt
CHECK_DEADLOCK FALSE
