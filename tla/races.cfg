SPECIFICATION MCSpec
CONSTANTS
    Worker = {w1, w2}
    User = {ana}
    NoUser = NoUser
    Sale = {s1}
    ManualAccount = {}
    Payment = {p1}
    MaxSession = 1
    Amount = {1, 2}
    Opening = {1}
    Counted = {0}
    Approver = {ana}
    EntryType = {"WITHDRAWAL"}
    LedgerCap = 1
    AllowCashDiscrepancyClose = FALSE
    RequireCashDiscrepancyReason = FALSE
    Member = {leo}
    Reward = {shirt}
    Redemption = {x1, x2}
    Employee = {founder, x1, x2, x3}
    Last = x3
    Founder = founder
    Support = support
    MaxUsers = 2
    Permission = {"users.create", "users.update", "users.disable", "users.permissions.update"}
    Manageable = {"MANAGER", "EMPLOYEE"}
    MaxOverrides = 1
    MaxTokens = 1
SYMMETRY Symmetry
INVARIANTS
    AccountBalanced
    CancelledSaleReturned
    LedgerReconciles
    RewardsReconcile
    PowersEntrusted
    SeatsBounded
CHECK_DEADLOCK FALSE
