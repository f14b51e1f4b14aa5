SPECIFICATION Spec
CONSTANTS
    Worker = {w1}
    Product = {p1, p2}
    Sale = {s1}
    Bulk = {p1}
    Quantity = {1, 2}
    Grain = 1
    MaxTotal = 2
    ScaleVerificationEnabled = TRUE
    RequireScaleVerification = FALSE
    AllowUnderWeight = FALSE
    AutoRegisterScaleWaste = TRUE
    ScaleToleranceAction = "REQUIRE_MANAGER_CONFIRMATION"
    MaxWastePerLine = 0
    MaxWastePercent = 0
INVARIANTS
    StockExplained
    UnitsMoveOnce
    NonNegativeStock
    TotalsMatchMovements
CHECK_DEADLOCK FALSE
