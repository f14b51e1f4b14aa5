SPECIFICATION Spec
CONSTANTS
    Worker = {w1, w2}
    Tenant = {t1}
    Invoice = {i1, i2}
    HandStatus = {"ARCHIVED"}
    AskedStatus = {"CANCELLED"}
    EditedStatus = {"VOID"}
SYMMETRY Symmetry
INVARIANTS
    BilledOnce
    NextNumberFree
PROPERTIES
    StatusJustified
CHECK_DEADLOCK FALSE
