SPECIFICATION FairSpec
CONSTANTS
    Worker = {w1, w2, w3}
    NoWorker = NoWorker
    Products = 2
    Sale = {s1, s2}
    Pool = 3
INVARIANTS
    SalesNeverDeadlock
    GoodsFollowMoney
PROPERTIES
    EveryRequestEnds
CHECK_DEADLOCK FALSE
