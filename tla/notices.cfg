SPECIFICATION FairSpec
CONSTANTS
    Worker = {w1, w2}
    Server = {s1, s2}
    Condition = {c1}
    Event = {e1}
    Notice = {n1, n2, n3, n4, n5}
    MaxMoves = 2
    MaxFailures = 1
INVARIANTS
    NoticedOnce
PROPERTIES
    Settled
CHECK_DEADLOCK FALSE
