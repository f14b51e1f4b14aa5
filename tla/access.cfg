SPECIFICATION Spec
CONSTANTS
    Worker = {w1, w2}
    Link = {l1, l2}
    Lock = {e1, e2}
    Login = {s1, s2}
    Password = {p1, p2}
    Secret = {k1, k2}
    NoSecret = NoSecret
    RequireAccessLink = FALSE
SYMMETRY Symmetry
INVARIANTS
    EmergencyHolds
    PasswordEndsSessions
    EnabledIsProven
CHECK_DEADLOCK FALSE
