SPECIFICATION Spec
CONSTANTS
    Worker = {w1}
    Member = {leo}
    Reward = {shirt}
    Redemption = {x1, x2}
    Amount = {1, 2}
    Cost = {1, 2}
    Stock = {0, 1}
    MaxGranted = 4
    MaxWithdrawn = 1
SYMMETRY Symmetry
PROPERTIES
    KeepsBook
CHECK_DEADLOCK FALSE
