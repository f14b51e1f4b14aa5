SPECIFICATION Spec
CONSTANTS
    Worker = {w1, w2}
    Conversation = {c1, c2}
    Collaborator = {ana, bea, leo}
    Agent = {a1, a2}
    MaxRow = 2
    MaxGroup = 1
SYMMETRY Symmetry
CONSTRAINT GroupsAfterOverlap
INVARIANTS
    OneConversation
    OneAgent
PROPERTIES
    GroupsKept
CHECK_DEADLOCK FALSE
