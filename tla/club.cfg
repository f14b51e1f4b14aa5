SPECIFICATION MCSpec
CONSTANTS
    Worker = {w1, w2}
    Member = {m1}
    Key = {a1, a2, k3}
    NoKey = NoKey
    ClientKey = k3
    Incident = {i1}
    AskedStatus = {"ACTIVE", "DELETED"}
    User = {a1, a2}
    NoUser = NoUser
    Message = {x1}
    Lead = {a1, a2}
    Tenant = {a1, a2}
    NoTenant = NoTenant
    Owner = {o1}
    Contact = {a1, a2}
    Task = {k1}
    FirstTasks = 0
    MaxRecent = 1
    AskedLeadStatus = {"APPROVED", "REJECTED"}
    Subscriber = {b1}
    Plan = {p1}
    NoPlan = NoPlan
    Module = {a1, a2}
    Client = {a1, a2}
    Code = {c1, c2}
SYMMETRY Symmetry
INVARIANTS
    PhotosKept
    LeadsKept
    ModulesKept
PROPERTIES
    DecisionsStand
    DeletionStands
    ParticipantsOnly
    WorkspaceKept
    EntersOnce
CHECK_DEADLOCK FALSE
