-------------------------------- MODULE Staff --------------------------------
(***************************************************************************)
(* Who works in a club and what they may do there: the users of a tenant,  *)
(* their roles, states and permissions (users.service.ts), the tokens that *)
(* carry the permissions (auth.service.ts), and the support session in     *)
(* which the platform acts as an owner (platform.service.ts).              *)
(*                                                                         *)
(* A club is created with one owner; nobody is made an owner later.  Only  *)
(* owners have the permissions over users by their role: others have them  *)
(* from an override.  A token carries the permissions its user had when it *)
(* was signed, and no handler looks them up again: it keeps them when its  *)
(* user is disabled, demoted or denied one.                                *)
(*                                                                         *)
(* A row of tenant_users is never deleted, and its user never changes.     *)
(* What disable, update and updateRole read before they write is only      *)
(* that, so that they are one step; createEmployee counts the seats of the *)
(* plan before it hashes the password and begins its transaction.          *)
(***************************************************************************)
EXTENDS Naturals, FiniteSets, Requests

CONSTANTS
    User,          \* bound: users who ever belong to the club
    Founder,       \* the owner the club was created with
    Support,       \* the platform's administrator in a support session
    MaxUsers,      \* of the plan of the club
    Permission,    \* permissions over users; an instance may leave some unused
    Manageable,    \* ensureManageableRole: the roles that are given to others
    MaxOverrides,  \* bound: overrides at the same time
    MaxTokens      \* bound: sets of permissions the tokens of a user have at the same time

\* Assumed by the module that checks this one.
ConstantsOK ==
    /\ IsFiniteSet(User)
    /\ IsFiniteSet(Worker)
    /\ Worker # {}
    /\ Founder \in User
    /\ Support \notin User
    /\ MaxUsers \in Nat \ {0}
    /\ Permission \subseteq {"users.create", "users.update", "users.disable",
                           "users.permissions.update"}
    /\ Manageable \subseteq {"MANAGER", "EMPLOYEE"}
    /\ MaxOverrides \in Nat
    /\ MaxTokens \in Nat

VARIABLES
    role,       \* tenant_users
    status,     \* tenant_users
    override,   \* user_permission_overrides
    token,      \* permissions of each token that has not expired
    entrusted,  \* history: others than the founder who were given a permission
    reopened,   \* history: users whose BLOCKED was ever taken back
    left        \* history: the founder wrote the own status

vars == <<role, status, override, token, entrusted, reopened, left, txn, overlapped>>
-----------------------------------------------------------------------------
Role == {"OWNER", "MANAGER", "EMPLOYEE"}
Status == {"ACTIVE", "INACTIVE", "BLOCKED"}
Actor == User \cup {Support}

Txn ==
    {Idle}
    \cup [op : {"createEmployee"}]
    \cup [op : {"login"}, user : User, permissions : SUBSET Permission]

TypeOK ==
    /\ role \in [User -> Role \cup {"NONE"}]
    /\ status \in [User -> Status]
    /\ override \in [User -> [Permission -> {"NONE", "ALLOWED", "DENIED"}]]
    /\ token \in [Actor -> SUBSET (SUBSET Permission)]
    /\ entrusted \subseteq Actor
    /\ reopened \subseteq User
    /\ left \in BOOLEAN
    /\ overlapped \in BOOLEAN
    /\ txn \in [Worker -> Txn]

Init ==
    /\ role = [u \in User |-> IF u = Founder THEN "OWNER" ELSE "NONE"]
    /\ status = [u \in User |-> "ACTIVE"]
    /\ override = [u \in User |-> [p \in Permission |-> "NONE"]]
    /\ token = [a \in Actor |-> {}]
    /\ entrusted = {}
    /\ reopened = {}
    /\ left = FALSE
    /\ NoRequests

Belongs(u) == role[u] # "NONE"

\* Those who take a seat of the plan.
Seated == {u \in User : Belongs(u) /\ status[u] # "BLOCKED"}

\* (mutant) managers have them too.
RolePermissionsOfManagers(r) == IF r \in {"OWNER", "MANAGER"} THEN Permission ELSE {}

RolePermissions(r) == IF r = "OWNER" THEN Permission ELSE {}

Overrides == {o \in User \X Permission : override[o[1]][o[2]] # "NONE"}

\* PermissionsGuard: what the token says.
May(a, permission) == \E t \in token[a] : permission \in t

\* Refused half-way, lost or crashed: a transaction leaves nothing behind.
Abort(w) ==
    /\ txn[w] # Idle
    /\ Done(w)
    /\ UNCHANGED <<role, status, override, token, entrusted, reopened, left>>
-----------------------------------------------------------------------------
(* Tokens                                                                  *)

\* login, up to the role: of a user who is ACTIVE in the club.
ReadLogin(w, u) ==
    /\ Belongs(u) /\ status[u] = "ACTIVE"
    /\ Begin(w, [op |-> "login", user |-> u, permissions |-> RolePermissions(role[u])])
    /\ UNCHANGED <<role, status, override, token, entrusted, reopened, left>>

\* getPermissionsForTenantUser: an override adds to the role or takes from it.
Effective(permissions, u) ==
    (permissions \ {p \in Permission : override[u][p] = "DENIED"})
        \cup {p \in Permission : override[u][p] = "ALLOWED"}

SignToken(w) ==
    /\ txn[w].op = "login"
    /\ LET u == txn[w].user
           signed == token[u] \cup {Effective(txn[w].permissions, u)}
       IN  /\ Cardinality(signed) <= MaxTokens
           /\ token' = [token EXCEPT ![u] = signed]
    /\ Done(w)
    /\ UNCHANGED <<role, status, override, entrusted, reopened, left>>

\* impersonateSupportSession
Impersonate(w) ==
    /\ AtOnce(w)
    /\ token' = [token EXCEPT ![Support] = {Permission}]
    /\ entrusted' = entrusted \cup {Support}
    /\ UNCHANGED <<role, status, override, reopened, left>>

\* revokeSession, or after 24 hours by itself.
EndToken(w, a) ==
    /\ AtOnce(w)
    /\ \E t \in token[a] : token' = [token EXCEPT ![a] = @ \ {t}]
    /\ UNCHANGED <<role, status, override, entrusted, reopened, left>>
-----------------------------------------------------------------------------
(* Users                                                                   *)

\* (mutant) only those who can enter are counted.
HasSeatAmongActive == Cardinality({u \in Seated : status[u] = "ACTIVE"}) < MaxUsers

HasSeat == Cardinality(Seated) < MaxUsers

ReadCreateEmployee(w, a) ==
    /\ May(a, "users.create")
    /\ HasSeat
    /\ Begin(w, [op |-> "createEmployee"])
    /\ UNCHANGED <<role, status, override, token, entrusted, reopened, left>>

CommitCreateEmployee(w) ==
    /\ txn[w].op = "createEmployee"
    /\ \E u \in User, r \in Manageable :
          /\ ~Belongs(u)
          /\ role' = [role EXCEPT ![u] = r]
          /\ status' = [status EXCEPT ![u] = "ACTIVE"]
    /\ Done(w)
    /\ UNCHANGED <<override, token, entrusted, reopened, left>>

\* What a write of s to the status of u is remembered as.
Reopen(u, s) ==
    reopened' = IF status[u] = "BLOCKED" /\ s # "BLOCKED" THEN reopened \cup {u} ELSE reopened

\* update: whoever may edit users may write any status, the own one included.
Update(w, a, u, s) ==
    /\ AtOnce(w)
    /\ May(a, "users.update")
    /\ Belongs(u)
    /\ status' = [status EXCEPT ![u] = s]
    /\ Reopen(u, s)
    /\ left' = (left \/ (a = Founder /\ u = Founder))
    /\ UNCHANGED <<role, override, token, entrusted>>

\* (mutant) a user may disable the own membership.
DisableAny(w, a, u) ==
    /\ AtOnce(w)
    /\ May(a, "users.disable")
    /\ Belongs(u)
    /\ status' = [status EXCEPT ![u] = "INACTIVE"]
    /\ Reopen(u, "INACTIVE")
    /\ UNCHANGED <<role, override, token, entrusted, left>>

Disable(w, a, u) ==
    /\ AtOnce(w)
    /\ May(a, "users.disable")
    /\ Belongs(u)
    /\ u # a
    /\ status' = [status EXCEPT ![u] = "INACTIVE"]
    /\ Reopen(u, "INACTIVE")
    /\ UNCHANGED <<role, override, token, entrusted, left>>

\* (mutant) a user may change the own role.
UpdateAnyRole(w, a, u) ==
    /\ AtOnce(w)
    /\ May(a, "users.permissions.update")
    /\ Belongs(u)
    /\ \E r \in Manageable : role' = [role EXCEPT ![u] = r]
    /\ UNCHANGED <<status, override, token, entrusted, reopened, left>>

UpdateRole(w, a, u) ==
    /\ AtOnce(w)
    /\ May(a, "users.permissions.update")
    /\ Belongs(u)
    /\ u # a
    /\ \E r \in Manageable : role' = [role EXCEPT ![u] = r]
    /\ UNCHANGED <<status, override, token, entrusted, reopened, left>>

\* updateUserPermission; setting is "NONE" when dto.allowed is null.
UpdateUserPermission(w, a, u, permission, setting) ==
    /\ AtOnce(w)
    /\ May(a, "users.permissions.update")
    /\ Belongs(u)
    /\ override' = [override EXCEPT ![u] = [@ EXCEPT ![permission] = setting]]
    /\ Cardinality(Overrides') <= MaxOverrides
    /\ entrusted' =
          IF setting = "ALLOWED" /\ u # Founder THEN entrusted \cup {u} ELSE entrusted
    /\ UNCHANGED <<role, status, token, reopened, left>>
-----------------------------------------------------------------------------
Next ==
    \E w \in Worker :
        \/ Abort(w)
        \/ \E u \in User : ReadLogin(w, u)
        \/ SignToken(w)
        \/ Impersonate(w)
        \/ CommitCreateEmployee(w)
        \/ \E a \in Actor :
              \/ EndToken(w, a)
              \/ ReadCreateEmployee(w, a)
              \/ \E u \in User :
                    \/ \E s \in Status : Update(w, a, u, s)
                    \/ Disable(w, a, u)
                    \/ UpdateRole(w, a, u)
                    \/ \E p \in Permission, setting \in {"NONE", "ALLOWED", "DENIED"} :
                          UpdateUserPermission(w, a, u, p, setting)

Spec == Init /\ [][Next]_vars
-----------------------------------------------------------------------------
\* As long as nobody else was given a permission over users, and the platform did
\* not step in, the club keeps its owner: no sequence of logins, new employees,
\* changes of role and tokens that outlive them takes the role from the founder,
\* or the access, unless the founder edits the own status (users.service.ts:238, 300).
OwnerKept ==
    entrusted = {} =>
        /\ role[Founder] = "OWNER"
        /\ left \/ status[Founder] = "ACTIVE"

\* The seats of the plan are counted before the transaction: requests that overlap
\* exceed them by one less than there are requests, and those who were blocked come
\* back without being counted (users.service.ts:75-88).
SeatsBounded ==
    Cardinality(Seated \ reopened) <= MaxUsers + Cardinality(Worker) - 1

\* A token that carries a permission over users belongs to an owner of the club or
\* to somebody who was given one, also when the role or the permission has been
\* taken away since the token was signed (auth.service.ts:346-378).
TokensEntrusted ==
    \A a \in Actor : (\E p \in Permission : May(a, p)) => a = Founder \/ a \in entrusted

\* Nobody comes by a power over users that no owner gave, and without it nobody takes the
\* club from its founder (users.service.ts:238, 300; auth.service.ts:346-378).
PowersEntrusted == OwnerKept /\ TokensEntrusted
=============================================================================
