------------------------------ MODULE ClubProofs ------------------------------
(***************************************************************************)
(* Theorems of the parts of a club's system that are small: the staff, the *)
(* way in, the member portal, messages, the modules of plans, members,     *)
(* onboarding, games and notices.  They hold for any number of requests    *)
(* and rows.                                                               *)
(*                                                                         *)
(* What a request has read may be stale when it writes, so that little is  *)
(* true of it: its ids are of rows that were there, and what it has set    *)
(* aside for itself is its own.  While requests have not overlapped,       *)
(* however, there is one of them at most, nobody else has written, and     *)
(* what it has read still stands.  The invariant of each part says both,   *)
(* for every request in flight.  Those of the staff and of the notices do  *)
(* without the second: what a token or an override allows was given by     *)
(* somebody, a seat counts for the request that has found it free, and     *)
(* notices are kept by a lock.                                             *)
(***************************************************************************)
EXTENDS Club, ClubGames, ClubNotices, ClubStaff, ClubAccess, Sums, FiniteSetTheorems, TLAPS
-----------------------------------------------------------------------------
(* Requests                                                                *)

\* The requests but that of w have read nothing; they do nothing.
OthersIdle(w) == \A v \in Worker \ {w} : txn[v].op = "idle"
OthersStay(w) == \A v \in Worker \ {w} : txn'[v] = txn[v]

\* Unless requests have overlapped, one is in flight at most.
Alone == ~overlapped => \A v, w \in Worker : txn[v].op = "idle" \/ txn[w].op = "idle" \/ v = w

\* What beginning, going on and ending mean for the request and for the others.
LEMMA Steps ==
    ASSUME NEW T, txn \in [Worker -> T], Alone, NEW w \in Worker
    PROVE  /\ \A t : Begin(w, t) =>
                 /\ txn[w].op = "idle" /\ txn'[w] = t /\ OthersStay(w)
                 /\ ~overlapped' => ~overlapped /\ OthersIdle(w)
           /\ \A t : Continue(w, t) =>
                 /\ txn'[w] = t /\ OthersStay(w) /\ overlapped' = overlapped
                 /\ ~overlapped /\ txn[w].op # "idle" => OthersIdle(w)
           /\ Done(w) =>
                 /\ txn'[w].op = "idle" /\ OthersStay(w) /\ overlapped' = overlapped
                 /\ ~overlapped /\ txn[w].op # "idle" => OthersIdle(w)
           /\ AtOnce(w) =>
                 /\ txn[w].op = "idle" /\ txn' = txn
                 /\ ~overlapped' => ~overlapped /\ OthersIdle(w)
<1>1. ~overlapped /\ txn[w].op # "idle" => OthersIdle(w)
  BY DEF Alone, OthersIdle
<1>2. Idle.op = "idle"
  BY DEF Idle
<1>3. ASSUME NEW t, txn' = [txn EXCEPT ![w] = t]
      PROVE  txn'[w] = t /\ OthersStay(w)
  BY <1>3 DEF OthersStay
<1>4. ASSUME Overlap(w)
      PROVE  ~overlapped' => ~overlapped /\ OthersIdle(w)
  BY <1>2, <1>4 DEF Overlap, OthersIdle
<1>5. QED
  BY <1>1, <1>2, <1>3, <1>4 DEF Begin, Continue, Done, AtOnce

\* Whatever w does, another request in flight beside its own is remembered as an overlap.
LEMMA StaysAlone ==
    ASSUME Alone, NEW w \in Worker, OthersStay(w),
           ~overlapped' => ~overlapped /\ (txn'[w].op = "idle" \/ OthersIdle(w))
    PROVE  Alone'
BY DEF Alone, OthersStay, OthersIdle

\* What beginning and going on mean for a request that is the only one.
LEMMA OwnSteps ==
    ASSUME NEW T, txn \in [Worker -> T], Alone, NEW w \in Worker, NEW t,
           Begin(w, t) \/ (Continue(w, t) /\ txn[w].op # "idle")
    PROVE  txn'[w] = t /\ OthersStay(w) /\ (~overlapped' => ~overlapped /\ OthersIdle(w))
<1>1. CASE Begin(w, t)
  BY <1>1, Steps
<1>2. CASE Continue(w, t) /\ txn[w].op # "idle"
  BY <1>2, Steps
<1>3. QED
  BY <1>1, <1>2

\* A set whose members are all the same has one at most.
LEMMA OneAtMost == ASSUME NEW S, \A a, b \in S : a = b PROVE Cardinality(S) <= 1
<1>1. CASE S = {}
  BY <1>1, FS_EmptySet
<1>2. CASE S # {}
  <2>1. PICK a : S = {a}
    BY <1>2
  <2>2. Cardinality({a}) = 1
    BY FS_Singleton
  <2>3. QED
    BY <2>1, <2>2
<1>3. QED
  BY <1>1, <1>2

-----------------------------------------------------------------------------
(* The staff of a club: powers over users, and the seats of the plan.      *)

\* An instance has its own copy of the definitions of FiniteSets.
LEMMA TeamSets ==
    \A S : (Team!IsFiniteSet(S) <=> IsFiniteSet(S)) /\ Team!Cardinality(S) = Cardinality(S)
<1>1. \A S : Team!IsFiniteSet(S) <=> IsFiniteSet(S)
  BY DEF Team!IsFiniteSet, IsFiniteSet
<1>2. \A S : Team!Cardinality(S) = Cardinality(S)
  BY <1>1 DEF Team!Cardinality, Cardinality
<1>3. QED
  BY <1>1, <1>2

StaffFields ==
    \A w \in Worker : txn[w].op = "login" =>
        txn[w].user \in Employee /\ txn[w].permissions \subseteq Permission

\* The writes of the handlers are typed.
LEMMA StaffTyped == ASSUME Team!ConstantsOK, Team!TypeOK, [Team!Next]_Team!vars PROVE Team!TypeOK'
<1>1. StaffFields
  BY DEF Team!TypeOK, Team!Txn, Team!Idle, StaffFields
<1>2. ASSUME NEW w \in Worker, NEW t \in Team!Txn, Team!Begin(w, t)
      PROVE  txn' \in [Worker -> Team!Txn] /\ crossed' \in BOOLEAN
  BY <1>2 DEF Team!Begin, Team!Overlap, Team!TypeOK
<1>3. ASSUME NEW w \in Worker, Team!Done(w)
      PROVE  txn' \in [Worker -> Team!Txn] /\ crossed' \in BOOLEAN
  BY <1>3 DEF Team!Done, Team!Continue, Team!TypeOK, Team!Txn
<1>4. ASSUME NEW w \in Worker, Team!AtOnce(w)
      PROVE  txn' \in [Worker -> Team!Txn] /\ crossed' \in BOOLEAN
  BY <1>4 DEF Team!AtOnce, Team!Overlap, Team!TypeOK
<1>5. CASE UNCHANGED Team!vars
  BY <1>5 DEF Team!vars, Team!TypeOK
<1>6. ASSUME NEW w \in Worker, Team!Abort(w)
      PROVE  Team!TypeOK'
  BY <1>3, <1>6 DEF Team!Abort, Team!TypeOK
<1>7. ASSUME NEW w \in Worker, NEW u \in Employee, Team!ReadLogin(w, u)
      PROVE  Team!TypeOK'
  <2>1. [op |-> "login", user |-> u, permissions |-> Team!RolePermissions(role[u])] \in Team!Txn
    BY DEF Team!Txn, Team!RolePermissions
  <2>2. QED
    BY <1>2, <1>7, <2>1 DEF Team!ReadLogin, Team!TypeOK
<1>8. ASSUME NEW w \in Worker, Team!SignToken(w)
      PROVE  Team!TypeOK'
  <2>. DEFINE u == txn[w].user  signed == token[u] \cup {Team!Effective(txn[w].permissions, u)}
  <2>1. u \in Employee /\ u \in Team!Actor
      /\ Team!Effective(txn[w].permissions, u) \subseteq Permission
    BY <1>1, <1>8 DEF Team!SignToken, StaffFields, Team!Effective, Team!Actor
  <2>2. signed \in SUBSET (SUBSET Permission)
    BY <2>1 DEF Team!TypeOK
  <2>3. token' = [token EXCEPT ![u] = signed]
    BY <1>8 DEF Team!SignToken
  <2>. HIDE DEF u, signed
  <2>4. token' \in [Team!Actor -> SUBSET (SUBSET Permission)]
    BY <2>1, <2>2, <2>3 DEF Team!TypeOK
  <2>5. QED
    BY <1>3, <1>8, <2>4 DEF Team!SignToken, Team!TypeOK
<1>9. ASSUME NEW w \in Worker, Team!Impersonate(w)
      PROVE  Team!TypeOK'
  BY <1>4, <1>9 DEF Team!Impersonate, Team!TypeOK, Team!Actor
<1>10. ASSUME NEW w \in Worker, NEW a \in Team!Actor, Team!EndToken(w, a)
       PROVE  Team!TypeOK'
  BY <1>4, <1>10 DEF Team!EndToken, Team!TypeOK
<1>11. ASSUME NEW w \in Worker, NEW a \in Team!Actor, Team!ReadCreateEmployee(w, a)
       PROVE  Team!TypeOK'
  <2>1. [op |-> "createEmployee"] \in Team!Txn
    BY DEF Team!Txn
  <2>2. QED
    BY <1>2, <1>11, <2>1 DEF Team!ReadCreateEmployee, Team!TypeOK
<1>12. ASSUME NEW w \in Worker, Team!CommitCreateEmployee(w)
       PROVE  Team!TypeOK'
  BY <1>3, <1>12
  DEF Team!ConstantsOK, Team!CommitCreateEmployee, Team!TypeOK, Team!Role, Team!Status
<1>13. ASSUME NEW w \in Worker, NEW a \in Team!Actor, NEW u \in Employee,
              (\E s \in Team!Status : Team!Update(w, a, u, s)) \/ Team!Disable(w, a, u)
       PROVE  Team!TypeOK'
  BY <1>4, <1>13 DEF Team!Update, Team!Disable, Team!Reopen, Team!TypeOK, Team!Status
<1>14. ASSUME NEW w \in Worker, NEW a \in Team!Actor, NEW u \in Employee, Team!UpdateRole(w, a, u)
       PROVE  Team!TypeOK'
  BY <1>4, <1>14 DEF Team!ConstantsOK, Team!UpdateRole, Team!TypeOK, Team!Role
<1>15. ASSUME NEW w \in Worker, NEW a \in Team!Actor, NEW u \in Employee, NEW p \in Permission,
              NEW chosen \in {"NONE", "ALLOWED", "DENIED"},
              Team!UpdateUserPermission(w, a, u, p, chosen)
       PROVE  Team!TypeOK'
  <2>1. [override[u] EXCEPT ![p] = chosen] \in [Permission -> {"NONE", "ALLOWED", "DENIED"}]
    BY DEF Team!TypeOK
  <2>2. override' \in [Employee -> [Permission -> {"NONE", "ALLOWED", "DENIED"}]]
    BY <1>15, <2>1 DEF Team!UpdateUserPermission, Team!TypeOK
  <2>3. entrusted' \subseteq Team!Actor
    BY <1>15 DEF Team!UpdateUserPermission, Team!TypeOK, Team!Actor
  <2>4. QED
    BY <1>4, <1>15, <2>2, <2>3 DEF Team!UpdateUserPermission, Team!TypeOK
<1>16. QED
  BY <1>5, <1>6, <1>7, <1>8, <1>9, <1>10, <1>11, <1>12, <1>13, <1>14, <1>15 DEF Team!Next

\* Whence powers come: from the role of the founder, the only owner; from an override that
\* somebody was entrusted with; from a token or a login that began with either.
PowersInv ==
    /\ Team!OwnerKept /\ Team!TokensEntrusted
    /\ \A u \in Employee : role[u] = "OWNER" => u = Founder
    /\ \A u \in Employee, p \in Permission :
          override[u][p] = "ALLOWED" => u = Founder \/ u \in entrusted
    /\ \A w \in Worker : txn[w].op = "login" =>
          txn[w].permissions = {} \/ txn[w].user = Founder

LEMMA InitStaff == ASSUME Team!ConstantsOK PROVE Team!Init => Team!TypeOK /\ PowersInv
<1>. SUFFICES ASSUME Team!Init
              PROVE  Team!TypeOK /\ PowersInv
  OBVIOUS
<1>1. Team!Init => Team!TypeOK
  BY DEF Team!Init, Team!TypeOK, Team!NoRequests, Team!Txn, Team!Role, Team!Status, Team!Actor
<1>2. \A w \in Worker : txn[w].op = "idle"
  BY DEF Team!Init, Team!NoRequests, Team!Idle
<1>3. Team!OwnerKept /\ Team!TokensEntrusted
  BY DEF Team!ConstantsOK, Team!Init, Team!OwnerKept, Team!TokensEntrusted, Team!May
<1>4. QED
  BY <1>1, <1>2, <1>3 DEF Team!Init, PowersInv

\* A step that touches no role, state or override, and no token but those it ends.
LEMMA PowersKept ==
    ASSUME PowersInv, UNCHANGED <<role, status, override, entrusted, left>>,
           \A a \in Team!Actor : token'[a] \subseteq token[a],
           \A w \in Worker : txn'[w] = txn[w] \/ txn'[w].op # "login"
                                \/ txn'[w].permissions = {} \/ txn'[w].user = Founder
    PROVE  PowersInv'
<1>1. Team!TokensEntrusted'
  BY DEF PowersInv, Team!TokensEntrusted, Team!May
<1>2. Team!OwnerKept'
  BY DEF PowersInv, Team!OwnerKept
<1>3. \A w \in Worker : txn'[w].op = "login" => txn'[w].permissions = {} \/ txn'[w].user = Founder
  BY DEF PowersInv
<1>4. QED
  BY <1>1, <1>2, <1>3 DEF PowersInv

LEMMA MightIsEntrusted ==
    ASSUME Team!TypeOK, PowersInv, NEW a \in Team!Actor, NEW p, Team!May(a, p)
    PROVE  a = Founder \/ a \in entrusted
<1>1. \A t \in token[a] : t \subseteq Permission
  BY DEF Team!TypeOK
<1>2. QED
  BY <1>1 DEF Team!May, PowersInv, Team!TokensEntrusted

LEMMA NextPowers ==
    ASSUME Team!ConstantsOK, Team!TypeOK, PowersInv, [Team!Next]_Team!vars
    PROVE  PowersInv'
<1>1. CASE UNCHANGED Team!vars
  BY <1>1, PowersKept DEF Team!vars
<1>2. ASSUME NEW w \in Worker, Team!Done(w)
      PROVE  \A v \in Worker : txn'[v] = txn[v] \/ txn'[v].op # "login"
  BY <1>2 DEF Team!Done, Team!Continue, Team!TypeOK, Team!Idle
<1>3. ASSUME NEW w \in Worker, Team!Abort(w)
      PROVE  PowersInv'
  BY <1>2, <1>3, PowersKept DEF Team!Abort
<1>4. ASSUME NEW w \in Worker, NEW u \in Employee, Team!ReadLogin(w, u)
      PROVE  PowersInv'
  <2>1. /\ txn'[w] = [op |-> "login", user |-> u, permissions |-> Team!RolePermissions(role[u])]
        /\ \A v \in Worker \ {w} : txn'[v] = txn[v]
    BY <1>4 DEF Team!ReadLogin, Team!Begin, Team!TypeOK
  <2>2. txn'[w].user = u /\ txn'[w].permissions = Team!RolePermissions(role[u])
    BY <2>1
  <2>3. Team!RolePermissions(role[u]) = {} \/ u = Founder
    BY DEF Team!RolePermissions, PowersInv
  <2>4. QED
    BY <1>4, <2>1, <2>2, <2>3, PowersKept DEF Team!ReadLogin
<1>5. ASSUME NEW w \in Worker, Team!SignToken(w)
      PROVE  PowersInv'
  <2>. PICK u : u = txn[w].user
    OBVIOUS
  <2>. PICK t : t = Team!Effective(txn[w].permissions, u)
    OBVIOUS
  <2>1. u \in Employee /\ u \in Team!Actor
    BY <1>5 DEF Team!SignToken, Team!TypeOK, Team!Txn, Team!Idle, Team!Actor
  <2>2. t = {} \/ u = Founder \/ u \in entrusted
    <3>1. txn[w].permissions = {} \/ u = Founder
      BY <1>5 DEF PowersInv, Team!SignToken
    <3>2. QED
      BY <2>1, <3>1 DEF PowersInv, Team!Effective
  <2>3. token' = [token EXCEPT ![u] = token[u] \cup {t}]
    BY <1>5 DEF Team!SignToken
  <2>4. Team!TokensEntrusted'
    <3>1. ASSUME NEW a \in Team!Actor, NEW p \in Permission, NEW s \in token'[a], p \in s
          PROVE  a = Founder \/ a \in entrusted
      <4>1. CASE s \in token[a]
        BY <3>1, <4>1 DEF PowersInv, Team!TokensEntrusted, Team!May
      <4>2. CASE a = u /\ s = t
        BY <2>2, <3>1, <4>2
      <4>3. QED
        BY <2>1, <2>3, <3>1, <4>1, <4>2 DEF Team!TypeOK
    <3>2. QED
      BY <1>5, <3>1 DEF Team!SignToken, Team!TokensEntrusted, Team!May
  <2>5. Team!OwnerKept'
    BY <1>5 DEF Team!SignToken, PowersInv, Team!OwnerKept
  <2>6. \A v \in Worker : txn'[v].op = "login" =>
            txn'[v].permissions = {} \/ txn'[v].user = Founder
    BY <1>2, <1>5 DEF Team!SignToken, PowersInv
  <2>7. QED
    BY <1>5, <2>4, <2>5, <2>6 DEF Team!SignToken, PowersInv
<1>6. ASSUME NEW w \in Worker, Team!Impersonate(w)
      PROVE  PowersInv'
  <2>1. \A a \in Team!Actor : a = Support \/ token'[a] = token[a]
    BY <1>6 DEF Team!Impersonate, Team!TypeOK
  <2>2. Support \in entrusted' /\ entrusted \subseteq entrusted' /\ entrusted' # {}
    BY <1>6 DEF Team!Impersonate
  <2>3. Team!TokensEntrusted'
    BY <2>1, <2>2 DEF PowersInv, Team!TokensEntrusted, Team!May
  <2>4. Team!OwnerKept'
    BY <2>2 DEF Team!OwnerKept
  <2>5. QED
    BY <1>6, <2>2, <2>3, <2>4 DEF Team!Impersonate, Team!AtOnce, PowersInv
<1>7. ASSUME NEW w \in Worker, NEW a \in Team!Actor, Team!EndToken(w, a)
      PROVE  PowersInv'
  <2>1. \A b \in Team!Actor : token'[b] \subseteq token[b]
    BY <1>7 DEF Team!EndToken, Team!TypeOK
  <2>2. QED
    BY <1>7, <2>1, PowersKept DEF Team!EndToken, Team!AtOnce, PowersInv
<1>8. ASSUME NEW w \in Worker, NEW a \in Team!Actor, Team!ReadCreateEmployee(w, a)
      PROVE  PowersInv'
  <2>1. \A v \in Worker : txn'[v] = txn[v] \/ txn'[v].op = "createEmployee"
    BY <1>8 DEF Team!ReadCreateEmployee, Team!Begin, Team!TypeOK
  <2>2. QED
    BY <1>8, <2>1, PowersKept DEF Team!ReadCreateEmployee
<1>9. ASSUME NEW w \in Worker, Team!CommitCreateEmployee(w)
      PROVE  PowersInv'
  <2>1. PICK u \in Employee, r \in Manageable :
            ~Team!Belongs(u) /\ role' = [role EXCEPT ![u] = r]
            /\ status' = [status EXCEPT ![u] = "ACTIVE"]
    BY <1>9 DEF Team!CommitCreateEmployee
  <2>2. r # "OWNER" /\ role'[u] = r /\ \A v \in Employee \ {u} :
            role'[v] = role[v] /\ status'[v] = status[v]
    BY <2>1 DEF Team!ConstantsOK, Team!TypeOK
  <2>3. entrusted = {} => u # Founder
    BY <2>1 DEF Team!Belongs, PowersInv, Team!OwnerKept
  <2>4. Team!OwnerKept'
    BY <1>9, <2>2, <2>3 DEF Team!CommitCreateEmployee, Team!ConstantsOK, PowersInv, Team!OwnerKept
  <2>5. Team!TokensEntrusted'
    BY <1>9 DEF Team!CommitCreateEmployee, PowersInv, Team!TokensEntrusted, Team!May
  <2>6. \A v \in Worker : txn'[v].op = "login" =>
            txn'[v].permissions = {} \/ txn'[v].user = Founder
    BY <1>2, <1>9 DEF Team!CommitCreateEmployee, PowersInv
  <2>7. \A v \in Employee : role'[v] = "OWNER" => v = Founder
    BY <2>2 DEF PowersInv
  <2>8. QED
    BY <1>9, <2>4, <2>5, <2>6, <2>7 DEF Team!CommitCreateEmployee, PowersInv
<1>10. ASSUME NEW w \in Worker, NEW a \in Team!Actor, NEW u \in Employee,
              (\E s \in Team!Status : Team!Update(w, a, u, s)) \/ Team!Disable(w, a, u)
       PROVE  PowersInv'
  <2>1. /\ UNCHANGED <<role, override, token, entrusted, txn>>
        /\ \A v \in Employee \ {u} : status'[v] = status[v]
        /\ left => left'
    BY <1>10 DEF Team!Update, Team!Disable, Team!AtOnce, Team!TypeOK
  <2>2. entrusted = {} => a = Founder
    BY <1>10, MightIsEntrusted DEF Team!Update, Team!Disable
  <2>3. a = Founder /\ u = Founder => left'
    BY <1>10 DEF Team!Update, Team!Disable
  <2>4. Team!OwnerKept'
    BY <2>1, <2>2, <2>3 DEF Team!ConstantsOK, PowersInv, Team!OwnerKept
  <2>5. Team!TokensEntrusted'
    BY <2>1 DEF PowersInv, Team!TokensEntrusted, Team!May
  <2>6. QED
    BY <2>1, <2>4, <2>5 DEF PowersInv
<1>11. ASSUME NEW w \in Worker, NEW a \in Team!Actor, NEW u \in Employee, Team!UpdateRole(w, a, u)
       PROVE  PowersInv'
  <2>1. PICK r \in Manageable : role' = [role EXCEPT ![u] = r]
    BY <1>11 DEF Team!UpdateRole
  <2>2. /\ UNCHANGED <<status, override, token, entrusted, left, txn>> /\ u # a
        /\ role'[u] = r /\ r # "OWNER" /\ \A v \in Employee \ {u} : role'[v] = role[v]
    BY <1>11, <2>1 DEF Team!ConstantsOK, Team!UpdateRole, Team!AtOnce, Team!TypeOK
  <2>3. entrusted = {} => a = Founder
    BY <1>11, MightIsEntrusted DEF Team!UpdateRole
  <2>4. Team!OwnerKept'
    BY <2>2, <2>3 DEF Team!ConstantsOK, PowersInv, Team!OwnerKept
  <2>5. Team!TokensEntrusted'
    BY <2>2 DEF PowersInv, Team!TokensEntrusted, Team!May
  <2>6. \A v \in Employee : role'[v] = "OWNER" => v = Founder
    BY <2>2 DEF PowersInv
  <2>7. QED
    BY <2>2, <2>4, <2>5, <2>6 DEF PowersInv
<1>12. ASSUME NEW w \in Worker, NEW a \in Team!Actor, NEW u \in Employee, NEW p \in Permission,
              NEW chosen \in {"NONE", "ALLOWED", "DENIED"},
              Team!UpdateUserPermission(w, a, u, p, chosen)
       PROVE  PowersInv'
  <2>1. /\ UNCHANGED <<role, status, token, left, txn>> /\ entrusted \subseteq entrusted'
        /\ chosen = "ALLOWED" => u = Founder \/ u \in entrusted'
        /\ override' = [override EXCEPT ![u] = [override[u] EXCEPT ![p] = chosen]]
    BY <1>12 DEF Team!UpdateUserPermission, Team!AtOnce
  <2>2. /\ override'[u][p] = chosen
        /\ \A v \in Employee, q \in Permission :
              v # u \/ q # p => override'[v][q] = override[v][q]
    BY <2>1 DEF Team!TypeOK
  <2>3. \A v \in Employee, q \in Permission :
            override'[v][q] = "ALLOWED" => v = Founder \/ v \in entrusted'
    BY <2>1, <2>2 DEF PowersInv
  <2>4. Team!OwnerKept'
    BY <2>1 DEF PowersInv, Team!OwnerKept
  <2>5. Team!TokensEntrusted'
    BY <2>1 DEF PowersInv, Team!TokensEntrusted, Team!May
  <2>6. QED
    BY <2>1, <2>3, <2>4, <2>5 DEF PowersInv
<1>13. QED
  BY <1>1, <1>3, <1>4, <1>5, <1>6, <1>7, <1>8, <1>9, <1>10, <1>11, <1>12 DEF Team!Next

\* Whatever is in flight, nobody comes by a power over users that was not given, and without
\* it nobody takes the club from its founder.
THEOREM PowersAreEntrusted == Team!Spec => []PowersEntrusted
<1>1. Team!TypeOK /\ PowersInv /\ [Team!Next]_Team!vars => (Team!TypeOK /\ PowersInv)'
  BY StaffTyped, NextPowers, StaffOK
<1>2. Team!Init => Team!TypeOK /\ PowersInv
  BY InitStaff, StaffOK
<1>3. PowersInv => PowersEntrusted
  BY DEF PowersInv, PowersEntrusted, Team!PowersEntrusted
<1>4. QED
  BY <1>1, <1>2, <1>3, PTL DEF Team!Spec


\* Requests that have counted the seats and not yet taken one.
Hiring == {w \in Worker : txn[w].op = "createEmployee"}

SeatsInv ==
    Cardinality(Team!Seated \ unblocked) + Cardinality(Hiring)
        <= MaxUsers + Cardinality(Worker) - 1

LEMMA Counts ==
    ASSUME Team!ConstantsOK
    PROVE  /\ IsFiniteSet(Team!Seated \ unblocked) /\ IsFiniteSet(Hiring)
           /\ IsFiniteSet(Team!Seated)
           /\ Cardinality(Team!Seated \ unblocked) \in Nat /\ Cardinality(Hiring) \in Nat
           /\ Cardinality(Team!Seated) \in Nat /\ Cardinality(Worker) \in Nat \ {0}
           /\ MaxUsers \in Nat
           /\ Cardinality(Hiring) <= Cardinality(Worker)
           /\ Cardinality(Team!Seated \ unblocked) <= Cardinality(Team!Seated)
<1>1. Team!Seated \subseteq Employee /\ Team!Seated \ unblocked \subseteq Team!Seated
    /\ Hiring \subseteq Worker
  BY DEF Team!Seated, Hiring
<1>2. IsFiniteSet(Employee) /\ IsFiniteSet(Worker) /\ Worker # {} /\ MaxUsers \in Nat
  BY TeamSets DEF Team!ConstantsOK
<1>3. IsFiniteSet(Team!Seated) /\ IsFiniteSet(Hiring)
  BY <1>1, <1>2, FS_Subset
<1>4. IsFiniteSet(Team!Seated \ unblocked)
  BY <1>1, <1>3, FS_Subset
<1>5. /\ Cardinality(Hiring) <= Cardinality(Worker)
      /\ Cardinality(Team!Seated \ unblocked) <= Cardinality(Team!Seated)
  BY <1>1, <1>2, <1>3, FS_Subset
<1>6. Cardinality(Worker) \in Nat \ {0}
  BY <1>2, FS_CardinalityType, FS_EmptySet
<1>7. QED
  BY <1>2, <1>3, <1>4, <1>5, <1>6, FS_CardinalityType

LEMMA OneMore ==
    ASSUME NEW S, IsFiniteSet(S), NEW x
    PROVE  IsFiniteSet(S \cup {x}) /\ Cardinality(S \cup {x}) <= Cardinality(S) + 1
<1>1. Cardinality(S) \in Nat
  BY FS_CardinalityType
<1>2. x \in S => S \cup {x} = S
  OBVIOUS
<1>3. QED
  BY <1>1, <1>2, FS_AddElement

\* A step that gives nobody a seat and lets nobody hire.
LEMMA NoSeatTaken ==
    ASSUME Team!ConstantsOK, SeatsInv, Team!Seated' \ unblocked' \subseteq Team!Seated \ unblocked,
           Hiring' \subseteq Hiring
    PROVE  SeatsInv'
<1>1. /\ Cardinality(Team!Seated' \ unblocked') \in Nat /\ Cardinality(Hiring') \in Nat
      /\ Cardinality(Team!Seated' \ unblocked') <= Cardinality(Team!Seated \ unblocked)
      /\ Cardinality(Hiring') <= Cardinality(Hiring)
  BY Counts, FS_Subset, FS_CardinalityType
<1>2. QED
  BY <1>1, Counts DEF SeatsInv

LEMMA NextSeats ==
    ASSUME Team!ConstantsOK, Team!TypeOK, SeatsInv, [Team!Next]_Team!vars
    PROVE  SeatsInv'
<1>1. ASSUME UNCHANGED <<role, status, unblocked>>, Hiring' \subseteq Hiring
      PROVE  SeatsInv'
  BY <1>1, NoSeatTaken DEF Team!Seated, Team!Belongs
<1>2. CASE UNCHANGED Team!vars
  BY <1>1, <1>2 DEF Team!vars, Hiring
<1>3. ASSUME NEW w \in Worker, Team!Done(w)
      PROVE  Hiring' = Hiring \ {w}
  BY <1>3 DEF Team!Done, Team!Continue, Hiring, Team!TypeOK, Team!Idle
<1>4. ASSUME NEW w \in Worker, NEW t, Team!Begin(w, t)
      PROVE  Hiring' \subseteq Hiring \cup {w} /\ (t.op # "createEmployee" => Hiring' = Hiring)
  BY <1>4 DEF Team!Begin, Hiring, Team!TypeOK, Team!Idle
<1>5. ASSUME NEW w \in Worker, Team!Abort(w) \/ Team!SignToken(w)
      PROVE  SeatsInv'
  BY <1>1, <1>3, <1>5 DEF Team!Abort, Team!SignToken
<1>6. ASSUME NEW w \in Worker, NEW u \in Employee, Team!ReadLogin(w, u)
      PROVE  SeatsInv'
  <2>1. Hiring' = Hiring
    BY <1>4, <1>6 DEF Team!ReadLogin
  <2>2. QED
    BY <1>1, <1>6, <2>1 DEF Team!ReadLogin
<1>7. ASSUME NEW w \in Worker, Team!Impersonate(w) \/ \E a \in Team!Actor : Team!EndToken(w, a)
      PROVE  SeatsInv'
  BY <1>1, <1>7 DEF Team!Impersonate, Team!EndToken, Team!AtOnce, Hiring
<1>8. ASSUME NEW w \in Worker, NEW a \in Team!Actor, Team!ReadCreateEmployee(w, a)
      PROVE  SeatsInv'
  <2>1. Cardinality(Team!Seated) < MaxUsers /\ Hiring' \subseteq Worker
    BY <1>8, TeamSets DEF Team!ReadCreateEmployee, Team!HasSeat, Hiring
  <2>2. Cardinality(Hiring') <= Cardinality(Worker) /\ Cardinality(Hiring') \in Nat
    BY <2>1, FS_Subset, FS_CardinalityType, TeamSets DEF Team!ConstantsOK
  <2>3. UNCHANGED <<Team!Seated, unblocked>>
    BY <1>8 DEF Team!ReadCreateEmployee, Team!Seated, Team!Belongs
  <2>4. Cardinality(Team!Seated' \ unblocked') = Cardinality(Team!Seated \ unblocked)
    BY <2>3
  <2>5. Cardinality(Team!Seated \ unblocked) <= MaxUsers - 1
    BY <2>1, Counts
  <2>6. Cardinality(Team!Seated' \ unblocked') + Cardinality(Hiring')
            <= MaxUsers + Cardinality(Worker) - 1
    BY <2>2, <2>4, <2>5, Counts
  <2>7. QED
    BY <2>6 DEF SeatsInv
<1>9. ASSUME NEW w \in Worker, Team!CommitCreateEmployee(w)
      PROVE  SeatsInv'
  <2>1. PICK u \in Employee, r \in Manageable :
            ~Team!Belongs(u) /\ role' = [role EXCEPT ![u] = r]
            /\ status' = [status EXCEPT ![u] = "ACTIVE"]
    BY <1>9 DEF Team!CommitCreateEmployee
  <2>2. UNCHANGED unblocked /\ Hiring' = Hiring \ {w} /\ w \in Hiring
    BY <1>3, <1>9 DEF Team!CommitCreateEmployee, Hiring
  <2>3. Team!Seated' \ unblocked' \subseteq (Team!Seated \ unblocked) \cup {u}
    BY <2>1, <2>2 DEF Team!Seated, Team!Belongs, Team!TypeOK
  <2>4. Cardinality(Hiring') = Cardinality(Hiring) - 1
    BY <2>2, Counts, FS_RemoveElement
  <2>5. /\ IsFiniteSet((Team!Seated \ unblocked) \cup {u})
        /\ Cardinality((Team!Seated \ unblocked) \cup {u})
              <= Cardinality(Team!Seated \ unblocked) + 1
    BY Counts, OneMore
  <2>6. /\ Cardinality(Team!Seated' \ unblocked') <= Cardinality((Team!Seated \ unblocked) \cup {u})
        /\ Cardinality(Team!Seated' \ unblocked') \in Nat
        /\ Cardinality((Team!Seated \ unblocked) \cup {u}) \in Nat
    BY <2>3, <2>5, FS_Subset, FS_CardinalityType
  <2>7. QED
    BY <2>4, <2>5, <2>6, Counts DEF SeatsInv
<1>10. ASSUME NEW w \in Worker, NEW a \in Team!Actor, NEW u \in Employee, NEW s \in Team!Status,
              status' = [status EXCEPT ![u] = s], Team!Reopen(u, s),
              UNCHANGED role, Team!AtOnce(w)
       PROVE  SeatsInv'
  <2>1. unblocked \subseteq unblocked'
    BY <1>10 DEF Team!Reopen
  <2>2. status[u] = "BLOCKED" /\ s # "BLOCKED" => u \in unblocked'
    BY <1>10 DEF Team!Reopen
  <2>3. \A v \in Employee \ {u} : status'[v] = status[v]
    BY <1>10 DEF Team!TypeOK
  <2>4. status'[u] = s
    BY <1>10 DEF Team!TypeOK
  <2>5. Team!Seated' \ unblocked' \subseteq Team!Seated \ unblocked
    BY <1>10, <2>1, <2>2, <2>3, <2>4 DEF Team!Seated, Team!Belongs
  <2>6. Hiring' = Hiring
    BY <1>10 DEF Team!AtOnce, Hiring
  <2>7. QED
    BY <2>5, <2>6, NoSeatTaken
<1>11. ASSUME NEW w \in Worker, NEW a \in Team!Actor, NEW u \in Employee,
              (\E s \in Team!Status : Team!Update(w, a, u, s)) \/ Team!Disable(w, a, u)
       PROVE  SeatsInv'
  BY <1>10, <1>11 DEF Team!Update, Team!Disable, Team!Status
<1>12. ASSUME NEW w \in Worker, NEW a \in Team!Actor, NEW u \in Employee, Team!UpdateRole(w, a, u)
       PROVE  SeatsInv'
  <2>1. PICK r : role' = [role EXCEPT ![u] = r]
    BY <1>12 DEF Team!UpdateRole
  <2>2. Team!Belongs(u) /\ UNCHANGED <<status, unblocked, txn>>
    BY <1>12 DEF Team!UpdateRole, Team!AtOnce
  <2>3. Team!Seated' \subseteq Team!Seated
    BY <2>1, <2>2 DEF Team!Seated, Team!Belongs, Team!TypeOK
  <2>4. QED
    BY <2>2, <2>3, NoSeatTaken DEF Hiring
<1>13. ASSUME NEW w \in Worker, NEW a \in Team!Actor, NEW u \in Employee, NEW p \in Permission,
              NEW chosen \in {"NONE", "ALLOWED", "DENIED"},
              Team!UpdateUserPermission(w, a, u, p, chosen)
       PROVE  SeatsInv'
  BY <1>1, <1>13 DEF Team!UpdateUserPermission, Team!AtOnce, Hiring
<1>14. QED
  BY <1>2, <1>5, <1>6, <1>7, <1>8, <1>9, <1>11, <1>12, <1>13 DEF Team!Next

\* Whatever is in flight, those who were never blocked exceed the seats of the plan by one less
\* than there are requests at once.
THEOREM SeatsAreBounded == Team!Spec => []SeatsBounded
<1>1. Team!TypeOK /\ SeatsInv /\ [Team!Next]_Team!vars => (Team!TypeOK /\ SeatsInv)'
  BY StaffTyped, NextSeats, StaffOK
<1>2. Team!Init => Team!TypeOK /\ SeatsInv
  <2>. SUFFICES ASSUME Team!Init
                PROVE  SeatsInv
    BY InitStaff, StaffOK
  <2>1. Team!Seated \ unblocked = {Founder} /\ Hiring = {}
    BY StaffOK DEF Team!ConstantsOK, Team!Init, Team!Seated, Team!Belongs, Hiring, Team!NoRequests,
           Team!Idle
  <2>2. Cardinality({Founder}) = 1 /\ Cardinality({}) = 0
    BY FS_EmptySet, FS_Singleton
  <2>3. MaxUsers \in Nat \ {0}
    BY StaffOK DEF Team!ConstantsOK
  <2>4. QED
    BY <2>1, <2>2, <2>3, Counts, StaffOK DEF SeatsInv
<1>3. SeatsInv => SeatsBounded
  BY Counts, TeamSets, StaffOK DEF SeatsInv, SeatsBounded, Team!SeatsBounded
<1>4. QED
  BY <1>1, <1>2, <1>3, PTL DEF Team!Spec

-----------------------------------------------------------------------------
(* The way in (Access)                                                     *)

\* What the instance counts is what is counted here.
LEMMA GateSets == \A S : Gate!Cardinality(S) = Cardinality(S)
<1>1. \A S : Gate!IsFiniteSet(S) <=> IsFiniteSet(S)
  BY DEF Gate!IsFiniteSet, IsFiniteSet
<1>2. QED
  BY <1>1 DEF Gate!Cardinality, Cardinality

\* When requests do not overlap, one is in flight at most.
EntryAlone ==
    ~overlapped => \A v, w \in Worker : txn[v] # Gate!Idle /\ txn[w] # Gate!Idle => v = w

\* What a request has read is typed by its operation.
LEMMA EntryFields ==
    ASSUME Gate!TypeOK, NEW w \in Worker
    PROVE  /\ txn[w] \in Gate!Txn
           /\ txn[w].op = "activate" => txn[w].found \in BOOLEAN
           /\ txn[w].op = "regenerate" =>
                  txn[w].step \in {"guard", "revoked"} /\ txn[w].links \subseteq Link
           /\ txn[w].op = "login" =>
                  txn[w].step \in {"link", "user"} /\ txn[w].password \subseteq Password
           /\ txn[w].op = "changePassword" =>
                  /\ txn[w].new \in Password
                  /\ txn[w].left \subseteq {"password", "sessions"}
                  /\ \A part : [txn[w] EXCEPT !.left = @ \ {part}] =
                         [op |-> "changePassword", new |-> txn[w].new,
                          left |-> txn[w].left \ {part}]
           /\ txn[w].op = "setupTotp" => txn[w].secret \in Secret
<1>1. txn[w] \in Gate!Txn
  BY DEF Gate!TypeOK
<1>2. CASE txn[w] \in [op : {"changePassword"}, new : Password,
                       left : SUBSET {"password", "sessions"}]
  BY <1>1, <1>2
<1>3. CASE txn[w].op # "changePassword"
  BY <1>1, <1>3 DEF Gate!Txn, Gate!Idle
<1>4. QED
  BY <1>1, <1>2, <1>3 DEF Gate!Txn, Gate!Idle

\* What a request reads or writes next keeps the requests typed, and one in flight at
\* most unless they have overlapped.
LEMMA EntryBegins ==
    ASSUME Gate!TypeOK, EntryAlone, NEW w \in Worker, NEW t \in Gate!Txn, Gate!Begin(w, t)
    PROVE  txn' \in [Worker -> Gate!Txn] /\ overlapped' \in BOOLEAN /\ EntryAlone'
BY DEF Gate!Begin, Gate!Overlap, EntryAlone, Gate!TypeOK

LEMMA EntryContinues ==
    ASSUME Gate!TypeOK, EntryAlone, NEW w \in Worker, txn[w] # Gate!Idle, NEW t \in Gate!Txn,
           Gate!Continue(w, t)
    PROVE  txn' \in [Worker -> Gate!Txn] /\ overlapped' \in BOOLEAN /\ EntryAlone'
BY DEF Gate!Continue, EntryAlone, Gate!TypeOK

LEMMA EntryDone ==
    ASSUME Gate!TypeOK, EntryAlone, NEW w \in Worker, txn[w] # Gate!Idle, Gate!Done(w)
    PROVE  txn' \in [Worker -> Gate!Txn] /\ overlapped' \in BOOLEAN /\ EntryAlone'
BY EntryContinues DEF Gate!Done, Gate!Txn

LEMMA EntryAtOnce ==
    ASSUME Gate!TypeOK, EntryAlone, NEW w \in Worker, Gate!AtOnce(w)
    PROVE  txn' \in [Worker -> Gate!Txn] /\ overlapped' \in BOOLEAN /\ EntryAlone'
BY DEF Gate!AtOnce, Gate!Overlap, EntryAlone, Gate!TypeOK

\* A request that is about something is not idle.
LEMMA EntryBusy == \A t : t.op # "idle" => t # Gate!Idle
BY DEF Gate!Idle

\* Enabling leaves the secret.
LEMMA EnabledFields ==
    ASSUME Gate!TypeOK
    PROVE  [totp EXCEPT !.enabled = TRUE] = [enabled |-> TRUE, secret |-> totp.secret]
<1>. DEFINE row == [enabled : BOOLEAN, secret : Secret \cup {NoSecret}]
            new == [totp EXCEPT !.enabled = TRUE]
<1>1. totp \in row
  BY DEF Gate!TypeOK
<1>2. new \in row /\ new.secret = totp.secret
  BY <1>1
<1>3. new.enabled = TRUE
  BY <1>1
<1>. HIDE DEF new
<1>4. new = [enabled |-> new.enabled, secret |-> new.secret]
  BY <1>2
<1>5. new = [enabled |-> TRUE, secret |-> totp.secret]
  BY <1>2, <1>3, <1>4
<1>6. QED
  BY <1>5, Zenon DEF new

LEMMA EntryRead ==
    ASSUME Gate!TypeOK, EntryAlone, NEW w \in Worker,
           \/ Gate!ReadRegenerate(w) \/ Gate!RevokeLinks(w) \/ Gate!ReadActivate(w)
           \/ Gate!ReadDeactivate(w) \/ Gate!ReadLink(w) \/ Gate!ReadUserByLink(w)
           \/ Gate!ReadUser(w) \/ Gate!ReadChangePassword(w) \/ Gate!ReadSetupTotp(w)
           \/ Gate!ReadVerifyTotp(w) \/ Gate!ReadDisableTotp(w)
    PROVE  Gate!TypeOK' /\ EntryAlone'
<1>1. \E t \in Gate!Txn : Gate!Begin(w, t) \/ (txn[w] # Gate!Idle /\ Gate!Continue(w, t))
  <2>1. CASE Gate!ReadRegenerate(w)
    BY <2>1 DEF Gate!ReadRegenerate, Gate!Txn
  <2>2. CASE Gate!RevokeLinks(w)
    BY <2>2, EntryBusy DEF Gate!RevokeLinks, Gate!Txn, Gate!ActiveLinks
  <2>3. CASE Gate!ReadActivate(w)
    BY <2>3 DEF Gate!ReadActivate, Gate!Txn
  <2>4. CASE Gate!ReadDeactivate(w) \/ Gate!ReadVerifyTotp(w) \/ Gate!ReadDisableTotp(w)
    BY <2>4 DEF Gate!ReadDeactivate, Gate!ReadVerifyTotp, Gate!ReadDisableTotp, Gate!Txn
  <2>5. CASE Gate!ReadLink(w) \/ Gate!ReadUser(w)
    BY <2>5 DEF Gate!ReadLink, Gate!ReadUser, Gate!Txn, Gate!TypeOK
  <2>6. CASE Gate!ReadUserByLink(w)
    BY <2>6, EntryBusy DEF Gate!ReadUserByLink, Gate!Txn, Gate!TypeOK
  <2>7. CASE Gate!ReadChangePassword(w)
    BY <2>7 DEF Gate!ReadChangePassword, Gate!Txn
  <2>8. CASE Gate!ReadSetupTotp(w)
    BY <2>8 DEF Gate!ReadSetupTotp, Gate!Txn
  <2>9. QED
    BY <2>1, <2>2, <2>3, <2>4, <2>5, <2>6, <2>7, <2>8
<1>2. txn' \in [Worker -> Gate!Txn] /\ overlapped' \in BOOLEAN /\ EntryAlone'
  BY <1>1, EntryBegins, EntryContinues
<1>3. UNCHANGED <<Gate!club, password, login, openedWith, totp, cutShort>>
  BY DEF Gate!ReadRegenerate, Gate!RevokeLinks, Gate!ReadActivate, Gate!ReadDeactivate,
         Gate!ReadLink, Gate!ReadUserByLink, Gate!ReadUser, Gate!ReadChangePassword,
         Gate!ReadSetupTotp, Gate!ReadVerifyTotp, Gate!ReadDisableTotp, Gate!user
<1>4. proven' \subseteq Secret
  BY DEF Gate!ReadRegenerate, Gate!RevokeLinks, Gate!ReadActivate, Gate!ReadDeactivate,
         Gate!ReadLink, Gate!ReadUserByLink, Gate!ReadUser, Gate!ReadChangePassword,
         Gate!ReadSetupTotp, Gate!ReadVerifyTotp, Gate!ReadDisableTotp, Gate!user, Gate!TypeOK
<1>5. QED
  BY <1>2, <1>3, <1>4 DEF Gate!TypeOK, Gate!club

LEMMA EntryWrite ==
    ASSUME Gate!TypeOK, EntryAlone, NEW w \in Worker,
           \/ Gate!Abort(w) \/ Gate!CommitRegenerate(w) \/ Gate!CommitActivate(w)
           \/ Gate!CommitDeactivate(w) \/ Gate!CreateSession(w)
           \/ (\E s \in Login : Gate!EndSession(w, s) \/ Gate!EndOtherSessions(w, s))
           \/ Gate!WritePassword(w) \/ Gate!EndAllSessions(w) \/ Gate!CommitSetupTotp(w)
           \/ Gate!CommitVerifyTotp(w) \/ Gate!CommitDisableTotp(w)
    PROVE  Gate!TypeOK' /\ EntryAlone'
<1>1. \/ txn[w] # Gate!Idle /\ Gate!Done(w)
      \/ Gate!AtOnce(w)
      \/ txn[w] # Gate!Idle /\ \E t \in Gate!Txn : Gate!Continue(w, t)
  <2>1. CASE Gate!WritePassword(w) \/ Gate!EndAllSessions(w)
    <3>1. ASSUME NEW part, Gate!Wrote(w, part)
          PROVE  txn[w] # Gate!Idle /\ (Gate!Done(w) \/ \E t \in Gate!Txn : Gate!Continue(w, t))
      <4>1. [txn[w] EXCEPT !.left = @ \ {part}] \in Gate!Txn
        <5>1. txn[w].op = "changePassword"
          BY <3>1 DEF Gate!Wrote
        <5>2. [txn[w] EXCEPT !.left = @ \ {part}] =
                  [op |-> "changePassword", new |-> txn[w].new, left |-> txn[w].left \ {part}]
          BY <5>1, EntryFields
        <5>3. txn[w].new \in Password /\ txn[w].left \ {part} \subseteq {"password", "sessions"}
          BY <5>1, EntryFields
        <5>4. QED
          BY <5>2, <5>3 DEF Gate!Txn
      <4>2. QED
        BY <3>1, <4>1, EntryBusy DEF Gate!Wrote
    <3>2. QED
      BY <2>1, <3>1 DEF Gate!WritePassword, Gate!EndAllSessions
  <2>2. QED
    BY <2>1, EntryBusy
       DEF Gate!Abort, Gate!CommitRegenerate, Gate!CommitActivate, Gate!CommitDeactivate,
           Gate!CreateSession, Gate!EndSession, Gate!EndOtherSessions, Gate!CommitSetupTotp,
           Gate!CommitVerifyTotp, Gate!CommitDisableTotp
<1>2. txn' \in [Worker -> Gate!Txn] /\ overlapped' \in BOOLEAN /\ EntryAlone'
  BY <1>1, EntryDone, EntryAtOnce, EntryContinues
<1>3. CASE Gate!Abort(w)
  BY <1>2, <1>3 DEF Gate!Abort, Gate!TypeOK, Gate!club
<1>4. CASE Gate!CommitRegenerate(w) \/ Gate!CommitActivate(w) \/ Gate!CommitDeactivate(w)
  <2>1. CASE Gate!CommitRegenerate(w)
    BY <1>2, <2>1 DEF Gate!CommitRegenerate, Gate!Revoked, Gate!TypeOK, Gate!user
  <2>2. CASE Gate!CommitActivate(w)
    BY <1>2, <2>2 DEF Gate!CommitActivate, Gate!Revoked, Gate!ActiveLinks, Gate!TypeOK, Gate!user
  <2>3. CASE Gate!CommitDeactivate(w)
    BY <1>2, <2>3 DEF Gate!CommitDeactivate, Gate!ActiveLocks, Gate!TypeOK, Gate!user
  <2>4. QED
    BY <1>4, <2>1, <2>2, <2>3
<1>5. CASE Gate!CreateSession(w)
  BY <1>2, <1>5, EntryFields DEF Gate!CreateSession, Gate!TypeOK, Gate!club
<1>6. CASE \E s \in Login : Gate!EndSession(w, s) \/ Gate!EndOtherSessions(w, s)
  BY <1>2, <1>6 DEF Gate!EndSession, Gate!EndOtherSessions, Gate!Live, Gate!TypeOK, Gate!club
<1>7. CASE Gate!WritePassword(w) \/ Gate!EndAllSessions(w)
  BY <1>2, <1>7, EntryFields
     DEF Gate!WritePassword, Gate!EndAllSessions, Gate!Wrote, Gate!Live, Gate!TypeOK,
         Gate!club
<1>8. CASE Gate!CommitSetupTotp(w) \/ Gate!CommitVerifyTotp(w) \/ Gate!CommitDisableTotp(w)
  <2>1. totp' \in [enabled : BOOLEAN, secret : Secret \cup {NoSecret}]
    <3>1. CASE Gate!CommitVerifyTotp(w)
      BY <3>1, EnabledFields DEF Gate!CommitVerifyTotp, Gate!TypeOK
    <3>2. CASE Gate!CommitSetupTotp(w)
      <4>1. txn[w].secret \in Secret
        BY <3>2, EntryFields DEF Gate!CommitSetupTotp
      <4>2. totp' = [enabled |-> FALSE, secret |-> txn[w].secret]
        BY <3>2 DEF Gate!CommitSetupTotp, Gate!SetUp
      <4>3. QED
        BY <4>1, <4>2
    <3>3. CASE Gate!CommitDisableTotp(w)
      BY <3>3 DEF Gate!CommitDisableTotp
    <3>4. QED
      BY <1>8, <3>1, <3>2, <3>3
  <2>2. QED
    BY <1>2, <1>8, <2>1
       DEF Gate!CommitSetupTotp, Gate!CommitVerifyTotp, Gate!CommitDisableTotp, Gate!TypeOK,
           Gate!club
<1>9. QED
  BY <1>3, <1>4, <1>5, <1>6, <1>7, <1>8

LEMMA EntryInitTyped == Gate!Init => Gate!TypeOK /\ EntryAlone
<1>. SUFFICES ASSUME Gate!Init PROVE Gate!TypeOK /\ EntryAlone
  OBVIOUS
<1>1. txn \in [Worker -> Gate!Txn] /\ overlapped \in BOOLEAN
      /\ \A w \in Worker : txn[w] = Gate!Idle
  BY DEF Gate!Init, Gate!NoRequests, Gate!Txn
<1>2. totp \in [enabled : BOOLEAN, secret : Secret \cup {NoSecret}]
  BY DEF Gate!Init
<1>3. QED
  BY <1>1, <1>2 DEF Gate!Init, Gate!TypeOK, EntryAlone

LEMMA EntryTyped ==
    Gate!TypeOK /\ EntryAlone /\ [Gate!Next]_Gate!vars => (Gate!TypeOK /\ EntryAlone)'
<1>. SUFFICES ASSUME Gate!TypeOK, EntryAlone, [Gate!Next]_Gate!vars
              PROVE  Gate!TypeOK' /\ EntryAlone'
  OBVIOUS
<1>1. CASE UNCHANGED Gate!vars
  BY <1>1 DEF Gate!vars, Gate!club, Gate!user, Gate!TypeOK, EntryAlone
<1>2. CASE Gate!Next
  BY <1>2, EntryRead, EntryWrite DEF Gate!Next
<1>3. QED
  BY <1>1, <1>2

\* Every row and every request keeps its type.
THEOREM EntryTypeCorrect == Gate!Spec => []Gate!TypeOK
<1>1. Gate!Spec => [](Gate!TypeOK /\ EntryAlone)
  BY EntryInitTyped, EntryTyped, PTL DEF Gate!Spec
<1>2. QED
  BY <1>1, PTL
-----------------------------------------------------------------------------
(* Links and emergency mode                                                *)

\* What requests for a link and for an emergency have read is so while they are alone.
EmergencyInv ==
    /\ Gate!EmergencyLocks
    /\ ~overlapped =>
           /\ accessStatus = "EMERGENCY_LOCKED" => Gate!ActiveLocks # {} /\ Gate!ActiveLinks = {}
           /\ \A k, l \in Gate!ActiveLinks : k = l
           /\ \A w \in Worker :
                 /\ txn[w].op = "activate" => txn[w].found = (Gate!ActiveLocks # {})
                 /\ txn[w].op = "regenerate" =>
                        /\ accessStatus = "ENABLED"
                        /\ txn[w].step = "revoked" => txn[w].links = Gate!ActiveLinks

\* The requests after one of them has begun, gone on or ended.
LEMMA AfterStep ==
    ASSUME Gate!TypeOK, EntryAlone, NEW w \in Worker
    PROVE  /\ \A t : Gate!Begin(w, t) =>
                  /\ txn'[w] = t /\ \A v \in Worker \ {w} : txn'[v] = txn[v]
                  /\ ~overlapped' => ~overlapped /\ \A v \in Worker \ {w} : txn[v].op = "idle"
           /\ \A t : Gate!Continue(w, t) =>
                  /\ txn'[w] = t /\ \A v \in Worker \ {w} : txn'[v] = txn[v]
                  /\ overlapped' = overlapped
                  /\ ~overlapped /\ txn[w].op # "idle" =>
                         \A v \in Worker \ {w} : txn[v].op = "idle"
           /\ Gate!Done(w) =>
                  /\ txn'[w].op = "idle" /\ \A v \in Worker \ {w} : txn'[v] = txn[v]
                  /\ overlapped' = overlapped
                  /\ ~overlapped /\ txn[w].op # "idle" =>
                         \A v \in Worker \ {w} : txn[v].op = "idle"
           /\ Gate!AtOnce(w) =>
                  /\ txn' = txn
                  /\ ~overlapped' => ~overlapped /\ \A v \in Worker : txn[v].op = "idle"
BY EntryBusy
   DEF Gate!Begin, Gate!Continue, Gate!Done, Gate!AtOnce, Gate!Overlap, Gate!Idle,
       Gate!TypeOK, EntryAlone

LEMMA AfterPart ==
    ASSUME Gate!TypeOK, EntryAlone, NEW w \in Worker, NEW part, Gate!Wrote(w, part)
    PROVE  /\ \A v \in Worker \ {w} : txn'[v] = txn[v]
           /\ overlapped' = overlapped
           /\ ~overlapped => \A v \in Worker \ {w} : txn[v].op = "idle"
           /\ txn[w].op = "changePassword" /\ part \in txn[w].left
           /\ txn[w].left = {part} => txn'[w].op = "idle"
           /\ txn[w].left # {part} =>
                  txn'[w] = [op |-> "changePassword", new |-> txn[w].new,
                             left |-> txn[w].left \ {part}]
<1>1. txn[w].op = "changePassword" /\ part \in txn[w].left
  BY DEF Gate!Wrote
<1>2. [txn[w] EXCEPT !.left = @ \ {part}] =
          [op |-> "changePassword", new |-> txn[w].new, left |-> txn[w].left \ {part}]
  BY <1>1, EntryFields
<1>3. CASE txn[w].left = {part}
  BY <1>1, <1>3, AfterStep DEF Gate!Wrote
<1>4. CASE txn[w].left # {part}
  BY <1>1, <1>2, <1>4, AfterStep DEF Gate!Wrote
<1>5. QED
  BY <1>1, <1>3, <1>4

LEMMA AfterAnyPart ==
    ASSUME Gate!TypeOK, EntryAlone, NEW w \in Worker, NEW part, Gate!Wrote(w, part)
    PROVE  txn'[w].op \in {"idle", "changePassword"}
<1>1. CASE txn[w].left = {part}
  BY <1>1, AfterPart
<1>2. CASE txn[w].left # {part}
  <2>1. txn'[w] = [op |-> "changePassword", new |-> txn[w].new, left |-> txn[w].left \ {part}]
    BY <1>2, AfterPart
  <2>2. QED
    BY <2>1
<1>3. QED
  BY <1>1, <1>2

\* A step that leaves links, locks and the status alone, and reads none of them.
LEMMA EmergencyKept ==
    ASSUME Gate!TypeOK, EmergencyInv, NEW w \in Worker, UNCHANGED Gate!club,
           \A v \in Worker \ {w} : txn'[v] = txn[v],
           txn'[w] = txn[w] \/ txn'[w].op \notin {"activate", "regenerate"},
           ~overlapped' => ~overlapped
    PROVE  EmergencyInv'
BY DEF EmergencyInv, Gate!EmergencyLocks, Gate!ActiveLocks, Gate!ActiveLinks, Gate!club

LEMMA NextEmergency ==
    Gate!TypeOK /\ EntryAlone /\ EmergencyInv /\ [Gate!Next]_Gate!vars => EmergencyInv'
<1>. SUFFICES ASSUME Gate!TypeOK, EntryAlone, EmergencyInv, [Gate!Next]_Gate!vars
              PROVE  EmergencyInv'
  OBVIOUS
<1>1. CASE UNCHANGED Gate!vars
  BY <1>1
     DEF Gate!vars, Gate!club, Gate!user, EmergencyInv, Gate!EmergencyLocks, Gate!ActiveLocks,
         Gate!ActiveLinks
<1>2. ASSUME NEW w \in Worker, Gate!ReadRegenerate(w)
      PROVE  EmergencyInv'
  BY <1>2, AfterStep
     DEF Gate!ReadRegenerate, EmergencyInv, Gate!EmergencyLocks, Gate!ActiveLocks,
         Gate!ActiveLinks, Gate!club
<1>3. ASSUME NEW w \in Worker, Gate!RevokeLinks(w)
      PROVE  EmergencyInv'
  BY <1>3, AfterStep
     DEF Gate!RevokeLinks, EmergencyInv, Gate!EmergencyLocks, Gate!ActiveLocks,
         Gate!ActiveLinks, Gate!club
<1>4. ASSUME NEW w \in Worker, Gate!CommitRegenerate(w)
      PROVE  EmergencyInv'
  BY <1>4, AfterStep
     DEF Gate!CommitRegenerate, EmergencyInv, Gate!EmergencyLocks, Gate!ActiveLocks,
         Gate!ActiveLinks, Gate!Revoked, Gate!TypeOK
<1>5. ASSUME NEW w \in Worker, Gate!ReadActivate(w)
      PROVE  EmergencyInv'
  BY <1>5, AfterStep
     DEF Gate!ReadActivate, EmergencyInv, Gate!EmergencyLocks, Gate!ActiveLocks,
         Gate!ActiveLinks, Gate!club
<1>6. ASSUME NEW w \in Worker, Gate!CommitActivate(w)
      PROVE  EmergencyInv'
  BY <1>6, AfterStep
     DEF Gate!CommitActivate, EmergencyInv, Gate!EmergencyLocks, Gate!ActiveLocks,
         Gate!ActiveLinks, Gate!Revoked, Gate!TypeOK
<1>7. ASSUME NEW w \in Worker, Gate!CommitDeactivate(w)
      PROVE  EmergencyInv'
  BY <1>7, AfterStep
     DEF Gate!CommitDeactivate, EmergencyInv, Gate!EmergencyLocks, Gate!ActiveLocks,
         Gate!ActiveLinks, Gate!TypeOK
<1>8. ASSUME NEW w \in Worker,
             \/ Gate!Abort(w) \/ Gate!ReadDeactivate(w) \/ Gate!ReadLink(w)
             \/ Gate!ReadUserByLink(w) \/ Gate!ReadUser(w) \/ Gate!CreateSession(w)
             \/ (\E s \in Login : Gate!EndSession(w, s) \/ Gate!EndOtherSessions(w, s))
             \/ Gate!ReadChangePassword(w) \/ Gate!WritePassword(w) \/ Gate!EndAllSessions(w)
             \/ Gate!ReadSetupTotp(w) \/ Gate!CommitSetupTotp(w) \/ Gate!ReadVerifyTotp(w)
             \/ Gate!CommitVerifyTotp(w) \/ Gate!ReadDisableTotp(w)
             \/ Gate!CommitDisableTotp(w)
      PROVE  EmergencyInv'
  <2>1. /\ UNCHANGED Gate!club
        /\ \A v \in Worker \ {w} : txn'[v] = txn[v]
        /\ ~overlapped' => ~overlapped
    BY <1>8, AfterStep
       DEF Gate!Abort, Gate!ReadDeactivate, Gate!ReadLink, Gate!ReadUserByLink, Gate!ReadUser,
           Gate!CreateSession, Gate!EndSession, Gate!EndOtherSessions,
           Gate!ReadChangePassword, Gate!Wrote, Gate!WritePassword, Gate!EndAllSessions,
           Gate!ReadSetupTotp, Gate!CommitSetupTotp, Gate!ReadVerifyTotp,
           Gate!CommitVerifyTotp, Gate!ReadDisableTotp, Gate!CommitDisableTotp
  <2>2. txn'[w] = txn[w] \/ txn'[w].op \notin {"activate", "regenerate"}
    <3>1. CASE Gate!WritePassword(w) \/ Gate!EndAllSessions(w)
      BY <3>1, AfterAnyPart DEF Gate!WritePassword, Gate!EndAllSessions
    <3>2. CASE \/ Gate!Abort(w) \/ Gate!CreateSession(w) \/ Gate!CommitSetupTotp(w)
               \/ Gate!CommitVerifyTotp(w) \/ Gate!CommitDisableTotp(w)
               \/ \E s \in Login : Gate!EndSession(w, s) \/ Gate!EndOtherSessions(w, s)
      BY <3>2, AfterStep
         DEF Gate!Abort, Gate!CreateSession, Gate!CommitSetupTotp, Gate!CommitVerifyTotp,
             Gate!CommitDisableTotp, Gate!EndSession, Gate!EndOtherSessions
    <3>3. CASE \/ Gate!ReadDeactivate(w) \/ Gate!ReadLink(w) \/ Gate!ReadUserByLink(w)
               \/ Gate!ReadUser(w)
      BY <3>3, AfterStep
         DEF Gate!ReadDeactivate, Gate!ReadLink, Gate!ReadUserByLink, Gate!ReadUser
    <3>4. CASE Gate!ReadChangePassword(w)
      BY <3>4, AfterStep DEF Gate!ReadChangePassword
    <3>5. CASE Gate!ReadSetupTotp(w)
      BY <3>5, AfterStep DEF Gate!ReadSetupTotp
    <3>6. CASE Gate!ReadVerifyTotp(w) \/ Gate!ReadDisableTotp(w)
      BY <3>6, AfterStep DEF Gate!ReadVerifyTotp, Gate!ReadDisableTotp
    <3>7. QED
      BY <1>8, <3>1, <3>2, <3>3, <3>4, <3>5, <3>6
  <2>3. QED
    BY <2>1, <2>2, EmergencyKept
<1>9. QED
  BY <1>1, <1>2, <1>3, <1>4, <1>5, <1>6, <1>7, <1>8 DEF Gate!Next
-----------------------------------------------------------------------------
(* The password and the sessions                                           *)

Parts == {"password", "sessions"}

\* While it is alone, a login will open a session with the password there is, and a
\* change that has ended the sessions has left none. A change that has written
\* nothing yet has changed nothing.
PasswordInv ==
    ~overlapped =>
        /\ \A w \in Worker :
              /\ txn[w].op = "login" /\ txn[w].step = "user" => txn[w].password = {password}
              /\ txn[w].op = "changePassword" =>
                     txn[w].left # {} /\ (txn[w].left = {"password"} => Gate!Live = {})
        /\ ~cutShort /\ (\A w \in Worker : txn[w].op = "changePassword" => txn[w].left = Parts)
               => \A s \in Gate!Live : openedWith[s] = {password}

LEMMA PasswordKept ==
    ASSUME Gate!TypeOK, PasswordInv, NEW w \in Worker,
           UNCHANGED <<password, login, openedWith, cutShort>>,
           \A v \in Worker \ {w} : txn'[v] = txn[v],
           txn[w].op # "changePassword",
           txn'[w] = txn[w] \/ txn'[w].op \notin {"login", "changePassword"}
               \/ (txn'[w].op = "login" /\ txn'[w].step = "link"),
           ~overlapped' => ~overlapped
    PROVE  PasswordInv'
BY DEF PasswordInv, Gate!Live, Parts

LEMMA NextPassword ==
    Gate!TypeOK /\ EntryAlone /\ PasswordInv /\ [Gate!Next]_Gate!vars => PasswordInv'
<1>. SUFFICES ASSUME Gate!TypeOK, EntryAlone, PasswordInv, [Gate!Next]_Gate!vars
              PROVE  PasswordInv'
  OBVIOUS
<1>1. CASE UNCHANGED Gate!vars
  BY <1>1 DEF Gate!vars, Gate!club, Gate!user, PasswordInv, Gate!Live
<1>2. ASSUME NEW w \in Worker, Gate!ReadUserByLink(w) \/ Gate!ReadUser(w)
      PROVE  PasswordInv'
  <2>1. /\ txn'[w] = [op |-> "login", step |-> "user", password |-> {password}]
        /\ UNCHANGED <<password, login, openedWith, cutShort>>
        /\ txn[w].op # "changePassword"
        /\ \A v \in Worker \ {w} : txn'[v] = txn[v]
        /\ ~overlapped' => ~overlapped
    <3>1. CASE Gate!ReadUserByLink(w)
      BY <3>1, AfterStep DEF Gate!ReadUserByLink, Gate!user
    <3>2. CASE Gate!ReadUser(w)
      <4>1. txn[w].op = "idle"
        BY <3>2 DEF Gate!ReadUser, Gate!Begin, Gate!Idle
      <4>2. QED
        BY <3>2, <4>1, AfterStep DEF Gate!ReadUser, Gate!user
    <3>3. QED
      BY <1>2, <3>1, <3>2
  <2>2. txn'[w].op = "login" /\ txn'[w].password = {password}
    BY <2>1
  <2>3. QED
    BY <2>1, <2>2 DEF PasswordInv, Gate!Live
<1>3. ASSUME NEW w \in Worker, Gate!CreateSession(w)
      PROVE  PasswordInv'
  BY <1>3, AfterStep DEF Gate!CreateSession, PasswordInv, Gate!Live, Gate!TypeOK
<1>4. ASSUME NEW w \in Worker, NEW s \in Login,
             Gate!EndSession(w, s) \/ Gate!EndOtherSessions(w, s)
      PROVE  PasswordInv'
  BY <1>4, AfterStep
     DEF Gate!EndSession, Gate!EndOtherSessions, PasswordInv, Gate!Live, Gate!TypeOK
<1>5. ASSUME NEW w \in Worker, Gate!ReadChangePassword(w)
      PROVE  PasswordInv'
  <2>1. PICK new \in Password :
            Gate!Begin(w, [op |-> "changePassword", new |-> new, left |-> Parts])
    BY <1>5 DEF Gate!ReadChangePassword, Parts
  <2>2. /\ txn'[w] = [op |-> "changePassword", new |-> new, left |-> Parts]
        /\ UNCHANGED <<password, login, openedWith, cutShort>>
        /\ \A v \in Worker \ {w} : txn'[v] = txn[v]
        /\ ~overlapped' => ~overlapped
    BY <1>5, <2>1, AfterStep DEF Gate!ReadChangePassword, Gate!user
  <2>3. txn'[w].op = "changePassword" /\ txn'[w].left = Parts /\ txn[w].op # "changePassword"
    BY <2>1, <2>2 DEF Gate!Begin, Gate!Idle
  <2>4. Parts # {} /\ Parts # {"password"}
    BY DEF Parts
  <2>5. QED
    BY <2>2, <2>3, <2>4 DEF PasswordInv, Gate!Live
<1>6. ASSUME NEW w \in Worker, Gate!WritePassword(w)
      PROVE  PasswordInv'
  <2>1. /\ Gate!Wrote(w, "password")
        /\ UNCHANGED <<login, openedWith, cutShort>>
    BY <1>6 DEF Gate!WritePassword
  <2>. DEFINE remains == txn[w].left
  <2>2. remains \subseteq {"password", "sessions"} /\ "password" \in remains
    BY <2>1, AfterPart, EntryFields
  <2>3. CASE txn[w].left = {"password"}
    BY <2>1, <2>3, AfterPart DEF PasswordInv, Gate!Live
  <2>4. CASE txn[w].left # {"password"}
    <3>1. txn'[w] = [op |-> "changePassword", new |-> txn[w].new,
                     left |-> txn[w].left \ {"password"}]
      BY <2>1, <2>4, AfterPart
    <3>2. txn[w].left \ {"password"} = {"sessions"}
      BY <2>4, <2>2
    <3>3. txn'[w].op = "changePassword" /\ txn'[w].left = {"sessions"}
      BY <3>1, <3>2
    <3>4. {"sessions"} # {} /\ {"sessions"} # {"password"} /\ {"sessions"} # Parts
      BY DEF Parts
    <3>5. /\ overlapped' = overlapped
          /\ ~overlapped => \A v \in Worker \ {w} : txn[v].op = "idle" /\ txn'[v] = txn[v]
      BY <2>1, AfterPart
    <3>6. QED
      BY <2>1, <3>3, <3>4, <3>5 DEF PasswordInv, Gate!Live
  <2>5. QED
    BY <2>3, <2>4
<1>7. ASSUME NEW w \in Worker, Gate!EndAllSessions(w)
      PROVE  PasswordInv'
  <2>1. Gate!Live' = {}
    BY <1>7 DEF Gate!EndAllSessions, Gate!Live, Gate!TypeOK
  <2>2. Gate!Wrote(w, "sessions")
    BY <1>7 DEF Gate!EndAllSessions
  <2>. DEFINE remains == txn[w].left
  <2>3. remains \subseteq {"password", "sessions"} /\ "sessions" \in remains
    BY <2>2, AfterPart, EntryFields
  <2>4. CASE txn[w].left = {"sessions"}
    <3>1. /\ txn'[w].op = "idle" /\ overlapped' = overlapped
          /\ ~overlapped => \A v \in Worker \ {w} : txn[v].op = "idle" /\ txn'[v] = txn[v]
      BY <2>2, <2>4, AfterPart
    <3>2. QED
      BY <2>1, <3>1 DEF PasswordInv
  <2>5. CASE txn[w].left # {"sessions"}
    <3>1. txn'[w] = [op |-> "changePassword", new |-> txn[w].new,
                     left |-> txn[w].left \ {"sessions"}]
      BY <2>2, <2>5, AfterPart
    <3>2. txn[w].left \ {"sessions"} = {"password"}
      BY <2>5, <2>3
    <3>3. txn'[w].op = "changePassword" /\ txn'[w].left = {"password"}
      BY <3>1, <3>2
    <3>4. /\ overlapped' = overlapped
          /\ ~overlapped => \A v \in Worker \ {w} : txn[v].op = "idle" /\ txn'[v] = txn[v]
      BY <2>2, AfterPart
    <3>5. QED
      BY <2>1, <3>3, <3>4 DEF PasswordInv
  <2>6. QED
    BY <2>4, <2>5
<1>8. ASSUME NEW w \in Worker, Gate!Abort(w)
      PROVE  PasswordInv'
  <2>1. CASE txn[w].op = "changePassword" /\ txn[w].left \in {{"password"}, {"sessions"}}
    <3>1. Gate!Cardinality(txn[w].left) = 1
      BY <2>1, FS_Singleton, GateSets
    <3>2. txn'[w].op = "idle" /\ \A v \in Worker \ {w} : txn'[v] = txn[v]
      BY <1>8, AfterStep DEF Gate!Abort
    <3>3. cutShort' /\ overlapped' = overlapped
      BY <1>8, <2>1, <3>1, AfterStep DEF Gate!Abort
    <3>4. ~overlapped => \A v \in Worker \ {w} : txn'[v].op = "idle"
      BY <1>8, <2>1, <3>2, AfterStep DEF Gate!Abort
    <3>5. QED
      BY <3>2, <3>3, <3>4 DEF PasswordInv
  <2>2. CASE ~(txn[w].op = "changePassword" /\ txn[w].left \in {{"password"}, {"sessions"}})
    <3>1. /\ txn'[w].op = "idle"
          /\ UNCHANGED <<password, login, openedWith, overlapped>>
          /\ \A v \in Worker \ {w} : txn'[v] = txn[v]
          /\ ~overlapped /\ txn[w].op # "idle" => \A v \in Worker \ {w} : txn[v].op = "idle"
          /\ ~cutShort' => ~cutShort
      BY <1>8, AfterStep DEF Gate!Abort
    <3>2. txn[w].op = "changePassword" => txn[w].left = {} \/ txn[w].left = Parts
      BY <2>2, EntryFields DEF Parts
    <3>3. QED
      BY <3>1, <3>2 DEF PasswordInv, Gate!Live
  <2>3. QED
    BY <2>1, <2>2
<1>9. ASSUME NEW w \in Worker,
             \/ Gate!ReadRegenerate(w) \/ Gate!RevokeLinks(w) \/ Gate!CommitRegenerate(w)
             \/ Gate!ReadActivate(w) \/ Gate!CommitActivate(w) \/ Gate!ReadDeactivate(w)
             \/ Gate!CommitDeactivate(w) \/ Gate!ReadLink(w) \/ Gate!ReadSetupTotp(w)
             \/ Gate!CommitSetupTotp(w) \/ Gate!ReadVerifyTotp(w) \/ Gate!CommitVerifyTotp(w)
             \/ Gate!ReadDisableTotp(w) \/ Gate!CommitDisableTotp(w)
      PROVE  PasswordInv'
  <2>1. /\ UNCHANGED <<password, login, openedWith, cutShort>>
        /\ txn[w].op # "changePassword"
    BY <1>9
       DEF Gate!ReadRegenerate, Gate!RevokeLinks, Gate!CommitRegenerate, Gate!ReadActivate,
           Gate!CommitActivate, Gate!ReadDeactivate, Gate!CommitDeactivate, Gate!ReadLink,
           Gate!ReadSetupTotp, Gate!CommitSetupTotp, Gate!ReadVerifyTotp,
           Gate!CommitVerifyTotp, Gate!ReadDisableTotp, Gate!CommitDisableTotp, Gate!user,
           Gate!Begin, Gate!Idle
  <2>2. /\ \A v \in Worker \ {w} : txn'[v] = txn[v]
        /\ ~overlapped' => ~overlapped
    BY <1>9, AfterStep
       DEF Gate!ReadRegenerate, Gate!RevokeLinks, Gate!CommitRegenerate, Gate!ReadActivate,
           Gate!CommitActivate, Gate!ReadDeactivate, Gate!CommitDeactivate, Gate!ReadLink,
           Gate!ReadSetupTotp, Gate!CommitSetupTotp, Gate!ReadVerifyTotp,
           Gate!CommitVerifyTotp, Gate!ReadDisableTotp, Gate!CommitDisableTotp
  <2>3. \/ txn'[w].op \notin {"login", "changePassword"}
        \/ txn'[w].op = "login" /\ txn'[w].step = "link"
    <3>1. CASE Gate!CommitRegenerate(w) \/ Gate!CommitActivate(w) \/ Gate!CommitDeactivate(w)
               \/ Gate!CommitSetupTotp(w) \/ Gate!CommitVerifyTotp(w) \/ Gate!CommitDisableTotp(w)
      BY <3>1, AfterStep
         DEF Gate!CommitRegenerate, Gate!CommitActivate, Gate!CommitDeactivate,
             Gate!CommitSetupTotp, Gate!CommitVerifyTotp, Gate!CommitDisableTotp
    <3>2. CASE \/ Gate!ReadRegenerate(w) \/ Gate!RevokeLinks(w) \/ Gate!ReadActivate(w)
               \/ Gate!ReadDeactivate(w)
      BY <3>2, AfterStep
         DEF Gate!ReadRegenerate, Gate!RevokeLinks, Gate!ReadActivate, Gate!ReadDeactivate
    <3>3. CASE Gate!ReadLink(w) \/ Gate!ReadVerifyTotp(w) \/ Gate!ReadDisableTotp(w)
      BY <3>3, AfterStep DEF Gate!ReadLink, Gate!ReadVerifyTotp, Gate!ReadDisableTotp
    <3>4. CASE Gate!ReadSetupTotp(w)
      BY <3>4, AfterStep DEF Gate!ReadSetupTotp
    <3>5. QED
      BY <1>9, <3>1, <3>2, <3>3, <3>4
  <2>4. QED
    BY <2>1, <2>2, <2>3, PasswordKept
<1>10. QED
  BY <1>1, <1>2, <1>3, <1>4, <1>5, <1>6, <1>7, <1>8, <1>9 DEF Gate!Next
-----------------------------------------------------------------------------
(* The second factor                                                       *)

\* A verification that is alone is about the secret there is.
FactorInv ==
    ~overlapped =>
        /\ totp.enabled => totp.secret \in proven
        /\ \A w \in Worker : txn[w].op = "verifyTotp" => totp.secret \in proven

LEMMA NextFactor ==
    Gate!TypeOK /\ EntryAlone /\ FactorInv /\ [Gate!Next]_Gate!vars => FactorInv'
<1>. SUFFICES ASSUME Gate!TypeOK, EntryAlone, FactorInv, [Gate!Next]_Gate!vars
              PROVE  FactorInv'
  OBVIOUS
<1>1. CASE UNCHANGED Gate!vars
  BY <1>1 DEF Gate!vars, Gate!club, Gate!user, FactorInv
<1>2. ASSUME NEW w \in Worker, Gate!ReadVerifyTotp(w)
      PROVE  FactorInv'
  BY <1>2, AfterStep DEF Gate!ReadVerifyTotp, FactorInv, Gate!club
<1>3. ASSUME NEW w \in Worker, Gate!CommitSetupTotp(w)
      PROVE  FactorInv'
  BY <1>3, AfterStep DEF Gate!CommitSetupTotp, Gate!SetUp, FactorInv
<1>4. ASSUME NEW w \in Worker, Gate!CommitVerifyTotp(w)
      PROVE  FactorInv'
  BY <1>4, AfterStep, EnabledFields DEF Gate!CommitVerifyTotp, FactorInv
<1>5. ASSUME NEW w \in Worker, Gate!CommitDisableTotp(w)
      PROVE  FactorInv'
  BY <1>5, AfterStep DEF Gate!CommitDisableTotp, FactorInv
<1>6. ASSUME NEW w \in Worker,
             \/ Gate!Abort(w) \/ Gate!ReadRegenerate(w) \/ Gate!RevokeLinks(w)
             \/ Gate!CommitRegenerate(w) \/ Gate!ReadActivate(w) \/ Gate!CommitActivate(w)
             \/ Gate!ReadDeactivate(w) \/ Gate!CommitDeactivate(w) \/ Gate!ReadLink(w)
             \/ Gate!ReadUserByLink(w) \/ Gate!ReadUser(w) \/ Gate!CreateSession(w)
             \/ (\E s \in Login : Gate!EndSession(w, s) \/ Gate!EndOtherSessions(w, s))
             \/ Gate!ReadChangePassword(w) \/ Gate!WritePassword(w) \/ Gate!EndAllSessions(w)
             \/ Gate!ReadSetupTotp(w) \/ Gate!ReadDisableTotp(w)
      PROVE  FactorInv'
  <2>1. UNCHANGED <<totp, proven>>
    BY <1>6
       DEF Gate!Abort, Gate!ReadRegenerate, Gate!RevokeLinks, Gate!CommitRegenerate,
           Gate!ReadActivate, Gate!CommitActivate, Gate!ReadDeactivate, Gate!CommitDeactivate,
           Gate!ReadLink, Gate!ReadUserByLink, Gate!ReadUser, Gate!CreateSession,
           Gate!EndSession, Gate!EndOtherSessions, Gate!ReadChangePassword,
           Gate!WritePassword, Gate!EndAllSessions, Gate!ReadSetupTotp, Gate!ReadDisableTotp,
           Gate!user
  <2>2. /\ \A v \in Worker \ {w} : txn'[v] = txn[v]
        /\ ~overlapped' => ~overlapped
        /\ txn'[w].op = "verifyTotp" => txn[w].op = "verifyTotp"
    <3>1. ASSUME NEW part, Gate!Wrote(w, part)
          PROVE  txn'[w].op # "verifyTotp"
      BY <3>1, AfterAnyPart
    <3>2. CASE Gate!WritePassword(w) \/ Gate!EndAllSessions(w)
      BY <3>1, <3>2, AfterPart DEF Gate!WritePassword, Gate!EndAllSessions
    <3>3. CASE \/ Gate!Abort(w) \/ Gate!CommitRegenerate(w) \/ Gate!CommitActivate(w)
               \/ Gate!CommitDeactivate(w) \/ Gate!CreateSession(w)
               \/ \E s \in Login : Gate!EndSession(w, s) \/ Gate!EndOtherSessions(w, s)
      BY <3>3, AfterStep
         DEF Gate!Abort, Gate!CommitRegenerate, Gate!CommitActivate, Gate!CommitDeactivate,
             Gate!CreateSession, Gate!EndSession, Gate!EndOtherSessions
    <3>4. CASE \/ Gate!ReadRegenerate(w) \/ Gate!RevokeLinks(w) \/ Gate!ReadActivate(w)
               \/ Gate!ReadDeactivate(w)
      BY <3>4, AfterStep
         DEF Gate!ReadRegenerate, Gate!RevokeLinks, Gate!ReadActivate, Gate!ReadDeactivate
    <3>5. CASE Gate!ReadLink(w) \/ Gate!ReadUserByLink(w) \/ Gate!ReadUser(w)
      BY <3>5, AfterStep DEF Gate!ReadLink, Gate!ReadUserByLink, Gate!ReadUser
    <3>6. CASE Gate!ReadChangePassword(w)
      BY <3>6, AfterStep DEF Gate!ReadChangePassword
    <3>7. CASE Gate!ReadSetupTotp(w)
      BY <3>7, AfterStep DEF Gate!ReadSetupTotp
    <3>8. CASE Gate!ReadDisableTotp(w)
      BY <3>8, AfterStep DEF Gate!ReadDisableTotp
    <3>9. QED
      BY <1>6, <3>2, <3>3, <3>4, <3>5, <3>6, <3>7, <3>8
  <2>3. QED
    BY <2>1, <2>2 DEF FactorInv
<1>7. QED
  BY <1>1, <1>2, <1>3, <1>4, <1>5, <1>6 DEF Gate!Next
-----------------------------------------------------------------------------
EntryInv == Gate!TypeOK /\ EntryAlone /\ EmergencyInv /\ PasswordInv /\ FactorInv

LEMMA InitEntry == Gate!Init => EntryInv
<1>. SUFFICES ASSUME Gate!Init PROVE EntryInv
  OBVIOUS
<1>1. \A w \in Worker : txn[w].op = "idle"
  BY DEF Gate!Init, Gate!NoRequests, Gate!Idle
<1>2. EmergencyInv
  BY <1>1 DEF Gate!Init, EmergencyInv, Gate!EmergencyLocks, Gate!ActiveLocks, Gate!ActiveLinks
<1>3. PasswordInv
  BY <1>1 DEF Gate!Init, PasswordInv, Gate!Live
<1>4. FactorInv
  BY <1>1 DEF Gate!Init, FactorInv
<1>5. QED
  BY <1>2, <1>3, <1>4, EntryInitTyped DEF EntryInv

LEMMA EntrySafe == Gate!Spec => []EntryInv
<1>1. EntryInv /\ [Gate!Next]_Gate!vars => EntryInv'
  BY EntryTyped, NextEmergency, NextPassword, NextFactor DEF EntryInv
<1>2. QED
  BY <1>1, InitEntry, PTL DEF Gate!Spec

\* An emergency that is not resolved keeps the club locked, whatever requests overlap;
\* when they do not, a locked club has an emergency and no link, and a club one link at
\* most.
THEOREM EmergencyIsKept == Gate!Spec => []EmergencyHolds
<1>1. EntryInv => EmergencyHolds
  <2>. SUFFICES ASSUME EntryInv PROVE EmergencyHolds
    OBVIOUS
  <2>1. ASSUME \A k, l \in Gate!ActiveLinks : k = l
        PROVE  Gate!Cardinality(Gate!ActiveLinks) <= 1
    BY <2>1, OneAtMost, GateSets
  <2>2. QED
    BY <2>1
       DEF EntryInv, EmergencyInv, EmergencyHolds, Gate!EmergencyHolds, Gate!LockedHasNoLink
<1>2. QED
  BY <1>1, EntrySafe, PTL

\* A change of the password that ran to its end, alone, leaves no session opened with
\* an earlier one.
THEOREM SessionsEnd == Gate!Spec => []PasswordEndsSessions
<1>1. EntryInv => PasswordEndsSessions
  BY DEF EntryInv, PasswordInv, PasswordEndsSessions, Gate!PasswordEndsSessions, Parts
<1>2. QED
  BY <1>1, EntrySafe, PTL

\* A second factor that is enabled is checked against a secret its user has shown a
\* code of, when requests do not overlap.
THEOREM FactorIsProven == Gate!Spec => []EnabledIsProven
<1>1. EntryInv => EnabledIsProven
  BY DEF EntryInv, FactorInv, EnabledIsProven, Gate!EnabledIsProven
<1>2. QED
  BY <1>1, EntrySafe, PTL
-----------------------------------------------------------------------------
(* The member portal: a code lets in at most as many requests as were in   *)
(* flight together when it was first used, and one when none overlap.      *)

\* An instance has its own copy of the definitions of Requests.
LEMMA PortalRequests ==
    /\ \A w, t : /\ Portal!Begin(w, t) <=> Begin(w, t)
                 /\ Portal!Continue(w, t) <=> Continue(w, t)
    /\ \A w : (Portal!Done(w) <=> Done(w)) /\ (Portal!AtOnce(w) <=> AtOnce(w))
BY DEF Portal!Begin, Portal!Continue, Portal!Done, Portal!AtOnce, Portal!Overlap, Portal!Idle,
       Begin, Continue, Done, AtOnce, Overlap, Idle

\* An instance has its own copy of the definitions of FiniteSets.
LEMMA PortalSets ==
    \A S : (Portal!IsFiniteSet(S) <=> IsFiniteSet(S)) /\ Portal!Cardinality(S) = Cardinality(S)
<1>1. \A S : Portal!IsFiniteSet(S) <=> IsFiniteSet(S)
  BY DEF Portal!IsFiniteSet, IsFiniteSet
<1>2. \A S : Portal!Cardinality(S) = Cardinality(S)
  BY <1>1 DEF Portal!Cardinality, Cardinality
<1>3. QED
  BY <1>1, <1>2

\* Requests that found code c and are about to let its member in.
Waiting(c) ==
    {w \in Worker : txn[w].op = "login" /\ txn[w].step = "code" /\ txn[w].code = c}

\* A request that found a code found one that was sent, to the member it is for; a code
\* that let somebody in is used, so that no more requests begin to wait for it.
CodesBounded ==
    /\ \A w \in Worker : txn[w].op = "login" /\ txn[w].step = "code" =>
          txn[w].code \in Portal!Sent /\ code[txn[w].code].member = txn[w].member
    /\ \A c \in Code :
          /\ entered[c] > 0 => c \in Portal!Sent /\ code[c].used
          /\ entered[c] + Cardinality(Waiting(c)) <= Cardinality(Worker)

\* What a request has found is still so when it goes on, if it is the only one.
FoundStands ==
    \A w \in Worker :
        /\ txn[w].op = "login" => txn[w].member \in active
        /\ txn[w].op = "login" /\ txn[w].step = "code" =>
              ~code[txn[w].code].used /\ ~code[txn[w].code].revoked
        /\ txn[w].op = "request" /\ txn[w].step = "revoked" => Portal!Pending(txn[w].member) = {}

OnePending ==
    \A c, d \in Portal!Sent :
        c \in Portal!Pending(code[c].member) /\ d \in Portal!Pending(code[c].member)
                  => c = d

CodesInv ==
    /\ Portal!TypeOK /\ Alone /\ CodesBounded
    /\ ~overlapped => FoundStands /\ OnePending /\ \A c \in Code : entered[c] <= 1

LEMMA TxnTyped ==
    ASSUME Portal!TypeOK, NEW w \in Worker
    PROVE  /\ txn[w].op = "request" =>
                txn[w] \in [op : {"request"}, step : {"found", "revoked"}, member : Client]
           /\ txn[w].op = "login" => txn[w].member \in Client
           /\ txn[w].op = "login" /\ txn[w].step = "code" => txn[w].code \in Code
BY DEF Portal!TypeOK, Portal!Txn, Portal!Idle

LEMMA InitCodes == ASSUME IsFiniteSet(Worker) PROVE Portal!Init => CodesInv
<1>. SUFFICES ASSUME Portal!Init
              PROVE  CodesInv
  OBVIOUS
<1>1. Portal!TypeOK
  BY DEF Portal!Init, Portal!TypeOK, Portal!CodeRow, Portal!NoRequests, Portal!Txn
<1>2. \A w \in Worker : txn[w].op = "idle"
  BY DEF Portal!Init, Portal!NoRequests, Portal!Idle
<1>3. \A c \in Code : Waiting(c) = {}
  BY <1>2 DEF Waiting
<1>4. Cardinality(Worker) \in Nat /\ Cardinality({}) = 0
  BY FS_CardinalityType, FS_EmptySet
<1>5. CodesBounded
  BY <1>2, <1>3, <1>4 DEF CodesBounded, Portal!Init
<1>6. Portal!Sent = {}
  BY DEF Portal!Init, Portal!Sent
<1>7. FoundStands /\ OnePending /\ Alone
  BY <1>2, <1>6 DEF FoundStands, OnePending, Alone
<1>8. QED
  BY <1>1, <1>5, <1>7 DEF CodesInv, Portal!Init

\* Steps that write no code and of which none waits for one keep the bound.
LEMMA WaitingKept ==
    ASSUME IsFiniteSet(Worker), CodesInv, NEW w \in Worker, OthersStay(w), UNCHANGED entered,
           txn'[w].op # "login" \/ txn'[w].step # "code",
           \A c \in Portal!Sent : code'[c] # Portal!None /\ code'[c].member = code[c].member
                               /\ (code[c].used => code'[c].used)
    PROVE  CodesBounded'
<1>1. \A c \in Portal!Sent : c \in Portal!Sent'
  BY DEF Portal!Sent
<1>2. \A v \in Worker : txn'[v].op = "login" /\ txn'[v].step = "code" => txn'[v] = txn[v]
  BY DEF OthersStay
<1>3. \A c \in Code : Waiting(c)' \subseteq Waiting(c)
  BY <1>2 DEF Waiting
<1>4. \A c \in Code : /\ IsFiniteSet(Waiting(c)) /\ Cardinality(Waiting(c)) \in Nat
                      /\ Cardinality(Waiting(c)') \in Nat
                      /\ Cardinality(Waiting(c)') <= Cardinality(Waiting(c))
  <2>1. \A c \in Code : Waiting(c) \subseteq Worker
    BY DEF Waiting
  <2>2. QED
    BY <1>3, <2>1, FS_Subset, FS_CardinalityType
<1>5. \A c \in Code : entered[c] \in Nat /\ Cardinality(Worker) \in Nat
  BY FS_CardinalityType DEF CodesInv, Portal!TypeOK
<1>6. CodesBounded
  BY DEF CodesInv
<1>7. \A v \in Worker : txn'[v].op = "login" /\ txn'[v].step = "code" =>
          txn'[v].code \in Portal!Sent' /\ code'[txn'[v].code].member = txn'[v].member
  BY <1>1, <1>2, <1>6 DEF CodesBounded
<1>8. \A c \in Code : entered'[c] > 0 => c \in Portal!Sent' /\ code'[c].used
  BY <1>1, <1>6 DEF CodesBounded
<1>9. \A c \in Code : entered'[c] + Cardinality(Waiting(c)') <= Cardinality(Worker)
  BY <1>4, <1>5, <1>6 DEF CodesBounded
<1>10. QED
  BY <1>7, <1>8, <1>9 DEF CodesBounded


\* Rows of codes that were sent have their columns.
LEMMA CodeTyped ==
    ASSUME Portal!TypeOK, NEW c \in Portal!Sent
    PROVE  code[c] \in [status : {"SENT"}, member : Client, used : BOOLEAN, revoked : BOOLEAN,
                        expired : BOOLEAN]
BY DEF Portal!TypeOK, Portal!Sent, Portal!CodeRow

LEMMA CodesTyped ==
    ASSUME Portal!TypeOK, CodesBounded, [Portal!Next]_Portal!vars
    PROVE  Portal!TypeOK'
<1>1. CASE UNCHANGED Portal!vars
  BY <1>1 DEF Portal!vars, Portal!TypeOK
<1>2. ASSUME NEW c \in Code, Portal!Expire(c)
      PROVE  Portal!TypeOK'
  <2>1. code[c] \in Portal!CodeRow \ {Portal!None}
    BY <1>2 DEF Portal!Expire, Portal!Sent, Portal!TypeOK
  <2>2. [code[c] EXCEPT !.expired = TRUE] \in Portal!CodeRow
    BY <2>1 DEF Portal!CodeRow
  <2>3. QED
    BY <1>2, <2>2 DEF Portal!Expire, Portal!TypeOK
<1>3. ASSUME NEW w \in Worker, Portal!Abort(w)
      PROVE  Portal!TypeOK'
  BY <1>3 DEF Portal!Abort, Portal!Done, Portal!Continue, Portal!TypeOK, Portal!Txn
<1>4. ASSUME NEW w \in Worker, NEW m \in Client,
             Portal!SetStatus(w, m) \/ Portal!FindMember(w, m) \/ Portal!FindLogin(w, m)
      PROVE  Portal!TypeOK'
  <2>1. CASE Portal!SetStatus(w, m)
    BY <2>1 DEF Portal!SetStatus, Portal!AtOnce, Portal!Overlap, Portal!TypeOK
  <2>2. CASE Portal!FindMember(w, m)
    BY <2>2 DEF Portal!FindMember, Portal!Begin, Portal!Overlap, Portal!TypeOK, Portal!Txn
  <2>3. CASE Portal!FindLogin(w, m)
    BY <2>3 DEF Portal!FindLogin, Portal!Begin, Portal!Overlap, Portal!TypeOK, Portal!Txn
  <2>4. QED
    BY <1>4, <2>1, <2>2, <2>3
<1>5. ASSUME NEW w \in Worker, Portal!RevokePending(w)
      PROVE  Portal!TypeOK'
  <2>1. [txn[w] EXCEPT !.step = "revoked"] \in Portal!Txn
    BY <1>5, TxnTyped DEF Portal!RevokePending, Portal!Txn
  <2>2. \A c \in Portal!Sent : [code[c] EXCEPT !.revoked = TRUE] \in Portal!CodeRow
    BY DEF Portal!Sent, Portal!TypeOK, Portal!CodeRow
  <2>3. code' \in [Code -> Portal!CodeRow]
    BY <1>5, <2>2 DEF Portal!RevokePending, Portal!Pending, Portal!TypeOK
  <2>4. QED
    BY <1>5, <2>1, <2>3 DEF Portal!RevokePending, Portal!Continue, Portal!TypeOK
<1>6. ASSUME NEW w \in Worker, Portal!CreateCode(w)
      PROVE  Portal!TypeOK'
  <2>1. txn[w].member \in Client
    BY <1>6, TxnTyped DEF Portal!CreateCode
  <2>2. [status |-> "SENT", member |-> txn[w].member, used |-> FALSE, revoked |-> FALSE,
         expired |-> FALSE] \in Portal!CodeRow
    BY <2>1 DEF Portal!CodeRow
  <2>3. QED
    BY <1>6, <2>2 DEF Portal!CreateCode, Portal!Done, Portal!Continue, Portal!TypeOK, Portal!Txn
<1>7. ASSUME NEW w \in Worker, Portal!FindCode(w)
      PROVE  Portal!TypeOK'
  <2>1. txn[w].member \in Client
    BY <1>7, TxnTyped DEF Portal!FindCode
  <2>2. PICK c \in Code : Portal!Continue(w, [op |-> "login", step |-> "code",
                                       member |-> txn[w].member, code |-> c])
    BY <1>7 DEF Portal!FindCode, Portal!Usable, Portal!Sent
  <2>3. [op |-> "login", step |-> "code", member |-> txn[w].member, code |-> c] \in Portal!Txn
    BY <2>1 DEF Portal!Txn
  <2>4. QED
    BY <1>7, <2>2, <2>3 DEF Portal!FindCode, Portal!Continue, Portal!TypeOK
<1>8. ASSUME NEW w \in Worker, Portal!UseCode(w)
      PROVE  Portal!TypeOK'
  <2>1. txn[w].code \in Code /\ txn[w].code \in Portal!Sent
    BY <1>8, TxnTyped DEF Portal!UseCode, CodesBounded
  <2>2. [code[txn[w].code] EXCEPT !.used = TRUE] \in Portal!CodeRow
    BY <2>1, CodeTyped DEF Portal!CodeRow
  <2>3. entered' \in [Code -> Nat]
    BY <1>8, <2>1 DEF Portal!UseCode, Portal!TypeOK
  <2>4. QED
    BY <1>8, <2>1, <2>2, <2>3
    DEF Portal!UseCode, Portal!Done, Portal!Continue, Portal!TypeOK, Portal!Txn
<1>9. QED
  BY <1>1, <1>2, <1>3, <1>4, <1>5, <1>6, <1>7, <1>8 DEF Portal!Next

\* A step of w that begins, ends or is refused, after which nothing waits.
LEMMA QuietKeeps ==
    ASSUME IsFiniteSet(Worker), CodesInv, Portal!TypeOK', NEW w \in Worker,
           OthersStay(w), UNCHANGED <<code, entered>>,
           txn'[w].op # "login" \/ txn'[w].step # "code",
           txn'[w].op # "request" \/ txn'[w].step # "revoked",
           ~overlapped' => ~overlapped /\ (txn'[w].op = "idle" \/ OthersIdle(w)),
           txn'[w].op = "login" => txn'[w].member \in active',
           ~overlapped' => UNCHANGED active \/ (txn'[w].op = "idle" /\ OthersIdle(w))
    PROVE  CodesInv'
<1>1. \A m : Portal!Pending(m)' = Portal!Pending(m)
  BY DEF Portal!Pending, Portal!Sent
<1>2. Alone'
  BY StaysAlone DEF CodesInv
<1>3. \A c \in Portal!Sent : code[c] # Portal!None
  BY DEF Portal!Sent
<1>4. CodesBounded'
  BY <1>3, WaitingKept
<1>5. ~overlapped' => OnePending'
  BY <1>1 DEF CodesInv, OnePending, Portal!Sent
<1>6. ~overlapped' => FoundStands'
  <2>1. \A v \in Worker : v = w \/ txn'[v] = txn[v]
    BY DEF OthersStay
  <2>2. \A v \in Worker : ~overlapped' => v = w \/ UNCHANGED active \/ txn'[v].op = "idle"
    BY <2>1 DEF OthersIdle
  <2>3. QED
    BY <1>1, <2>1, <2>2 DEF CodesInv, FoundStands
<1>7. QED
  BY <1>2, <1>4, <1>5, <1>6 DEF CodesInv


LEMMA NextCodes ==
    ASSUME IsFiniteSet(Worker), CodesInv, [Portal!Next]_Portal!vars
    PROVE  CodesInv'
<1>. Portal!TypeOK /\ Alone /\ CodesBounded /\ Portal!TypeOK'
  BY CodesTyped DEF CodesInv
<1>. DEFINE Rows == [status : {"SENT"}, member : Client, used : BOOLEAN, revoked : BOOLEAN,
                     expired : BOOLEAN]
<1>1. CASE UNCHANGED Portal!vars
  BY <1>1
  DEF Portal!vars, CodesInv, CodesBounded, Waiting, Portal!Sent, FoundStands, OnePending,
      Portal!Pending, Alone
<1>2. ASSUME NEW w \in Worker, Portal!Abort(w)
      PROVE  CodesInv'
  BY <1>2, Steps, PortalRequests, QuietKeeps DEF Portal!Abort, Portal!TypeOK
<1>3. ASSUME NEW w \in Worker, NEW m \in Client, Portal!SetStatus(w, m)
      PROVE  CodesInv'
  <2>1. /\ txn'[w].op = "idle" /\ OthersStay(w)
        /\ ~overlapped' => ~overlapped /\ OthersIdle(w)
    BY <1>3, Steps, PortalRequests DEF Portal!SetStatus, Portal!TypeOK, OthersStay
  <2>2. QED
    BY <1>3, <2>1, QuietKeeps DEF Portal!SetStatus
<1>4. ASSUME NEW w \in Worker, NEW m \in Client, Portal!FindMember(w, m)
      PROVE  CodesInv'
  <2>1. /\ txn'[w] = [op |-> "request", step |-> "found", member |-> m] /\ OthersStay(w)
        /\ ~overlapped' => ~overlapped /\ OthersIdle(w)
    BY <1>4, Steps, PortalRequests DEF Portal!FindMember, Portal!TypeOK
  <2>2. txn'[w].op = "request" /\ txn'[w].step = "found"
    BY <2>1
  <2>3. QED
    BY <1>4, <2>1, <2>2, QuietKeeps DEF Portal!FindMember
<1>5. ASSUME NEW w \in Worker, NEW m \in Client, Portal!FindLogin(w, m)
      PROVE  CodesInv'
  <2>1. /\ txn'[w] = [op |-> "login", step |-> "member", member |-> m] /\ OthersStay(w)
        /\ ~overlapped' => ~overlapped /\ OthersIdle(w)
    BY <1>5, Steps, PortalRequests DEF Portal!FindLogin, Portal!TypeOK
  <2>2. txn'[w].op = "login" /\ txn'[w].step = "member" /\ txn'[w].member = m
    BY <2>1
  <2>3. QED
    BY <1>5, <2>1, <2>2, QuietKeeps DEF Portal!FindLogin, Portal!Eligible
<1>6. ASSUME NEW c \in Code, Portal!Expire(c)
      PROVE  CodesInv'
  <2>1. c \in Portal!Sent /\ code[c] \in Rows
    BY <1>6, CodeTyped DEF Portal!Expire
  <2>2. /\ code'[c].status = "SENT" /\ code'[c].member = code[c].member
        /\ code'[c].used = code[c].used /\ code'[c].revoked = code[c].revoked
        /\ \A d \in Code \ {c} : code'[d] = code[d]
    BY <1>6, <2>1 DEF Portal!Expire, Portal!TypeOK
  <2>3. Portal!Sent' = Portal!Sent
    BY <2>1, <2>2 DEF Portal!Sent, Portal!None
  <2>4. \A d \in Portal!Sent : /\ code'[d].member = code[d].member /\ code'[d].used = code[d].used
                               /\ code'[d].revoked = code[d].revoked
    BY <2>2 DEF Portal!Sent
  <2>5. \A m : Portal!Pending(m)' = Portal!Pending(m)
    BY <2>3, <2>4 DEF Portal!Pending
  <2>6. CodesBounded'
    BY <1>6, <2>3, <2>4 DEF Portal!Expire, CodesBounded, Waiting
  <2>7. FoundStands => FoundStands'
    BY <1>6, <2>4, <2>5 DEF Portal!Expire, FoundStands, CodesBounded
  <2>8. OnePending => OnePending'
    BY <2>3, <2>4, <2>5 DEF OnePending
  <2>9. QED
    BY <1>6, <2>6, <2>7, <2>8 DEF CodesInv, Portal!Expire, Alone
<1>7. ASSUME NEW w \in Worker, Portal!RevokePending(w)
      PROVE  CodesInv'
  <2>. PICK m : m = txn[w].member
    OBVIOUS
  <2>1. txn[w] \in [op : {"request"}, step : {"found", "revoked"}, member : Client]
    BY <1>7, TxnTyped DEF Portal!RevokePending
  <2>2. /\ txn'[w] = [txn[w] EXCEPT !.step = "revoked"] /\ OthersStay(w)
        /\ overlapped' = overlapped /\ (~overlapped => OthersIdle(w))
    BY <1>7, Steps, PortalRequests DEF Portal!RevokePending, Portal!TypeOK
  <2>3. txn'[w].op = "request" /\ txn'[w].member = m
    BY <2>1, <2>2
  <2>4. \A c \in Code :
            code'[c] = IF c \in Portal!Pending(m) THEN [code[c] EXCEPT !.revoked = TRUE]
                                   ELSE code[c]
    BY <1>7 DEF Portal!RevokePending
  <2>5. \A c \in Portal!Sent : /\ code'[c].status = "SENT" /\ code'[c].member = code[c].member
                               /\ code'[c].used = code[c].used
                               /\ c \in Portal!Pending(m) => code'[c].revoked = TRUE
                               /\ c \notin Portal!Pending(m) => code'[c] = code[c]
    BY <2>4, CodeTyped DEF Portal!Sent
  <2>6. Portal!Sent' = Portal!Sent
    BY <2>4, <2>5 DEF Portal!Sent, Portal!None, Portal!Pending
  <2>7. Portal!Pending(m)' = {} /\ \A k : Portal!Pending(k)' \subseteq Portal!Pending(k)
    <3>1. ASSUME NEW k, NEW c \in Portal!Pending(k)'
          PROVE  c \in Portal!Pending(k) \ Portal!Pending(m)
      <4>1. /\ c \in Portal!Sent /\ code'[c].member = k /\ ~code'[c].used /\ ~code'[c].revoked
        BY <2>6, <3>1 DEF Portal!Pending
      <4>2. c \notin Portal!Pending(m) /\ code'[c] = code[c]
        BY <2>5, <4>1
      <4>3. QED
        BY <4>1, <4>2 DEF Portal!Pending
    <3>2. Portal!Pending(m)' \subseteq Portal!Pending(m)
      BY <3>1
    <3>3. QED
      BY <3>1, <3>2
  <2>8. CodesBounded'
    <3>1. \A c \in Portal!Sent :
              /\ code'[c] # Portal!None /\ code'[c].member = code[c].member
              /\ code[c].used => code'[c].used
      BY <2>5, <2>6 DEF Portal!Sent
    <3>2. entered' = entered
      BY <1>7 DEF Portal!RevokePending
    <3>3. txn'[w].op # "login"
      BY <2>3
    <3>4. QED
      BY <2>2, <3>1, <3>2, <3>3, WaitingKept
  <2>9. ~overlapped' => FoundStands'
    BY <2>2, <2>3, <2>7 DEF FoundStands, OthersStay, OthersIdle
  <2>10. ~overlapped' => OnePending'
    BY <2>2, <2>5, <2>6, <2>7 DEF OnePending, CodesInv
  <2>11. Alone'
    BY <2>2, StaysAlone
  <2>12. QED
    BY <1>7, <2>2, <2>8, <2>9, <2>10, <2>11 DEF CodesInv, Portal!RevokePending

<1>8. ASSUME NEW w \in Worker, Portal!CreateCode(w)
      PROVE  CodesInv'
  <2>. PICK m : m = txn[w].member
    OBVIOUS
  <2>1. PICK c \in Code \ Portal!Sent : code' = [code EXCEPT ![c] =
            [status |-> "SENT", member |-> m, used |-> FALSE, revoked |-> FALSE,
             expired |-> FALSE]]
    BY <1>8 DEF Portal!CreateCode
  <2>2. /\ txn'[w].op = "idle" /\ OthersStay(w)
        /\ overlapped' = overlapped /\ (~overlapped => OthersIdle(w))
    BY <1>8, Steps, PortalRequests DEF Portal!CreateCode, Portal!TypeOK
  <2>3. /\ code'[c].status = "SENT" /\ code'[c].member = m /\ ~code'[c].used
        /\ \A d \in Code \ {c} : code'[d] = code[d]
    BY <2>1 DEF Portal!TypeOK
  <2>4. Portal!Sent' = Portal!Sent \cup {c}
    BY <2>3 DEF Portal!Sent, Portal!None
  <2>5. CodesBounded'
    BY <1>8, <2>2, <2>3, WaitingKept DEF Portal!CreateCode, Portal!Sent
  <2>6. ~overlapped' => OnePending'
    <3>1. ~overlapped => Portal!Pending(m) = {} /\ OnePending
      BY <1>8 DEF CodesInv, FoundStands, Portal!CreateCode
    <3>2. \A k : Portal!Pending(k)' \subseteq Portal!Pending(k) \cup {c}
      BY <2>3, <2>4 DEF Portal!Pending, Portal!Sent
    <3>3. ASSUME ~overlapped, NEW k, NEW d \in Portal!Pending(k)', NEW e \in Portal!Pending(k)'
          PROVE  d = e
      <4>1. d \in Portal!Sent' /\ e \in Portal!Sent' /\ code'[d].member = k /\ code'[e].member = k
        BY <3>3 DEF Portal!Pending
      <4>2. CASE k = m
        BY <3>1, <3>2, <3>3, <4>2
      <4>3. CASE k # m
        <5>1. d # c /\ e # c
          BY <2>3, <4>1, <4>3
        <5>2. d \in Portal!Pending(k) /\ e \in Portal!Pending(k) /\ code[d].member = k
          BY <3>2, <3>3, <5>1 DEF Portal!Pending
        <5>3. QED
          BY <3>1, <3>3, <5>2 DEF OnePending, Portal!Pending
      <4>4. QED
        BY <4>2, <4>3
    <3>4. QED
      BY <2>2, <3>3 DEF OnePending
  <2>7. ~overlapped' => FoundStands'
    BY <2>2 DEF FoundStands, OthersStay, OthersIdle
  <2>8. Alone'
    BY <2>2, StaysAlone
  <2>9. QED
    BY <1>8, <2>2, <2>5, <2>6, <2>7, <2>8 DEF CodesInv, Portal!CreateCode
<1>9. ASSUME NEW w \in Worker, Portal!FindCode(w)
      PROVE  CodesInv'
  <2>. DEFINE m == txn[w].member
  <2>1. PICK c \in Portal!Usable(m) :
            Portal!Continue(w, [op |-> "login", step |-> "code", member |-> m, code |-> c])
    BY <1>9 DEF Portal!FindCode
  <2>2. /\ c \in Portal!Sent /\ code[c].member = m /\ ~code[c].used /\ ~code[c].revoked
        /\ c \in Code
    BY <2>1 DEF Portal!Usable, Portal!Sent
  <2>3. /\ txn'[w] = [op |-> "login", step |-> "code", member |-> m, code |-> c]
        /\ OthersStay(w) /\ overlapped' = overlapped /\ (~overlapped => OthersIdle(w))
    BY <1>9, <2>1, Steps, PortalRequests DEF Portal!FindCode, Portal!TypeOK
  <2>4. /\ txn'[w].op = "login" /\ txn'[w].step = "code"
        /\ txn'[w].member = m /\ txn'[w].code = c
    BY <2>3
  <2>5. UNCHANGED <<active, code, entered, Portal!Sent>>
      /\ \A k : Portal!Pending(k)' = Portal!Pending(k)
    BY <1>9 DEF Portal!FindCode, Portal!Sent, Portal!Pending
  <2>6. CodesBounded'
    <3>1. /\ Waiting(c)' \subseteq Worker
          /\ \A d \in Code \ {c} : Waiting(d)' \subseteq Waiting(d) /\ Waiting(d) \subseteq Worker
      BY <2>3, <2>4 DEF Waiting, OthersStay
    <3>2. /\ Cardinality(Waiting(c)') <= Cardinality(Worker) /\ Cardinality(Worker) \in Nat
          /\ Cardinality(Waiting(c)') \in Nat
          /\ \A d \in Code \ {c} : /\ Cardinality(Waiting(d)') <= Cardinality(Waiting(d))
                                   /\ Cardinality(Waiting(d)') \in Nat
                                   /\ Cardinality(Waiting(d)) \in Nat
      BY <3>1, FS_Subset, FS_CardinalityType
    <3>3. \A d \in Code : entered[d] \in Nat /\ (entered[d] > 0 => code[d].used)
      BY DEF CodesBounded, Portal!TypeOK
    <3>4. entered[c] = 0
      BY <2>2, <3>3
    <3>5. \A d \in Code : entered[d] + Cardinality(Waiting(d)') <= Cardinality(Worker)
      BY <3>2, <3>3, <3>4 DEF CodesBounded
    <3>6. \A v \in Worker : txn'[v].op = "login" /\ txn'[v].step = "code" =>
              txn'[v].code \in Portal!Sent /\ code[txn'[v].code].member = txn'[v].member
      BY <2>2, <2>3, <2>4 DEF CodesBounded, OthersStay
    <3>7. QED
      BY <2>5, <3>5, <3>6 DEF CodesBounded
  <2>7. ~overlapped' => FoundStands'
    BY <1>9, <2>2, <2>3, <2>4, <2>5
    DEF Portal!FindCode, CodesInv, FoundStands, OthersStay, OthersIdle
  <2>8. OnePending => OnePending'
    BY <2>5 DEF OnePending
  <2>9. Alone'
    BY <2>3, StaysAlone
  <2>10. QED
    BY <2>3, <2>5, <2>6, <2>7, <2>8, <2>9 DEF CodesInv
<1>10. ASSUME NEW w \in Worker, Portal!UseCode(w)
       PROVE  CodesInv'
  <2>. PICK c : c = txn[w].code
    OBVIOUS
  <2>1. c \in Code /\ c \in Portal!Sent /\ w \in Waiting(c)
    BY <1>10, TxnTyped DEF Portal!UseCode, CodesBounded, Waiting
  <2>2. /\ txn'[w].op = "idle" /\ OthersStay(w)
        /\ overlapped' = overlapped /\ (~overlapped => OthersIdle(w))
    BY <1>10, Steps, PortalRequests DEF Portal!UseCode, Portal!TypeOK
  <2>3. code[c] \in Rows /\ code' = [code EXCEPT ![c].used = TRUE]
    BY <1>10, <2>1, CodeTyped DEF Portal!UseCode
  <2>4. /\ code'[c].status = "SENT" /\ code'[c].member = code[c].member
        /\ code'[c].used /\ code'[c].revoked = code[c].revoked
        /\ \A d \in Code \ {c} : code'[d] = code[d]
    BY <2>1, <2>3 DEF Portal!TypeOK
  <2>5. entered'[c] = entered[c] + 1 /\ \A d \in Code \ {c} : entered'[d] = entered[d]
    BY <1>10, <2>1 DEF Portal!UseCode, Portal!TypeOK
  <2>6. UNCHANGED active
    BY <1>10 DEF Portal!UseCode
  <2>7. ~overlapped => ~code[c].used
    BY <1>10 DEF Portal!UseCode, FoundStands, CodesInv
  <2>8. Portal!Sent' = Portal!Sent
    BY <2>1, <2>4 DEF Portal!Sent, Portal!None
  <2>9. \A k : Portal!Pending(k)' \subseteq Portal!Pending(k)
    <3>1. ASSUME NEW k, NEW d \in Portal!Pending(k)'
          PROVE  d \in Portal!Pending(k)
      <4>1. d \in Portal!Sent /\ code'[d].member = k /\ ~code'[d].used /\ ~code'[d].revoked
        BY <2>8, <3>1 DEF Portal!Pending
      <4>2. code'[d] = code[d]
        BY <2>4, <4>1 DEF Portal!Sent
      <4>3. QED
        BY <4>1, <4>2 DEF Portal!Pending
    <3>2. QED
      BY <3>1
  <2>10. CodesBounded'
    <3>1. /\ Waiting(c)' = Waiting(c) \ {w}
          /\ \A d \in Code \ {c} : Waiting(d)' \subseteq Waiting(d)
          /\ \A d \in Code : Waiting(d) \subseteq Worker
      BY <2>2 DEF Waiting, OthersStay
    <3>2. /\ \A d \in Code : IsFiniteSet(Waiting(d)) /\ Cardinality(Waiting(d)) \in Nat
          /\ Cardinality(Waiting(c)') = Cardinality(Waiting(c)) - 1
      BY <2>1, <3>1, FS_Subset, FS_CardinalityType, FS_RemoveElement
    <3>3. \A d \in Code \ {c} : /\ Cardinality(Waiting(d)') <= Cardinality(Waiting(d))
                                /\ Cardinality(Waiting(d)') \in Nat
      BY <3>1, <3>2, FS_Subset, FS_CardinalityType
    <3>4. \A d \in Code : entered[d] \in Nat /\ Cardinality(Worker) \in Nat
      BY FS_CardinalityType DEF Portal!TypeOK
    <3>5. \A d \in Code : entered'[d] + Cardinality(Waiting(d)') <= Cardinality(Worker)
      BY <2>1, <2>5, <3>2, <3>3, <3>4 DEF CodesBounded
    <3>6. \A d \in Code : entered'[d] > 0 => d \in Portal!Sent' /\ code'[d].used
      BY <2>1, <2>4, <2>5, <2>8 DEF CodesBounded
    <3>7. \A d \in Portal!Sent : code'[d].member = code[d].member
      BY <2>4 DEF Portal!Sent
    <3>8. \A v \in Worker : txn'[v].op = "login" /\ txn'[v].step = "code" =>
              txn'[v].code \in Portal!Sent' /\ code'[txn'[v].code].member = txn'[v].member
      BY <2>2, <2>8, <3>7 DEF CodesBounded, OthersStay
    <3>9. QED
      BY <3>5, <3>6, <3>8 DEF CodesBounded
  <2>11. ~overlapped' => FoundStands'
    BY <2>2 DEF FoundStands, OthersStay, OthersIdle
  <2>12. OnePending => OnePending'
    BY <2>4, <2>8, <2>9 DEF OnePending, Portal!Sent
  <2>13. ~overlapped' => \A d \in Code : entered'[d] <= 1
    <3>1. ~overlapped => entered[c] = 0
      BY <2>1, <2>7 DEF CodesInv, CodesBounded, Portal!TypeOK
    <3>2. QED
      BY <2>2, <2>5, <3>1 DEF CodesInv
  <2>14. Alone'
    BY <2>2, StaysAlone
  <2>15. QED
    BY <2>2, <2>10, <2>11, <2>12, <2>13, <2>14 DEF CodesInv
<1>11. QED
  BY <1>1, <1>2, <1>3, <1>4, <1>5, <1>6, <1>7, <1>8, <1>9, <1>10 DEF Portal!Next

\* A code lets one member in, once unless requests overlap, and never more often than
\* there are requests at once, while it is the last one that member asked for.
THEOREM CodesEnterOnce == Portal!Spec => EntersOnce
<1>1. Portal!Init => CodesInv
  BY InitCodes, ComponentsOK DEF ComponentsOK
<1>2. CodesInv /\ [Portal!Next]_Portal!vars => CodesInv'
  BY NextCodes, ComponentsOK DEF ComponentsOK
<1>3. ASSUME CodesInv
      PROVE  Portal!EnteredOnce /\ Portal!OneCode
  <2>1. \A c \in Code : entered[c] <= Cardinality(Worker)
    <3>1. \A c \in Code : Waiting(c) \subseteq Worker
      BY DEF Waiting
    <3>2. \A c \in Code : /\ Cardinality(Waiting(c)) \in Nat /\ Cardinality(Worker) \in Nat
                          /\ entered[c] \in Nat
      BY <1>3, <3>1, ComponentsOK, FS_Subset, FS_CardinalityType
      DEF CodesInv, Portal!TypeOK, ComponentsOK
    <3>3. QED
      BY <1>3, <3>2 DEF CodesInv, CodesBounded
  <2>2. ASSUME ~overlapped, NEW m \in Client
        PROVE  Cardinality(Portal!Usable(m)) <= 1
    <3>1. \A c, d \in Portal!Usable(m) : c = d
      BY <1>3, <2>2 DEF CodesInv, OnePending, Portal!Usable, Portal!Pending
    <3>2. QED
      BY <3>1, OneAtMost
  <2>3. QED
    BY <1>3, <2>1, <2>2, PortalSets DEF CodesInv, Portal!EnteredOnce, Portal!OneCode
<1>4. CodesInv /\ [Portal!Next]_Portal!vars => [Portal!EnteringActive]_Portal!vars
  <2>. SUFFICES ASSUME CodesInv, Portal!Next
                PROVE  Portal!EnteringActive
    OBVIOUS
  <2>1. CASE UNCHANGED entered
    BY <2>1 DEF Portal!EnteringActive, CodesInv, Portal!TypeOK
  <2>2. ASSUME NEW w \in Worker, Portal!UseCode(w)
        PROVE  Portal!EnteringActive
    <3>1. /\ txn[w].code \in Portal!Sent /\ code[txn[w].code].member = txn[w].member
          /\ overlapped' = overlapped
          /\ \A c \in Code \ {txn[w].code} : entered'[c] = entered[c]
      BY <2>2
      DEF CodesInv, CodesBounded, Portal!UseCode, Portal!Done, Portal!Continue, Portal!TypeOK
    <3>2. ~overlapped => txn[w].member \in active /\ ~code[txn[w].code].revoked
      BY <2>2 DEF CodesInv, FoundStands, Portal!UseCode
    <3>3. QED
      BY <3>1, <3>2 DEF Portal!EnteringActive, CodesInv, Portal!TypeOK
  <2>3. QED
    BY <2>1, <2>2
    DEF Portal!Next, Portal!Abort, Portal!SetStatus, Portal!FindMember, Portal!FindLogin,
        Portal!RevokePending, Portal!CreateCode, Portal!FindCode, Portal!Expire
<1>5. QED
  BY <1>1, <1>2, <1>3, <1>4, PTL
  DEF Portal!Spec, EntersOnce, Portal!EntersOnce, Portal!EntersActive

-----------------------------------------------------------------------------
(* Messages: what was deleted stays deleted, and who writes takes part.    *)

\* An instance has its own copy of the definitions of Requests.
LEMMA TextsRequests ==
    /\ \A w, t : /\ Texts!Begin(w, t) <=> Begin(w, t)
                 /\ Texts!Continue(w, t) <=> Continue(w, t)
    /\ \A w : (Texts!Done(w) <=> Done(w)) /\ (Texts!AtOnce(w) <=> AtOnce(w))
BY DEF Texts!Begin, Texts!Continue, Texts!Done, Texts!AtOnce, Texts!Overlap, Texts!Idle,
       Begin, Continue, Done, AtOnce, Overlap, Idle

\* A request is about a message that was sent.
Found(w) ==
    LET r == txn[w] IN r.op \in {"edit", "delete", "react", "pin"} => r.message \in Texts!Sent

\* What a request has read is still so when it goes on, if it is the only one.
Stands(w) ==
    LET r == txn[w] IN
    /\ r.op \in {"edit", "pin"} => ~message[r.message].deleted
    /\ r.op = "send" => r.user \in participant
    /\ r.op = "send" /\ r.step = "resolved" => r.mentions \subseteq participant
    /\ r.op \in {"delete", "react", "pin"} /\ r.step # "read" => r.user \in participant

MessagesInv ==
    /\ Texts!TypeOK /\ Alone
    /\ \A w \in Worker : Found(w)
    /\ \A x \in erased : x \in Texts!Sent /\ message[x].deleted
    /\ Texts!ErasedStaysErased
    /\ ~overlapped => \A w \in Worker : Stands(w)

Row == [status : {"SENT"}, senderId : User, body : {"text", "notice"}, deleted : BOOLEAN,
        pinnedBy : User \cup {NoUser}, old : BOOLEAN]

LEMMA MessageTyped ==
    ASSUME Texts!TypeOK, NEW x \in Texts!Sent
    PROVE  message[x] \in Row /\ x \in Message
BY DEF Texts!TypeOK, Texts!Sent, Texts!MessageRow, Row

\* Messages that are sent are rows; nothing else is.
LEMMA RowsSent == Row \subseteq Texts!MessageRow \ {Texts!None}
BY DEF Row, Texts!MessageRow, Texts!None

LEMMA RequestTyped ==
    ASSUME Texts!TypeOK, NEW w \in Worker
    PROVE  /\ txn[w].op = "send" => txn[w].user \in User
           /\ txn[w].op = "send" /\ txn[w].step = "resolved" => txn[w].mentions \subseteq User
           /\ txn[w].op = "edit" => txn[w] \in [op : {"edit"}, user : User, message : Message]
           /\ txn[w].op \in {"delete", "react"} /\ txn[w].step \in {"read", "joined"} =>
                txn[w] \in [op : {"delete", "react"}, step : {"read", "joined"}, user : User,
                            message : Message]
           /\ txn[w].op = "delete" => txn[w].step \in {"read", "joined"}
           /\ txn[w].op = "react" /\ txn[w].step = "found" =>
                txn[w] \in [op : {"react"}, step : {"found"}, user : User, message : Message,
                            had : BOOLEAN]
           /\ txn[w].op = "pin" =>
                txn[w] \in [op : {"pin"}, step : {"read", "joined"}, user : User,
                            message : Message, pinned : BOOLEAN]
BY DEF Texts!TypeOK, Texts!Txn, Texts!Idle

LEMMA InitMessages == Texts!Init => MessagesInv
<1>. SUFFICES ASSUME Texts!Init
              PROVE  MessagesInv
  OBVIOUS
<1>1. Texts!TypeOK
  BY DEF Texts!Init, Texts!TypeOK, Texts!MessageRow, Texts!NoRequests, Texts!Txn
<1>2. \A w \in Worker : txn[w].op = "idle"
  BY DEF Texts!Init, Texts!NoRequests, Texts!Idle
<1>3. QED
  BY <1>1, <1>2 DEF MessagesInv, Texts!Init, Alone, Found, Stands, Texts!ErasedStaysErased

\* What a step of w does to the rows, that of w among the requests included.
LEMMA RowsTyped ==
    ASSUME Texts!TypeOK, NEW w \in Worker, NEW t \in Texts!Txn, txn' = [txn EXCEPT ![w] = t],
           overlapped' \in BOOLEAN, participant' \subseteq User, applied' \in BOOLEAN,
           erased' \subseteq Message, message' \in [Message -> Texts!MessageRow],
           reaction' \in [Message -> SUBSET User], mention' \in [Message -> SUBSET User]
    PROVE  Texts!TypeOK'
BY DEF Texts!TypeOK

LEMMA MessagesTyped == ASSUME MessagesInv, [Texts!Next]_Texts!vars PROVE Texts!TypeOK'
<1>. Texts!TypeOK
  BY DEF MessagesInv
<1>1. CASE UNCHANGED Texts!vars
  BY <1>1 DEF Texts!vars, Texts!Policy, Texts!TypeOK
<1>2. \A w \in Worker : Texts!Overlap(w) => overlapped' \in BOOLEAN
  BY DEF Texts!Overlap, Texts!TypeOK
<1>3. ASSUME NEW w \in Worker, NEW t \in Texts!Txn, Texts!Begin(w, t) \/ Texts!Continue(w, t),
             UNCHANGED Texts!Tables
      PROVE  Texts!TypeOK'
  BY <1>2, <1>3, RowsTyped
  DEF Texts!Begin, Texts!Continue, Texts!Tables, Texts!Policy, Texts!TypeOK
<1>4. Texts!Idle \in Texts!Txn
  BY DEF Texts!Txn
<1>5. ASSUME NEW w \in Worker, Texts!Abort(w)
      PROVE  Texts!TypeOK'
  BY <1>3, <1>4, <1>5 DEF Texts!Abort, Texts!Done
<1>6. ASSUME NEW w \in Worker, NEW u \in User, Texts!ChangeParticipants(w, u)
      PROVE  Texts!TypeOK'
  BY <1>2, <1>6 DEF Texts!ChangeParticipants, Texts!AtOnce, Texts!Policy, Texts!TypeOK
<1>7. ASSUME NEW w \in Worker, NEW u \in User, Texts!ReadSend(w, u)
      PROVE  Texts!TypeOK'
  <2>1. [op |-> "send", step |-> "joined", user |-> u] \in Texts!Txn
    BY DEF Texts!Txn
  <2>2. QED
    BY <1>3, <1>7, <2>1 DEF Texts!ReadSend
<1>8. ASSUME NEW w \in Worker, NEW u \in User, NEW x \in Message, Texts!ReadEdit(w, u, x)
      PROVE  Texts!TypeOK'
  <2>1. [op |-> "edit", user |-> u, message |-> x] \in Texts!Txn
    BY DEF Texts!Txn
  <2>2. QED
    BY <1>3, <1>8, <2>1 DEF Texts!ReadEdit
<1>9. ASSUME NEW w \in Worker, NEW u \in User, NEW x \in Message,
             Texts!ReadDelete(w, u, x) \/ Texts!ReadReact(w, u, x)
      PROVE  Texts!TypeOK'
  <2>1. \A o \in {"delete", "react"} :
            [op |-> o, step |-> "read", user |-> u, message |-> x] \in Texts!Txn
    BY DEF Texts!Txn
  <2>2. QED
    BY <1>3, <1>9, <2>1 DEF Texts!ReadDelete, Texts!ReadReact
<1>10. ASSUME NEW w \in Worker, NEW u \in User, NEW x \in Message, Texts!ReadPin(w, u, x)
       PROVE  Texts!TypeOK'
  <2>1. [op |-> "pin", step |-> "read", user |-> u, message |-> x,
         pinned |-> message[x].pinnedBy # NoUser] \in Texts!Txn
    BY DEF Texts!Txn
  <2>2. QED
    BY <1>3, <1>10, <2>1 DEF Texts!ReadPin
<1>11. ASSUME NEW w \in Worker, Texts!Join(w)
       PROVE  Texts!TypeOK'
  <2>1. [txn[w] EXCEPT !.step = "joined"] \in Texts!Txn
    <3>1. CASE txn[w].op = "pin"
      BY <3>1, RequestTyped DEF Texts!Txn
    <3>2. CASE txn[w].op \in {"delete", "react"}
      <4>1. txn[w] \in [op : {"delete", "react"}, step : {"read", "joined"}, user : User,
                        message : Message]
        BY <1>11, <3>2, RequestTyped DEF Texts!Join
      <4>2. QED
        BY <4>1 DEF Texts!Txn
    <3>3. QED
      BY <1>11, <3>1, <3>2 DEF Texts!Join
  <2>2. QED
    BY <1>3, <1>11, <2>1 DEF Texts!Join
<1>12. ASSUME NEW w \in Worker, Texts!ResolveMentions(w)
       PROVE  Texts!TypeOK'
  <2>1. txn[w].user \in User
    BY <1>12, RequestTyped DEF Texts!ResolveMentions
  <2>2. \A us \in SUBSET Texts!Mentionable :
            [op |-> "send", step |-> "resolved", user |-> txn[w].user, mentions |-> us]
                \in Texts!Txn
    BY <2>1 DEF Texts!Txn, Texts!Mentionable, Texts!TypeOK
  <2>3. QED
    BY <1>3, <1>12, <2>2 DEF Texts!ResolveMentions
<1>13. ASSUME NEW w \in Worker, Texts!FindReaction(w)
       PROVE  Texts!TypeOK'
  <2>1. txn[w].user \in User /\ txn[w].message \in Message
    BY <1>13, RequestTyped DEF Texts!FindReaction
  <2>2. [op |-> "react", step |-> "found", user |-> txn[w].user, message |-> txn[w].message,
         had |-> txn[w].user \in reaction[txn[w].message]] \in Texts!Txn
    BY <2>1 DEF Texts!Txn
  <2>3. QED
    BY <1>3, <1>13, <2>2 DEF Texts!FindReaction
<1>14. ASSUME NEW w \in Worker, Texts!CommitSend(w)
       PROVE  Texts!TypeOK'
  <2>1. txn[w].user \in User /\ txn[w].mentions \subseteq User
    BY <1>14, RequestTyped DEF Texts!CommitSend
  <2>2. [status |-> "SENT", senderId |-> txn[w].user, body |-> "text", deleted |-> FALSE,
         pinnedBy |-> NoUser, old |-> FALSE] \in Texts!MessageRow
    BY <2>1 DEF Texts!MessageRow
  <2>3. message' \in [Message -> Texts!MessageRow] /\ mention' \in [Message -> SUBSET User]
    BY <1>14, <2>1, <2>2 DEF Texts!CommitSend, Texts!TypeOK
  <2>4. QED
    BY <1>4, <1>14, <2>3, RowsTyped
    DEF Texts!CommitSend, Texts!Done, Texts!Continue, Texts!Policy, Texts!TypeOK
<1>15. ASSUME NEW w \in Worker, Texts!CommitEdit(w)
       PROVE  Texts!TypeOK'
  <2>1. txn[w].message \in Texts!Sent
    BY <1>15 DEF Texts!CommitEdit, MessagesInv, Found
  <2>2. [message[txn[w].message] EXCEPT !.body = "text"] \in Texts!MessageRow
    BY <2>1, MessageTyped DEF Row, Texts!MessageRow
  <2>3. message' \in [Message -> Texts!MessageRow]
    BY <1>15, <2>2 DEF Texts!CommitEdit, Texts!TypeOK
  <2>4. QED
    BY <1>4, <1>15, <2>3, RowsTyped
    DEF Texts!CommitEdit, Texts!Done, Texts!Continue, Texts!Policy, Texts!TypeOK
<1>16. ASSUME NEW w \in Worker, Texts!CommitDelete(w)
       PROVE  Texts!TypeOK'
  <2>1. txn[w].message \in Texts!Sent
    BY <1>16 DEF Texts!CommitDelete, MessagesInv, Found
  <2>2. [message[txn[w].message] EXCEPT !.deleted = TRUE] \in Texts!MessageRow
    BY <2>1, MessageTyped DEF Row, Texts!MessageRow
  <2>3. message' \in [Message -> Texts!MessageRow]
    BY <1>16, <2>2 DEF Texts!CommitDelete, Texts!TypeOK
  <2>4. QED
    BY <1>4, <1>16, <2>3, RowsTyped
    DEF Texts!CommitDelete, Texts!Done, Texts!Continue, Texts!Policy, Texts!TypeOK
<1>17. ASSUME NEW w \in Worker, Texts!CommitPin(w)
       PROVE  Texts!TypeOK'
  <2>. DEFINE p == IF txn[w].pinned THEN NoUser ELSE txn[w].user
  <2>1. txn[w].message \in Texts!Sent /\ p \in User \cup {NoUser}
    BY <1>17, RequestTyped DEF Texts!CommitPin, MessagesInv, Found
  <2>. HIDE DEF p
  <2>2. [message[txn[w].message] EXCEPT !.pinnedBy = p] \in Texts!MessageRow
    BY <2>1, MessageTyped DEF Row, Texts!MessageRow
  <2>3. message' \in [Message -> Texts!MessageRow]
    BY <1>17, <2>2 DEF Texts!CommitPin, Texts!TypeOK, p
  <2>4. QED
    BY <1>4, <1>17, <2>3, RowsTyped
    DEF Texts!CommitPin, Texts!Done, Texts!Continue, Texts!Policy, Texts!TypeOK
<1>18. ASSUME NEW w \in Worker, Texts!CommitReact(w)
       PROVE  Texts!TypeOK'
  <2>1. txn[w].user \in User /\ txn[w].message \in Message
    BY <1>18, RequestTyped DEF Texts!CommitReact
  <2>2. reaction' \in [Message -> SUBSET User]
    BY <1>18, <2>1 DEF Texts!CommitReact, Texts!TypeOK
  <2>3. QED
    BY <1>4, <1>18, <2>2, RowsTyped
    DEF Texts!CommitReact, Texts!Done, Texts!Continue, Texts!Policy, Texts!TypeOK
<1>19. ASSUME NEW w \in Worker, Texts!ReadRetention(w)
       PROVE  Texts!TypeOK'
  <2>1. [op |-> "retain"] \in Texts!Txn
    BY DEF Texts!Txn
  <2>2. QED
    BY <1>2, <1>19, <2>1, RowsTyped DEF Texts!ReadRetention, Texts!Begin, Texts!TypeOK
<1>20. ASSUME NEW w \in Worker, Texts!ApplyRetention(w)
       PROVE  Texts!TypeOK'
  <2>1. \A x \in Texts!Expired :
      [message[x] EXCEPT !.deleted = TRUE, !.body = "notice"] \in Texts!MessageRow
    BY MessageTyped DEF Texts!Expired, Row, Texts!MessageRow
  <2>2. message' \in [Message -> Texts!MessageRow] /\ Texts!Expired \subseteq Message
    BY <1>20, <2>1 DEF Texts!ApplyRetention, Texts!TypeOK, Texts!Expired, Texts!Sent
  <2>3. QED
    BY <1>4, <1>20, <2>2, RowsTyped
    DEF Texts!ApplyRetention, Texts!Done, Texts!Continue, Texts!TypeOK
<1>21. ASSUME NEW x \in Message, Texts!GrowOld(x)
       PROVE  Texts!TypeOK'
  <2>1. [message[x] EXCEPT !.old = TRUE] \in Texts!MessageRow
    BY <1>21, MessageTyped DEF Texts!GrowOld, Row, Texts!MessageRow
  <2>2. QED
    BY <1>21, <2>1 DEF Texts!GrowOld, Texts!Policy, Texts!TypeOK
<1>22. CASE Texts!Forget
  BY <1>22 DEF Texts!Forget, Texts!TypeOK
<1>23. QED
  BY <1>1, <1>5, <1>6, <1>7, <1>8, <1>9, <1>10, <1>11, <1>12, <1>13, <1>14, <1>15, <1>16, <1>17,
     <1>18, <1>19, <1>20, <1>21, <1>22 DEF Texts!Next


\* A step of w keeps the invariant if what w has read then stands.
LEMMA OwnStep ==
    ASSUME MessagesInv, Texts!TypeOK', NEW w \in Worker, OthersStay(w),
           ~overlapped' => ~overlapped /\ OthersIdle(w),
           Texts!Sent \subseteq Texts!Sent', Found(w)', ~overlapped' => Stands(w)',
           \A x \in erased' : x \in Texts!Sent' /\ message'[x].deleted, Texts!ErasedStaysErased'
    PROVE  MessagesInv'
<1>1. \A v \in Worker : v = w \/ txn'[v] = txn[v]
  BY DEF OthersStay
<1>2. ASSUME NEW v \in Worker
      PROVE  Found(v)'
  BY <1>1 DEF MessagesInv, Found
<1>3. ASSUME ~overlapped', NEW v \in Worker
      PROVE  Stands(v)'
  <2>1. v = w \/ txn'[v].op = "idle"
    BY <1>1, <1>3 DEF OthersIdle
  <2>2. QED
    BY <1>3, <2>1 DEF Stands
<1>4. Alone'
  BY StaysAlone DEF MessagesInv
<1>5. QED
  BY <1>2, <1>3, <1>4 DEF MessagesInv

\* The same for a step that only reads, or only changes who takes part.
LEMMA ReadStep ==
    ASSUME MessagesInv, Texts!TypeOK', NEW w \in Worker, OthersStay(w),
           ~overlapped' => ~overlapped /\ OthersIdle(w), UNCHANGED <<message, erased>>,
           Found(w)', ~overlapped' => Stands(w)'
    PROVE  MessagesInv'
<1>1. Texts!Sent' = Texts!Sent
  BY DEF Texts!Sent
<1>2. Texts!ErasedStaysErased'
  BY DEF MessagesInv, Texts!ErasedStaysErased
<1>3. QED
  BY <1>1, <1>2, OwnStep DEF MessagesInv

LEMMA NextMessages == ASSUME MessagesInv, [Texts!Next]_Texts!vars PROVE MessagesInv'
<1>. /\ Texts!TypeOK /\ Texts!TypeOK' /\ Alone /\ txn \in [Worker -> Texts!Txn]
     /\ \A w \in Worker : Found(w) /\ (~overlapped => Stands(w))
  BY MessagesTyped DEF MessagesInv, Texts!TypeOK
<1>1. CASE UNCHANGED Texts!vars
  BY <1>1
  DEF Texts!vars, Texts!Policy, MessagesInv, Alone, Found, Stands, Texts!ErasedStaysErased,
      Texts!Sent
<1>2. ASSUME NEW w \in Worker, NEW t,
             Texts!Begin(w, t) \/ (Texts!Continue(w, t) /\ txn[w].op # "idle")
      PROVE  txn'[w] = t /\ OthersStay(w) /\ (~overlapped' => ~overlapped /\ OthersIdle(w))
  BY <1>2, OwnSteps, TextsRequests
<1>3. \A w \in Worker : txn[w] # Texts!Idle => txn[w].op # "idle"
  BY DEF Texts!TypeOK, Texts!Txn, Texts!Idle
<1>4. ASSUME NEW w \in Worker, Texts!Abort(w)
      PROVE  MessagesInv'
  <2>1. /\ txn'[w].op = "idle" /\ OthersStay(w)
        /\ ~overlapped' => ~overlapped /\ OthersIdle(w)
    BY <1>2, <1>3, <1>4 DEF Texts!Abort, Texts!Done, Texts!Idle
  <2>2. Found(w)' /\ Stands(w)'
    BY <2>1 DEF Found, Stands
  <2>3. QED
    BY <1>4, <2>1, <2>2, ReadStep DEF Texts!Abort, Texts!Tables, Texts!Policy
<1>5. ASSUME NEW w \in Worker, NEW u \in User, Texts!ChangeParticipants(w, u)
      PROVE  MessagesInv'
  <2>1. /\ txn'[w].op = "idle" /\ OthersStay(w)
        /\ ~overlapped' => ~overlapped /\ OthersIdle(w)
    BY <1>5, Steps, TextsRequests DEF Texts!ChangeParticipants, OthersStay
  <2>2. Found(w)' /\ Stands(w)'
    BY <2>1 DEF Found, Stands
  <2>3. QED
    BY <1>5, <2>1, <2>2, ReadStep DEF Texts!ChangeParticipants, Texts!Policy
<1>6. ASSUME NEW w \in Worker, NEW u \in User, Texts!ReadSend(w, u)
      PROVE  MessagesInv'
  <2>1. /\ txn'[w] = [op |-> "send", step |-> "joined", user |-> u] /\ OthersStay(w)
        /\ ~overlapped' => ~overlapped /\ OthersIdle(w)
    BY <1>2, <1>6 DEF Texts!ReadSend
  <2>2. Found(w)' /\ Stands(w)'
    BY <1>6, <2>1 DEF Found, Stands, Texts!ReadSend, Texts!Tables, Texts!TakesPart
  <2>3. QED
    BY <1>6, <2>1, <2>2, ReadStep DEF Texts!ReadSend, Texts!Tables, Texts!Policy
<1>7. ASSUME NEW w \in Worker, NEW u \in User, NEW x \in Message, Texts!ReadEdit(w, u, x)
      PROVE  MessagesInv'
  <2>1. /\ txn'[w] = [op |-> "edit", user |-> u, message |-> x] /\ OthersStay(w)
        /\ ~overlapped' => ~overlapped /\ OthersIdle(w)
    BY <1>2, <1>7 DEF Texts!ReadEdit
  <2>2. Found(w)' /\ Stands(w)'
    BY <1>7, <2>1 DEF Found, Stands, Texts!ReadEdit, Texts!Tables, Texts!MayEdit, Texts!Sent
  <2>3. QED
    BY <1>7, <2>1, <2>2, ReadStep DEF Texts!ReadEdit, Texts!Tables, Texts!Policy
<1>8. ASSUME NEW w \in Worker, NEW u \in User, NEW x \in Message,
             Texts!ReadDelete(w, u, x) \/ Texts!ReadReact(w, u, x)
      PROVE  MessagesInv'
  <2>1. PICK o \in {"delete", "react"} :
            Texts!Begin(w, [op |-> o, step |-> "read", user |-> u, message |-> x])
    BY <1>8 DEF Texts!ReadDelete, Texts!ReadReact
  <2>2. /\ txn'[w] = [op |-> o, step |-> "read", user |-> u, message |-> x] /\ OthersStay(w)
        /\ ~overlapped' => ~overlapped /\ OthersIdle(w)
    BY <1>2, <2>1
  <2>3. x \in Texts!Sent /\ UNCHANGED Texts!Tables
    BY <1>8 DEF Texts!ReadDelete, Texts!ReadReact
  <2>4. Found(w)' /\ Stands(w)'
    BY <2>2, <2>3 DEF Found, Stands, Texts!Tables, Texts!Sent
  <2>5. QED
    BY <2>2, <2>3, <2>4, ReadStep DEF Texts!Tables, Texts!Policy
<1>9. ASSUME NEW w \in Worker, NEW u \in User, NEW x \in Message, Texts!ReadPin(w, u, x)
      PROVE  MessagesInv'
  <2>1. /\ txn'[w] = [op |-> "pin", step |-> "read", user |-> u, message |-> x,
                      pinned |-> message[x].pinnedBy # NoUser]
        /\ OthersStay(w) /\ (~overlapped' => ~overlapped /\ OthersIdle(w))
    BY <1>2, <1>9 DEF Texts!ReadPin
  <2>2. Found(w)' /\ Stands(w)'
    BY <1>9, <2>1 DEF Found, Stands, Texts!ReadPin, Texts!Tables, Texts!Pinnable, Texts!Sent
  <2>3. QED
    BY <1>9, <2>1, <2>2, ReadStep DEF Texts!ReadPin, Texts!Tables, Texts!Policy
<1>10. ASSUME NEW w \in Worker, Texts!Join(w)
       PROVE  MessagesInv'
  <2>1. /\ txn'[w] = [txn[w] EXCEPT !.step = "joined"] /\ OthersStay(w)
        /\ ~overlapped' => ~overlapped /\ OthersIdle(w)
    BY <1>2, <1>10 DEF Texts!Join
  <2>2. /\ txn'[w].op = txn[w].op /\ txn'[w].step = "joined" /\ txn'[w].user = txn[w].user
        /\ txn'[w].message = txn[w].message
    <3>1. CASE txn[w].op = "pin"
      BY <2>1, <3>1, RequestTyped
    <3>2. CASE txn[w].op \in {"delete", "react"}
      <4>1. txn[w] \in [op : {"delete", "react"}, step : {"read", "joined"}, user : User,
                        message : Message]
        BY <1>10, <3>2, RequestTyped DEF Texts!Join
      <4>2. QED
        BY <2>1, <4>1
    <3>3. QED
      BY <1>10, <3>1, <3>2 DEF Texts!Join
  <2>3. Found(w)'
    BY <1>10, <2>2 DEF Found, Texts!Join, Texts!Tables, Texts!Sent
  <2>4. ~overlapped' => Stands(w)'
    BY <1>10, <2>1, <2>2 DEF Stands, Texts!Join, Texts!Tables, Texts!TakesPart
  <2>5. QED
    BY <1>10, <2>1, <2>3, <2>4, ReadStep DEF Texts!Join, Texts!Tables, Texts!Policy
<1>11. ASSUME NEW w \in Worker, Texts!ResolveMentions(w)
       PROVE  MessagesInv'
  <2>1. PICK us \in SUBSET Texts!Mentionable :
            Texts!Continue(w, [op |-> "send", step |-> "resolved", user |-> txn[w].user,
                         mentions |-> us])
    BY <1>11 DEF Texts!ResolveMentions
  <2>2. /\ txn'[w] = [op |-> "send", step |-> "resolved", user |-> txn[w].user,
                      mentions |-> us]
        /\ OthersStay(w) /\ (~overlapped' => ~overlapped /\ OthersIdle(w))
    BY <1>2, <1>11, <2>1 DEF Texts!ResolveMentions
  <2>3. /\ txn'[w].op = "send" /\ txn'[w].step = "resolved" /\ txn'[w].user = txn[w].user
        /\ txn'[w].mentions = us
    BY <2>2
  <2>4. Found(w)' /\ (~overlapped' => Stands(w)')
    BY <1>11, <2>1, <2>2, <2>3
    DEF Found, Stands, Texts!ResolveMentions, Texts!Tables, Texts!Mentionable
  <2>5. QED
    BY <1>11, <2>2, <2>4, ReadStep DEF Texts!ResolveMentions, Texts!Tables, Texts!Policy
<1>12. ASSUME NEW w \in Worker, Texts!FindReaction(w)
       PROVE  MessagesInv'
  <2>1. PICK h : Texts!Continue(w, [op |-> "react", step |-> "found", user |-> txn[w].user,
                              message |-> txn[w].message, had |-> h])
    BY <1>12 DEF Texts!FindReaction
  <2>2. /\ txn'[w] = [op |-> "react", step |-> "found", user |-> txn[w].user,
                      message |-> txn[w].message, had |-> h]
        /\ OthersStay(w) /\ (~overlapped' => ~overlapped /\ OthersIdle(w))
    BY <1>2, <1>12, <2>1 DEF Texts!FindReaction
  <2>3. /\ txn'[w].op = "react" /\ txn'[w].step = "found" /\ txn'[w].user = txn[w].user
        /\ txn'[w].message = txn[w].message
    BY <2>2
  <2>4. Found(w)' /\ (~overlapped' => Stands(w)')
    BY <1>12, <2>2, <2>3 DEF Found, Stands, Texts!FindReaction, Texts!Tables, Texts!Sent
  <2>5. QED
    BY <1>12, <2>2, <2>4, ReadStep DEF Texts!FindReaction, Texts!Tables, Texts!Policy
<1>13. ASSUME NEW w \in Worker, Texts!Done(w), txn[w].op # "idle"
       PROVE  /\ OthersStay(w) /\ (~overlapped' => ~overlapped /\ OthersIdle(w))
              /\ Found(w)' /\ Stands(w)' /\ txn'[w].op = "idle"
  <2>1. txn'[w] = Texts!Idle
    BY <1>2, <1>13 DEF Texts!Done
  <2>2. QED
    BY <1>2, <1>13, <2>1 DEF Texts!Done, Found, Stands, Texts!Idle
<1>14. ASSUME NEW w \in Worker, Texts!CommitSend(w)
       PROVE  MessagesInv'
  <2>1. PICK x \in Message \ Texts!Sent :
            message' = [message EXCEPT ![x] =
                [status |-> "SENT", senderId |-> txn[w].user, body |-> "text",
                 deleted |-> FALSE, pinnedBy |-> NoUser, old |-> FALSE]]
    BY <1>14 DEF Texts!CommitSend
  <2>2. \A y \in Texts!Sent : y # x /\ message'[y] = message[y]
    BY <2>1 DEF Texts!Sent
  <2>3. Texts!Sent \subseteq Texts!Sent'
    BY <2>2 DEF Texts!Sent
  <2>4. UNCHANGED erased /\ Texts!Done(w) /\ txn[w].op # "idle"
    BY <1>14 DEF Texts!CommitSend, Texts!Policy
  <2>5. \A x1 \in erased' : x1 \in Texts!Sent' /\ message'[x1].deleted
    BY <2>2, <2>3, <2>4 DEF MessagesInv
  <2>6. Texts!ErasedStaysErased'
    BY <1>13, <2>2, <2>4 DEF MessagesInv, Texts!ErasedStaysErased
  <2>7. QED
    BY <1>13, <2>3, <2>4, <2>5, <2>6, OwnStep
<1>15. ASSUME NEW w \in Worker, Texts!CommitEdit(w)
       PROVE  MessagesInv'
  <2>. PICK y : y = txn[w].message
    OBVIOUS
  <2>1. y \in Texts!Sent /\ message' = [message EXCEPT ![y].body = "text"]
    BY <1>15 DEF Texts!CommitEdit, Found
  <2>2. UNCHANGED erased /\ Texts!Done(w) /\ txn[w].op # "idle"
    BY <1>15 DEF Texts!CommitEdit, Texts!Policy
  <2>3. message[y] \in Row /\ y \in Message
    BY <2>1, MessageTyped
  <2>4. /\ message'[y].status = "SENT" /\ message'[y].deleted = message[y].deleted
        /\ \A x \in Message \ {y} : message'[x] = message[x]
    BY <2>1, <2>3 DEF Row, Texts!TypeOK
  <2>5. Texts!Sent' = Texts!Sent
    BY <2>1, <2>4 DEF Texts!Sent, Texts!None
  <2>6. ~overlapped => y \notin erased
    BY <1>15 DEF Stands, Texts!CommitEdit, MessagesInv
  <2>7. \A x \in erased' : x \in Texts!Sent' /\ message'[x].deleted
    BY <2>2, <2>4, <2>5 DEF MessagesInv, Texts!TypeOK
  <2>8. Texts!ErasedStaysErased'
    BY <1>13, <2>2, <2>4, <2>6 DEF MessagesInv, Texts!ErasedStaysErased, Texts!TypeOK
  <2>9. QED
    BY <1>13, <2>2, <2>5, <2>7, <2>8, OwnStep
<1>16. ASSUME NEW y \in Texts!Sent, NEW row \in Row,
              message' = [message EXCEPT ![y] = row], row.body = message[y].body,
              message[y].deleted => row.deleted
       PROVE  /\ Texts!Sent' = Texts!Sent
              /\ \A x \in Texts!Sent : /\ message'[x].body = message[x].body
                                       /\ message[x].deleted => message'[x].deleted
  <2>1. row # Texts!None /\ y \in Message
    BY RowsSent, MessageTyped
  <2>2. message'[y] = row /\ \A x \in Message \ {y} : message'[x] = message[x]
    BY <1>16, <2>1 DEF Texts!TypeOK
  <2>3. Texts!Sent' = Texts!Sent
    BY <2>1, <2>2 DEF Texts!Sent
  <2>4. QED
    BY <1>16, <2>2, <2>3 DEF Texts!Sent
<1>17. ASSUME NEW w \in Worker, Texts!Done(w), txn[w].op # "idle", UNCHANGED erased,
              Texts!Sent' = Texts!Sent,
              \A x \in Texts!Sent : /\ message'[x].body = message[x].body
                                    /\ message[x].deleted => message'[x].deleted
       PROVE  MessagesInv'
  <2>1. \A x \in erased' : x \in Texts!Sent' /\ message'[x].deleted
    BY <1>17 DEF MessagesInv
  <2>2. Texts!ErasedStaysErased'
    BY <1>13, <1>17 DEF MessagesInv, Texts!ErasedStaysErased
  <2>3. QED
    BY <1>13, <1>17, <2>1, <2>2, OwnStep
<1>18. ASSUME NEW w \in Worker, Texts!CommitDelete(w)
       PROVE  MessagesInv'
  <2>. DEFINE y == txn[w].message
              row == [message[y] EXCEPT !.deleted = TRUE]
  <2>1. y \in Texts!Sent /\ message' = [message EXCEPT ![y] = row]
    BY <1>18 DEF Texts!CommitDelete, Found
  <2>2. row \in Row /\ row.body = message[y].body /\ row.deleted
    BY <2>1, MessageTyped DEF Row
  <2>3. UNCHANGED erased /\ Texts!Done(w) /\ txn[w].op # "idle"
    BY <1>18 DEF Texts!CommitDelete, Texts!Policy
  <2>. HIDE DEF row
  <2>4. QED
    BY <1>16, <1>17, <2>1, <2>2, <2>3
<1>19. ASSUME NEW w \in Worker, Texts!CommitPin(w)
       PROVE  MessagesInv'
  <2>. DEFINE y == txn[w].message
              p == IF txn[w].pinned THEN NoUser ELSE txn[w].user
              row == [message[y] EXCEPT !.pinnedBy = p]
  <2>1. y \in Texts!Sent /\ message' = [message EXCEPT ![y] = row]
    BY <1>19 DEF Texts!CommitPin, Found
  <2>2. p \in User \cup {NoUser} /\ message[y] \in Row
    BY <1>19, <2>1, MessageTyped, RequestTyped DEF Texts!CommitPin
  <2>. HIDE DEF p
  <2>3. row \in Row /\ row.body = message[y].body /\ row.deleted = message[y].deleted
    BY <2>2 DEF Row
  <2>4. UNCHANGED erased /\ Texts!Done(w) /\ txn[w].op # "idle"
    BY <1>19 DEF Texts!CommitPin, Texts!Policy
  <2>. HIDE DEF row
  <2>5. QED
    BY <1>16, <1>17, <2>1, <2>3, <2>4
<1>20. ASSUME NEW w \in Worker, Texts!CommitReact(w)
       PROVE  MessagesInv'
  <2>1. UNCHANGED <<message, erased>> /\ Texts!Done(w) /\ txn[w].op # "idle"
    BY <1>20 DEF Texts!CommitReact, Texts!Policy
  <2>2. QED
    BY <1>13, <2>1, ReadStep
<1>21. ASSUME NEW w \in Worker, Texts!ReadRetention(w)
       PROVE  MessagesInv'
  <2>1. /\ txn'[w] = [op |-> "retain"] /\ OthersStay(w)
        /\ ~overlapped' => ~overlapped /\ OthersIdle(w)
    BY <1>2, <1>21 DEF Texts!ReadRetention
  <2>2. Found(w)' /\ Stands(w)'
    BY <2>1 DEF Found, Stands
  <2>3. QED
    BY <1>21, <2>1, <2>2, ReadStep DEF Texts!ReadRetention
<1>22. ASSUME NEW w \in Worker, Texts!ApplyRetention(w)
       PROVE  MessagesInv'
  <2>1. \A x \in Message : message'[x] =
            IF x \in Texts!Expired THEN [message[x] EXCEPT !.deleted = TRUE, !.body = "notice"]
            ELSE message[x]
    BY <1>22 DEF Texts!ApplyRetention
  <2>2. \A x \in Texts!Expired : /\ x \in Texts!Sent /\ message'[x].status = "SENT"
                                 /\ message'[x].deleted
                                 /\ message'[x].body = "notice"
    <3>1. ASSUME NEW x \in Texts!Expired
          PROVE  /\ x \in Texts!Sent /\ message'[x].status = "SENT"
                 /\ message'[x].deleted
                 /\ message'[x].body = "notice"
      <4>1. x \in Texts!Sent /\ x \in Message /\ message[x] \in Row
        BY <3>1, MessageTyped DEF Texts!Expired, MessagesInv
      <4>2. message'[x] = [message[x] EXCEPT !.deleted = TRUE, !.body = "notice"]
        BY <2>1, <3>1, <4>1
      <4>3. QED
        BY <4>1, <4>2 DEF Row
    <3>2. QED
      BY <3>1
  <2>3. \A x \in Texts!Sent : x \notin Texts!Expired => message'[x] = message[x]
    BY <2>1 DEF Texts!Sent
  <2>4. \A x \in Texts!Sent : message'[x] # Texts!None
    BY <2>2, <2>3 DEF Texts!Sent, Texts!None
  <2>5. Texts!Sent \subseteq Texts!Sent'
    BY <2>4 DEF Texts!Sent
  <2>6. erased' = erased \cup Texts!Expired /\ Texts!Done(w) /\ txn[w].op # "idle"
    BY <1>22 DEF Texts!ApplyRetention
  <2>7. \A x \in erased' : x \in Texts!Sent' /\ message'[x].deleted
    BY <2>2, <2>3, <2>5, <2>6 DEF MessagesInv
  <2>8. Texts!ErasedStaysErased'
    BY <1>13, <2>2, <2>3, <2>6 DEF MessagesInv, Texts!ErasedStaysErased
  <2>9. QED
    BY <1>13, <2>5, <2>6, <2>7, <2>8, OwnStep
<1>23. ASSUME NEW x \in Message, Texts!GrowOld(x)
       PROVE  MessagesInv'
  <2>1. x \in Texts!Sent /\ message' = [message EXCEPT ![x].old = TRUE] /\ message[x] \in Row
    BY <1>23, MessageTyped DEF Texts!GrowOld
  <2>2. /\ message'[x].status = "SENT" /\ message'[x].deleted = message[x].deleted
        /\ message'[x].body = message[x].body
        /\ \A y \in Message \ {x} : message'[y] = message[y]
    BY <2>1 DEF Row, Texts!TypeOK
  <2>3. Texts!Sent' = Texts!Sent
    <3>1. message'[x] # Texts!None
      BY <2>2 DEF Texts!None
    <3>2. \A y \in Message : message'[y] # Texts!None <=> message[y] # Texts!None
      BY <2>1, <2>2, <3>1 DEF Texts!Sent
    <3>3. QED
      BY <3>2 DEF Texts!Sent
  <2>4. \A y \in Texts!Sent : message'[y].deleted = message[y].deleted
      /\ message'[y].body = message[y].body
    BY <2>2 DEF Texts!Sent
  <2>5. UNCHANGED <<participant, erased, txn, overlapped>>
    BY <1>23 DEF Texts!GrowOld, Texts!Policy
  <2>6. \A w \in Worker : Found(w)' /\ (~overlapped' => Stands(w)')
    BY <2>3, <2>4, <2>5 DEF Found, Stands
  <2>7. Texts!ErasedStaysErased'
    BY <2>4, <2>5 DEF MessagesInv, Texts!ErasedStaysErased
  <2>8. QED
    BY <2>3, <2>4, <2>5, <2>6, <2>7 DEF MessagesInv, Alone
<1>24. CASE Texts!Forget
  BY <1>24
  DEF Texts!Forget, MessagesInv, Alone, Found, Stands, Texts!ErasedStaysErased, Texts!Sent
<1>25. QED
  BY <1>1, <1>4, <1>5, <1>6, <1>7, <1>8, <1>9, <1>10, <1>11, <1>12, <1>14, <1>15, <1>18, <1>19,
     <1>20, <1>21, <1>22, <1>23, <1>24 DEF Texts!Next


\* A row of which one column is written.
LEMMA RowChanged ==
    ASSUME NEW row \in Row
    PROVE  /\ LET r == [row EXCEPT !.body = "text"] IN
                /\ r \in Row /\ r.senderId = row.senderId
                /\ r.deleted = row.deleted /\ r.pinnedBy = row.pinnedBy
           /\ LET r == [row EXCEPT !.deleted = TRUE] IN
                /\ r \in Row /\ r.senderId = row.senderId
                /\ r.deleted /\ r.pinnedBy = row.pinnedBy
           /\ LET r == [row EXCEPT !.old = TRUE] IN
                /\ r \in Row /\ r.senderId = row.senderId
                /\ r.deleted = row.deleted /\ r.pinnedBy = row.pinnedBy
BY DEF Row

\* What was deleted or erased is not brought back by those who found it before, and it is
\* pinned by nobody any more.
THEOREM DeletedStays == Texts!Spec => DeletionStands
<1>1. Texts!Init => MessagesInv
  BY InitMessages
<1>2. MessagesInv /\ [Texts!Next]_Texts!vars => MessagesInv'
  BY NextMessages
<1>3. MessagesInv => Texts!ErasedStaysErased
  BY DEF MessagesInv
<1>4. MessagesInv /\ [Texts!Next]_Texts!vars =>
    [Texts!Deleting]_Texts!vars /\ [Texts!Pinning]_Texts!vars
  <2>. SUFFICES ASSUME MessagesInv, Texts!Next
                PROVE  Texts!Deleting /\ Texts!Pinning
    OBVIOUS
  <2>1. CASE UNCHANGED message
    BY <2>1 DEF Texts!Deleting, Texts!Pinning
  <2>2. ASSUME NEW w \in Worker, Texts!CommitSend(w)
        PROVE  Texts!Deleting /\ Texts!Pinning
    <3>1. \A x \in Texts!Sent : message'[x] = message[x]
      BY <2>2 DEF Texts!CommitSend, MessagesInv, Texts!TypeOK, Texts!Sent
    <3>2. QED
      BY <3>1 DEF Texts!Deleting, Texts!Pinning
  <2>3. ASSUME NEW y \in Texts!Sent, NEW row \in Row,
               message' = [message EXCEPT ![y] = row], row.senderId = message[y].senderId,
               message[y].deleted => row.deleted,
               ~overlapped' /\ message[y].deleted => row.pinnedBy = message[y].pinnedBy
        PROVE  Texts!Deleting /\ Texts!Pinning
    <3>1. message'[y] = row /\ \A x \in Texts!Sent \ {y} : message'[x] = message[x]
      BY <2>3, MessageTyped DEF MessagesInv, Texts!TypeOK
    <3>2. QED
      BY <2>3, <3>1 DEF Texts!Deleting, Texts!Pinning
  <2>4. ASSUME NEW w \in Worker, Texts!CommitEdit(w)
        PROVE  Texts!Deleting /\ Texts!Pinning
    <3>. DEFINE y == txn[w].message
                row == [message[y] EXCEPT !.body = "text"]
    <3>1. y \in Texts!Sent /\ message' = [message EXCEPT ![y] = row]
      BY <2>4 DEF Texts!CommitEdit, MessagesInv, Found
    <3>2. /\ row \in Row /\ row.senderId = message[y].senderId
          /\ row.deleted = message[y].deleted /\ row.pinnedBy = message[y].pinnedBy
      BY <3>1, MessageTyped, RowChanged DEF MessagesInv
    <3>. HIDE DEF row
    <3>3. QED
      BY <2>3, <3>1, <3>2
  <2>5. ASSUME NEW w \in Worker, Texts!CommitDelete(w)
        PROVE  Texts!Deleting /\ Texts!Pinning
    <3>. DEFINE y == txn[w].message
                row == [message[y] EXCEPT !.deleted = TRUE]
    <3>1. y \in Texts!Sent /\ message' = [message EXCEPT ![y] = row]
      BY <2>5 DEF Texts!CommitDelete, MessagesInv, Found
    <3>2. /\ row \in Row /\ row.senderId = message[y].senderId
          /\ row.deleted /\ row.pinnedBy = message[y].pinnedBy
      BY <3>1, MessageTyped, RowChanged DEF MessagesInv
    <3>. HIDE DEF row
    <3>3. QED
      BY <2>3, <3>1, <3>2
  <2>6. ASSUME NEW w \in Worker, Texts!CommitPin(w)
        PROVE  Texts!Deleting /\ Texts!Pinning
    <3>. DEFINE y == txn[w].message
                p == IF txn[w].pinned THEN NoUser ELSE txn[w].user
                row == [message[y] EXCEPT !.pinnedBy = p]
    <3>1. y \in Texts!Sent /\ message' = [message EXCEPT ![y] = row]
      BY <2>6 DEF Texts!CommitPin, MessagesInv, Found
    <3>2. p \in User \cup {NoUser} /\ message[y] \in Row
      BY <2>6, <3>1, MessageTyped, RequestTyped DEF Texts!CommitPin, MessagesInv
    <3>. HIDE DEF p
    <3>3. /\ row \in Row /\ row.senderId = message[y].senderId
          /\ row.deleted = message[y].deleted
      BY <3>2 DEF Row
    <3>4. ~overlapped' => ~message[y].deleted
      BY <2>6 DEF Texts!CommitPin, Texts!Done, Texts!Continue, MessagesInv, Stands
    <3>. HIDE DEF row
    <3>5. QED
      BY <2>3, <3>1, <3>3, <3>4
  <2>7. ASSUME NEW w \in Worker, Texts!ApplyRetention(w)
        PROVE  Texts!Deleting /\ Texts!Pinning
    <3>1. \A x \in Message : message'[x] =
              IF x \in Texts!Expired THEN [message[x] EXCEPT !.deleted = TRUE, !.body = "notice"]
              ELSE message[x]
      BY <2>7 DEF Texts!ApplyRetention
    <3>2. \A x \in Texts!Expired : x \in Message /\ message[x] \in Row /\ ~message[x].deleted
      BY MessageTyped DEF Texts!Expired, MessagesInv
    <3>3. \A x \in Texts!Expired : /\ message'[x].senderId = message[x].senderId
                                   /\ message'[x].deleted /\ ~message[x].deleted
      BY <3>1, <3>2 DEF Row
    <3>4. \A x \in Texts!Sent \ Texts!Expired : message'[x] = message[x]
      BY <3>1 DEF Texts!Sent
    <3>5. QED
      BY <3>3, <3>4 DEF Texts!Deleting, Texts!Pinning
  <2>8. ASSUME NEW y \in Message, Texts!GrowOld(y)
        PROVE  Texts!Deleting /\ Texts!Pinning
    <3>. DEFINE row == [message[y] EXCEPT !.old = TRUE]
    <3>1. y \in Texts!Sent /\ message' = [message EXCEPT ![y] = row]
      BY <2>8 DEF Texts!GrowOld
    <3>2. /\ row \in Row /\ row.senderId = message[y].senderId
          /\ row.deleted = message[y].deleted /\ row.pinnedBy = message[y].pinnedBy
      BY <3>1, MessageTyped, RowChanged DEF MessagesInv
    <3>. HIDE DEF row
    <3>3. QED
      BY <2>3, <3>1, <3>2
  <2>9. QED
    BY <2>1, <2>2, <2>4, <2>5, <2>6, <2>7, <2>8
    DEF Texts!Next, Texts!Tables, Texts!Abort, Texts!ChangeParticipants, Texts!ReadSend,
        Texts!ReadEdit, Texts!ReadDelete, Texts!ReadPin, Texts!ReadReact, Texts!Join,
        Texts!ResolveMentions, Texts!FindReaction, Texts!CommitReact, Texts!ReadRetention,
        Texts!Forget
<1>5. QED
  BY <1>1, <1>2, <1>3, <1>4, PTL
  DEF Texts!Spec, DeletionStands, Texts!DeletionStands, Texts!DeletedForGood, Texts!DeletedNotPinned

\* Who sends, deletes, pins or reacts takes part when it is written, unless requests overlap,
\* and so do those who are mentioned.
THEOREM WritersTakePart == Texts!Spec => ParticipantsOnly
<1>1. Texts!Init => MessagesInv
  BY InitMessages
<1>2. MessagesInv /\ [Texts!Next]_Texts!vars => MessagesInv'
  BY NextMessages
<1>3. MessagesInv /\ [Texts!Next]_Texts!vars => [Texts!WritingAsParticipant]_Texts!vars
  <2>. SUFFICES ASSUME MessagesInv, Texts!Next
                PROVE  Texts!WritingAsParticipant
    OBVIOUS
  <2>. /\ Texts!TypeOK /\ txn \in [Worker -> Texts!Txn]
       /\ \A w \in Worker : ~overlapped => Stands(w)
    BY DEF MessagesInv, Texts!TypeOK
  <2>1. \A w \in Worker : Texts!Writes(w) => txn'[w] # txn[w] /\ Texts!Tables' # Texts!Tables
    BY DEF Texts!Writes, Texts!Idle, Texts!Tables
  <2>2. ASSUME NEW w \in Worker, Texts!Done(w), UNCHANGED mention,
               ~overlapped /\ Texts!Writes(w) => txn[w].user \in participant
        PROVE  Texts!WritingAsParticipant
    <3>1. \A v \in Worker : Texts!Writes(v) => v = w
      BY <2>1, <2>2 DEF Texts!Done, Texts!Continue
    <3>2. QED
      BY <2>2, <3>1 DEF Texts!WritingAsParticipant, Texts!Done, Texts!Continue
  <2>3. ASSUME UNCHANGED <<message, reaction, mention>>
        PROVE  Texts!WritingAsParticipant
    BY <2>3 DEF Texts!WritingAsParticipant, Texts!Writes
  <2>4. ASSUME UNCHANGED txn
        PROVE  Texts!WritingAsParticipant
    BY <2>1, <2>4 DEF Texts!WritingAsParticipant
  <2>5. ASSUME NEW w \in Worker, Texts!CommitSend(w)
        PROVE  Texts!WritingAsParticipant
    <3>1. \A v \in Worker : Texts!Writes(v) => v = w
      BY <2>1, <2>5 DEF Texts!CommitSend, Texts!Done, Texts!Continue
    <3>2. ~overlapped' => txn[w].user \in participant /\ txn[w].mentions \subseteq participant
      BY <2>5 DEF Texts!CommitSend, Texts!Done, Texts!Continue, Stands
    <3>3. \A x \in Message : mention'[x] \ mention[x] \subseteq txn[w].mentions
      BY <2>5 DEF Texts!CommitSend, Texts!TypeOK
    <3>4. QED
      BY <3>1, <3>2, <3>3 DEF Texts!WritingAsParticipant
  <2>6. ASSUME NEW w \in Worker, Texts!CommitEdit(w) \/ Texts!ApplyRetention(w)
        PROVE  Texts!WritingAsParticipant
    <3>1. ~Texts!Writes(w) /\ Texts!Done(w) /\ UNCHANGED mention
      BY <2>6 DEF Texts!CommitEdit, Texts!ApplyRetention, Texts!Writes
    <3>2. QED
      BY <2>2, <3>1
  <2>7. ASSUME NEW w \in Worker, Texts!CommitDelete(w) \/ Texts!CommitPin(w)
        PROVE  Texts!WritingAsParticipant
    <3>1. Texts!Done(w) /\ UNCHANGED mention /\ (~overlapped => txn[w].user \in participant)
      BY <2>7 DEF Texts!CommitDelete, Texts!CommitPin, Stands
    <3>2. QED
      BY <2>2, <3>1
  <2>8. ASSUME NEW w \in Worker, Texts!CommitReact(w)
        PROVE  Texts!WritingAsParticipant
    <3>1. Texts!Done(w) /\ UNCHANGED mention /\ (~overlapped => txn[w].user \in participant)
      BY <2>8 DEF Texts!CommitReact, Stands
    <3>2. QED
      BY <2>2, <3>1
  <2>9. ASSUME NEW w \in Worker, NEW u \in User, Texts!ChangeParticipants(w, u)
        PROVE  Texts!WritingAsParticipant
    BY <2>3, <2>9 DEF Texts!ChangeParticipants
  <2>10. ASSUME UNCHANGED Texts!Tables
         PROVE  Texts!WritingAsParticipant
    BY <2>3, <2>10 DEF Texts!Tables
  <2>11. QED
    BY <2>3, <2>4, <2>5, <2>6, <2>7, <2>8, <2>9, <2>10
    DEF Texts!Next, Texts!Abort, Texts!ReadSend, Texts!ReadEdit, Texts!ReadDelete, Texts!ReadPin,
        Texts!ReadReact, Texts!Join, Texts!ResolveMentions, Texts!FindReaction,
        Texts!ReadRetention, Texts!Forget, Texts!GrowOld
<1>4. QED
  BY <1>1, <1>2, <1>3, PTL DEF Texts!Spec, ParticipantsOnly, Texts!ParticipantsOnly

-----------------------------------------------------------------------------
(* Plans and modules: what a plan was given it has, and its clubs with it. *)

\* An instance has its own copy of the definitions of Requests.
LEMMA ModulesRequests ==
    /\ \A w, t : /\ Modules!Begin(w, t) <=> Begin(w, t)
                 /\ Modules!Continue(w, t) <=> Continue(w, t)
    /\ \A w : (Modules!Done(w) <=> Done(w)) /\ (Modules!AtOnce(w) <=> AtOnce(w))
BY DEF Modules!Begin, Modules!Continue, Modules!Done, Modules!AtOnce, Modules!Overlap,
   Modules!Idle,
       Begin, Continue, Done, AtOnce, Overlap, Idle

\* What the request of w has read or written is still so, if it is the only one.
SyncStands(w) ==
    LET r == txn[w] IN
    /\ r.op = "planModules" /\ r.step = "deleted" => r.seen = planModules[r.plan]
    /\ r.op = "assign" /\ r.step \in {"assigned", "sync"} =>
          r.plan \in Plan /\ plan[r.tenant] = r.plan
    /\ r.op = "assign" /\ r.step = "sync" =>
          r.active = Modules!Active /\ r.included = planModules[r.plan]

ModulesInv ==
    /\ Modules!TypeOK /\ Alone
    /\ ~overlapped => \A w \in Worker : SyncStands(w)
    /\ Modules!ModulesKept

LEMMA PlanRequestTyped ==
    ASSUME Modules!TypeOK, NEW w \in Worker
    PROVE  /\ txn[w].op = "planModules" =>
                txn[w] \in [op : {"planModules"}, step : {"read", "deleted"}, plan : Plan,
                            modules : SUBSET Module, seen : SUBSET Module]
           /\ txn[w].op = "assign" => txn[w].step \in {"read", "assigned", "sync"}
           /\ txn[w].op = "assign" /\ txn[w].step = "read" =>
                txn[w] \in [op : {"assign"}, tenant : Subscriber, step : {"read"},
                            plan : Plan \cup {NoPlan}]
           /\ txn[w].op = "assign" /\ txn[w].step = "assigned" =>
                txn[w] \in [op : {"assign"}, tenant : Subscriber, step : {"assigned"}, plan : Plan]
           /\ txn[w].op = "assign" /\ txn[w].step = "sync" =>
                txn[w] \in [op : {"assign"}, tenant : Subscriber, step : {"sync"}, plan : Plan,
                            active : SUBSET Module, included : SUBSET Module]
           /\ txn[w].op = "settings" =>
                txn[w] \in [op : {"settings"}, tenant : Subscriber,
                            todo : [Module -> Modules!Setting]]
BY DEF Modules!TypeOK, Modules!Txn, Modules!Idle

LEMMA InitModules == Modules!Init => ModulesInv
<1>. SUFFICES ASSUME Modules!Init
              PROVE  ModulesInv
  OBVIOUS
<1>1. Modules!TypeOK
  BY DEF Modules!Init, Modules!TypeOK, Modules!NoRequests, Modules!Txn, Modules!ModuleStatus,
         Modules!Setting
<1>2. \A w \in Worker : txn[w].op = "idle"
  BY DEF Modules!Init, Modules!NoRequests, Modules!Idle
<1>3. Modules!ModulesKept
  BY DEF Modules!Init, Modules!ModulesKept, Modules!PlanAsGiven, Modules!ModulesFollowPlan
<1>4. QED
  BY <1>1, <1>2, <1>3 DEF ModulesInv, Alone, SyncStands

LEMMA ModulesTyped == ASSUME Modules!TypeOK, [Modules!Next]_Modules!vars PROVE Modules!TypeOK'
<1>1. CASE UNCHANGED Modules!vars
  BY <1>1 DEF Modules!vars, Modules!TypeOK
<1>2. \A w \in Worker : Modules!Overlap(w) => overlapped' \in BOOLEAN
  BY DEF Modules!Overlap, Modules!TypeOK
<1>3. Modules!Idle \in Modules!Txn
  BY DEF Modules!Txn
<1>4. ASSUME NEW w \in Worker, NEW t \in Modules!Txn,
             Modules!Begin(w, t) \/ Modules!Continue(w, t)
      PROVE  txn' \in [Worker -> Modules!Txn] /\ overlapped' \in BOOLEAN
  BY <1>2, <1>4 DEF Modules!Begin, Modules!Continue, Modules!TypeOK
<1>5. ASSUME NEW w \in Worker, NEW t \in Modules!Txn,
             Modules!Begin(w, t) \/ Modules!Continue(w, t),
             UNCHANGED <<Modules!Catalogue, Modules!Clubs>>
      PROVE  Modules!TypeOK'
  BY <1>4, <1>5 DEF Modules!Catalogue, Modules!Clubs, Modules!TypeOK
<1>6. ASSUME NEW w \in Worker, Modules!Abort(w)
      PROVE  Modules!TypeOK'
  BY <1>3, <1>5, <1>6 DEF Modules!Abort, Modules!Done
<1>7. ASSUME NEW w \in Worker, NEW m \in Module,
             Modules!CreateModule(w, m) \/ Modules!ArchiveModule(w, m)
      PROVE  Modules!TypeOK'
  BY <1>2, <1>7
  DEF Modules!CreateModule, Modules!ArchiveModule, Modules!AtOnce, Modules!Clubs, Modules!TypeOK,
      Modules!ModuleStatus
<1>8. ASSUME NEW w \in Worker, NEW p \in Plan, Modules!ReadPlanModules(w, p)
      PROVE  Modules!TypeOK'
  <2>1. \A ms \in SUBSET Modules!Offerable : [op |-> "planModules", step |-> "read", plan |-> p,
                                      modules |-> ms, seen |-> {}] \in Modules!Txn
    BY DEF Modules!Txn, Modules!Offerable, Modules!Active
  <2>2. QED
    BY <1>5, <1>8, <2>1 DEF Modules!ReadPlanModules
<1>9. ASSUME NEW w \in Worker, Modules!DeletePlanModules(w)
      PROVE  Modules!TypeOK'
  <2>1. txn[w] \in [op : {"planModules"}, step : {"read", "deleted"}, plan : Plan,
                    modules : SUBSET Module, seen : SUBSET Module]
    BY <1>9, PlanRequestTyped DEF Modules!DeletePlanModules
  <2>2. Modules!Seen(txn[w].plan) \in SUBSET Module
    BY <2>1 DEF Modules!Seen, Modules!TypeOK
  <2>3. [txn[w] EXCEPT !.step = "deleted", !.seen = Modules!Seen(txn[w].plan)] \in Modules!Txn
    BY <2>1, <2>2 DEF Modules!Txn
  <2>4. QED
    BY <1>5, <1>9, <2>3 DEF Modules!DeletePlanModules
<1>10. ASSUME NEW w \in Worker, Modules!CommitPlanModules(w)
       PROVE  Modules!TypeOK'
  <2>. DEFINE r == txn[w]
  <2>1. r.plan \in Plan /\ r.modules \in SUBSET Module /\ planModules[r.plan] \in SUBSET Module
    BY <1>10, PlanRequestTyped DEF Modules!CommitPlanModules, Modules!TypeOK
  <2>2. \A v \in Worker : txn[v].op = "planModules" =>
            [txn[v] EXCEPT !.seen = @ \ (r.seen \cup r.modules)] \in Modules!Txn
    <3>1. ASSUME NEW v \in Worker, txn[v].op = "planModules"
          PROVE  [txn[v] EXCEPT !.seen = @ \ (r.seen \cup r.modules)] \in Modules!Txn
      <4>1. txn[v] \in [op : {"planModules"}, step : {"read", "deleted"}, plan : Plan,
                        modules : SUBSET Module, seen : SUBSET Module]
        BY <3>1, PlanRequestTyped
      <4>2. QED
        BY <4>1 DEF Modules!Txn
    <3>2. QED
      BY <3>1
  <2>3. txn' \in [Worker -> Modules!Txn]
    BY <1>3, <1>10, <2>2 DEF Modules!CommitPlanModules, Modules!TypeOK
  <2>4. planModules' \in [Plan -> SUBSET Module] /\ asked' \in [Plan -> SUBSET Module]
    BY <1>10, <2>1 DEF Modules!CommitPlanModules, Modules!TypeOK
  <2>5. QED
    BY <1>10, <2>3, <2>4 DEF Modules!CommitPlanModules, Modules!TypeOK
<1>11. ASSUME NEW w \in Worker, NEW t \in Subscriber, Modules!ReadAssign(w, t)
       PROVE  Modules!TypeOK'
  <2>1. \A p \in Plan \cup {NoPlan} :
            [op |-> "assign", tenant |-> t, step |-> "read", plan |-> p] \in Modules!Txn
    BY DEF Modules!Txn
  <2>2. QED
    BY <1>5, <1>11, <2>1 DEF Modules!ReadAssign
<1>12. ASSUME NEW w \in Worker, NEW t \in Subscriber, Modules!ReadSettings(w, t)
       PROVE  Modules!TypeOK'
  <2>1. \A todo \in [Module -> Modules!Setting] :
            [op |-> "settings", tenant |-> t, todo |-> todo] \in Modules!Txn
    BY DEF Modules!Txn
  <2>2. QED
    BY <1>5, <1>12, <2>1 DEF Modules!ReadSettings
<1>13. ASSUME NEW w \in Worker, Modules!CommitAssign(w)
       PROVE  Modules!TypeOK'
  <2>1. txn[w] \in [op : {"assign"}, tenant : Subscriber, step : {"read"},
                    plan : Plan \cup {NoPlan}]
    BY <1>13, PlanRequestTyped DEF Modules!CommitAssign
  <2>2. txn[w].plan # NoPlan => [txn[w] EXCEPT !.step = "assigned"] \in Modules!Txn
    BY <2>1 DEF Modules!Txn
  <2>3. txn' \in [Worker -> Modules!Txn] /\ overlapped' \in BOOLEAN
    BY <1>3, <1>4, <1>13, <2>2 DEF Modules!CommitAssign, Modules!Done
  <2>4. QED
    BY <1>13, <2>1, <2>3 DEF Modules!CommitAssign, Modules!Catalogue, Modules!TypeOK
<1>14. ASSUME NEW w \in Worker, Modules!ReadSync(w)
       PROVE  Modules!TypeOK'
  <2>1. txn[w] \in [op : {"assign"}, tenant : Subscriber, step : {"assigned"}, plan : Plan]
    BY <1>14, PlanRequestTyped DEF Modules!ReadSync
  <2>2. PICK t \in Subscriber, p \in Plan : t = txn[w].tenant /\ p = txn[w].plan
    BY <2>1
  <2>3. [op |-> "assign", tenant |-> t, step |-> "sync", plan |-> p,
         active |-> Modules!Active, included |-> planModules[p]] \in Modules!Txn
    BY DEF Modules!Txn, Modules!TypeOK, Modules!Active
  <2>4. QED
    BY <1>5, <1>14, <2>2, <2>3 DEF Modules!ReadSync
<1>15. ASSUME NEW w \in Worker, Modules!CommitSync(w)
       PROVE  Modules!TypeOK'
  <2>1. txn[w].tenant \in Subscriber
    BY <1>15, PlanRequestTyped DEF Modules!CommitSync
  <2>2. Modules!Synced(setting[txn[w].tenant], txn[w].active, txn[w].included)
            \in [Module -> Modules!Setting]
    BY <2>1 DEF Modules!Synced, Modules!Setting, Modules!TypeOK
  <2>3. setting' \in [Subscriber -> [Module -> Modules!Setting]]
    BY <1>15, <2>2 DEF Modules!CommitSync, Modules!TypeOK
  <2>4. txn' \in [Worker -> Modules!Txn] /\ overlapped' \in BOOLEAN
    BY <1>3, <1>4, <1>15 DEF Modules!CommitSync, Modules!Done
  <2>5. QED
    BY <1>15, <2>3, <2>4 DEF Modules!CommitSync, Modules!Catalogue, Modules!TypeOK
<1>16. ASSUME NEW w \in Worker, Modules!SetModule(w)
       PROVE  Modules!TypeOK'
  <2>1. txn[w] \in [op : {"settings"}, tenant : Subscriber,
                            todo : [Module -> Modules!Setting]]
    BY <1>16, PlanRequestTyped DEF Modules!SetModule
  <2>2. PICK m \in Module :
          LET rest == [txn[w].todo EXCEPT ![m] = "NONE"] IN
          /\ setting' = [setting EXCEPT ![txn[w].tenant][m] = txn[w].todo[m]]
          /\ IF \A n \in Module : rest[n] = "NONE"
             THEN Modules!Done(w)
             ELSE Modules!Continue(w, [txn[w] EXCEPT !.todo = rest])
    BY <1>16 DEF Modules!SetModule
  <2>3. [txn[w].todo EXCEPT ![m] = "NONE"] \in [Module -> Modules!Setting]
    BY <2>1 DEF Modules!Setting
  <2>4. [txn[w] EXCEPT !.todo = [txn[w].todo EXCEPT ![m] = "NONE"]] \in Modules!Txn
    BY <2>1, <2>3 DEF Modules!Txn
  <2>5. txn' \in [Worker -> Modules!Txn] /\ overlapped' \in BOOLEAN
    BY <1>3, <1>4, <2>2, <2>4 DEF Modules!Done
  <2>6. setting' \in [Subscriber -> [Module -> Modules!Setting]]
    BY <2>1, <2>2 DEF Modules!TypeOK
  <2>7. QED
    BY <1>16, <2>1, <2>5, <2>6 DEF Modules!SetModule, Modules!Catalogue, Modules!TypeOK
<1>17. QED
  BY <1>1, <1>6, <1>7, <1>8, <1>9, <1>10, <1>11, <1>12, <1>13, <1>14, <1>15, <1>16
  DEF Modules!Next


\* A step of the only request in flight keeps the invariant if what it has read then stands
\* and the modules are kept; nothing is claimed once requests have overlapped.
LEMMA OnlyStep ==
    ASSUME Modules!TypeOK', NEW w \in Worker, Alone, OthersStay(w),
           ~overlapped' => ~overlapped /\ OthersIdle(w),
           ~overlapped' => SyncStands(w)' /\ Modules!PlanAsGiven' /\ Modules!ModulesFollowPlan'
    PROVE  ModulesInv'
<1>1. ASSUME ~overlapped', NEW v \in Worker
      PROVE  SyncStands(v)'
  <2>1. v = w \/ txn'[v].op = "idle"
    BY <1>1 DEF OthersStay, OthersIdle
  <2>2. QED
    BY <1>1, <2>1 DEF SyncStands
<1>2. Alone'
  BY StaysAlone
<1>3. overlapped' => Modules!PlanAsGiven' /\ Modules!ModulesFollowPlan'
  BY DEF Modules!PlanAsGiven, Modules!ModulesFollowPlan
<1>4. QED
  BY <1>1, <1>2, <1>3 DEF ModulesInv, Modules!ModulesKept

LEMMA NextModules ==
    ASSUME Modules!ConstantsOK, ModulesInv, [Modules!Next]_Modules!vars
    PROVE  ModulesInv'
<1>. /\ Modules!TypeOK /\ Modules!TypeOK' /\ Alone /\ txn \in [Worker -> Modules!Txn]
     /\ Modules!PlanAsGiven /\ Modules!ModulesFollowPlan
     /\ \A w \in Worker : ~overlapped => SyncStands(w)
  BY ModulesTyped DEF ModulesInv, Modules!ModulesKept, Modules!TypeOK
<1>1. CASE UNCHANGED Modules!vars
  BY <1>1
  DEF Modules!vars, ModulesInv, Alone, SyncStands, Modules!Active, Modules!ModulesKept,
      Modules!PlanAsGiven, Modules!ModulesFollowPlan, Modules!Enabled
<1>2. ASSUME NEW w \in Worker, NEW t,
             Modules!Begin(w, t) \/ (Modules!Continue(w, t) /\ txn[w].op # "idle")
      PROVE  txn'[w] = t /\ OthersStay(w) /\ (~overlapped' => ~overlapped /\ OthersIdle(w))
  BY <1>2, OwnSteps, ModulesRequests
<1>3. ASSUME NEW w \in Worker, NEW t,
             Modules!Begin(w, t) \/ (Modules!Continue(w, t) /\ txn[w].op # "idle"),
             UNCHANGED <<Modules!Catalogue, Modules!Clubs>>, ~overlapped' => SyncStands(w)'
      PROVE  ModulesInv'
  <2>1. ~overlapped' => Modules!PlanAsGiven' /\ Modules!ModulesFollowPlan'
    BY <1>2, <1>3
    DEF Modules!Catalogue, Modules!Clubs, Modules!PlanAsGiven, Modules!ModulesFollowPlan,
        Modules!Enabled, Modules!Active
  <2>2. QED
    BY <1>2, <1>3, <2>1, OnlyStep
<1>4. ASSUME NEW w \in Worker, Modules!Abort(w)
      PROVE  ModulesInv'
  <2>1. txn[w].op # "idle" /\ Modules!Continue(w, Modules!Idle)
    BY <1>4 DEF Modules!Abort, Modules!Done, Modules!TypeOK, Modules!Txn, Modules!Idle
  <2>2. txn'[w].op = "idle"
    BY <1>2, <2>1 DEF Modules!Idle
  <2>3. SyncStands(w)'
    BY <2>2 DEF SyncStands
  <2>4. QED
    BY <1>3, <1>4, <2>1, <2>3 DEF Modules!Abort
<1>5. ASSUME NEW w \in Worker, Modules!AtOnce(w)
      PROVE  /\ OthersStay(w) /\ (~overlapped' => ~overlapped /\ OthersIdle(w))
             /\ SyncStands(w)'
  BY <1>5, Steps, ModulesRequests DEF OthersStay, SyncStands
<1>6. ASSUME NEW w \in Worker, NEW m \in Module, Modules!CreateModule(w, m)
      PROVE  ModulesInv'
  <2>1. ~overlapped' => Modules!PlanAsGiven' /\ Modules!ModulesFollowPlan'
    BY <1>5, <1>6 DEF Modules!CreateModule, Modules!PlanAsGiven, Modules!ModulesFollowPlan
  <2>2. QED
    BY <1>5, <1>6, <2>1, OnlyStep DEF Modules!CreateModule
<1>7. ASSUME NEW w \in Worker, NEW m \in Module, Modules!ArchiveModule(w, m)
      PROVE  ModulesInv'
  <2>1. Modules!Active' = Modules!Active \ {m}
    BY <1>7 DEF Modules!ArchiveModule, Modules!Active, Modules!TypeOK
  <2>2. UNCHANGED <<planModules, asked, plan, setting, apart>>
    BY <1>7 DEF Modules!ArchiveModule, Modules!Clubs
  <2>3. \A t \in Subscriber : Modules!Enabled(t)' = Modules!Enabled(t) \ {m}
    BY <2>1, <2>2 DEF Modules!Enabled
  <2>4. ~overlapped' => Modules!PlanAsGiven' /\ Modules!ModulesFollowPlan'
    BY <1>5, <1>7, <2>1, <2>2, <2>3
    DEF Modules!ArchiveModule, Modules!PlanAsGiven, Modules!ModulesFollowPlan
  <2>5. QED
    BY <1>5, <1>7, <2>4, OnlyStep DEF Modules!ArchiveModule
<1>8. ASSUME NEW w \in Worker, NEW p \in Plan, Modules!ReadPlanModules(w, p)
      PROVE  ModulesInv'
  <2>1. PICK ms : Modules!Begin(w, [op |-> "planModules", step |-> "read", plan |-> p,
                            modules |-> ms, seen |-> {}])
    BY <1>8 DEF Modules!ReadPlanModules
  <2>2. txn'[w] = [op |-> "planModules", step |-> "read", plan |-> p, modules |-> ms,
                   seen |-> {}]
    BY <1>2, <2>1
  <2>3. SyncStands(w)'
    BY <2>2 DEF SyncStands
  <2>4. QED
    BY <1>3, <1>8, <2>1, <2>3 DEF Modules!ReadPlanModules
<1>9. ASSUME NEW w \in Worker, Modules!DeletePlanModules(w)
      PROVE  ModulesInv'
  <2>1. txn[w] \in [op : {"planModules"}, step : {"read", "deleted"}, plan : Plan,
                    modules : SUBSET Module, seen : SUBSET Module]
    BY <1>9, PlanRequestTyped DEF Modules!DeletePlanModules
  <2>2. txn'[w] = [txn[w] EXCEPT !.step = "deleted", !.seen = Modules!Seen(txn[w].plan)]
    BY <1>2, <1>9 DEF Modules!DeletePlanModules
  <2>3. /\ txn'[w].op = "planModules" /\ txn'[w].plan = txn[w].plan
        /\ txn'[w].seen = planModules[txn[w].plan]
    BY <2>1, <2>2 DEF Modules!Seen
  <2>4. SyncStands(w)'
    BY <1>9, <2>3 DEF SyncStands, Modules!DeletePlanModules, Modules!Catalogue
  <2>5. QED
    BY <1>3, <1>9, <2>4 DEF Modules!DeletePlanModules
<1>10. ASSUME NEW w \in Worker, Modules!CommitPlanModules(w)
       PROVE  ModulesInv'
  <2>. PICK p : p = txn[w].plan
    OBVIOUS
  <2>. PICK ms : ms = txn[w].modules
    OBVIOUS
  <2>1. txn'[w].op = "idle" /\ overlapped' = overlapped
    BY <1>10 DEF Modules!CommitPlanModules, Modules!Idle, Modules!TypeOK
  <2>2. Alone => (~overlapped => OthersIdle(w))
    BY <1>10 DEF Modules!CommitPlanModules, Alone, OthersIdle
  <2>3. ~overlapped => OthersStay(w)
    BY <1>10, <2>2 DEF Modules!CommitPlanModules, OthersIdle, OthersStay
  <2>4. ASSUME ~overlapped'
        PROVE  SyncStands(w)' /\ Modules!PlanAsGiven' /\ Modules!ModulesFollowPlan'
    <3>1. txn[w].seen = planModules[p] /\ p \in Plan
      BY <1>10, <2>1, <2>4, PlanRequestTyped DEF Modules!CommitPlanModules, SyncStands
    <3>2. /\ planModules' = [planModules EXCEPT ![p] = ms] /\ asked' = [asked EXCEPT ![p] = ms]
          /\ apart' = apart \cup {t \in Subscriber : plan[t] = p}
          /\ UNCHANGED <<catalogue, plan, setting>>
      BY <1>10, <3>1 DEF Modules!CommitPlanModules
    <3>3. Modules!PlanAsGiven'
      BY <2>1, <2>4, <3>1, <3>2 DEF Modules!PlanAsGiven, Modules!TypeOK
    <3>4. ASSUME NEW t \in Subscriber \ apart'
          PROVE  plan'[t] # NoPlan
              /\ Modules!Enabled(t)' = Modules!Active' \cap planModules'[plan'[t]]
      <4>1. t \notin apart /\ plan[t] # p
        BY <3>2, <3>4
      <4>2. plan[t] # NoPlan /\ Modules!Enabled(t) = Modules!Active \cap planModules[plan[t]]
        BY <2>1, <2>4, <4>1 DEF Modules!ModulesFollowPlan
      <4>3. plan[t] \in Plan /\ planModules'[plan[t]] = planModules[plan[t]]
        BY <3>2, <4>1, <4>2 DEF Modules!TypeOK
      <4>4. QED
        BY <3>2, <4>2, <4>3 DEF Modules!Enabled, Modules!Active
    <3>5. QED
      BY <2>1, <3>3, <3>4 DEF Modules!ModulesFollowPlan, SyncStands
  <2>5. CASE ~overlapped'
    BY <2>1, <2>2, <2>3, <2>4, <2>5, OnlyStep
  <2>6. CASE overlapped'
    BY <2>6
    DEF ModulesInv, Modules!ModulesKept, Modules!PlanAsGiven, Modules!ModulesFollowPlan, Alone
  <2>7. QED
    BY <2>5, <2>6
<1>11. ASSUME NEW w \in Worker, NEW t \in Subscriber, Modules!ReadAssign(w, t)
       PROVE  ModulesInv'
  <2>1. PICK p : Modules!Begin(w, [op |-> "assign", tenant |-> t, step |-> "read", plan |-> p])
    BY <1>11 DEF Modules!ReadAssign
  <2>2. txn'[w] = [op |-> "assign", tenant |-> t, step |-> "read", plan |-> p]
    BY <1>2, <2>1
  <2>3. SyncStands(w)'
    BY <2>2 DEF SyncStands
  <2>4. QED
    BY <1>3, <1>11, <2>1, <2>3 DEF Modules!ReadAssign
<1>12. ASSUME NEW w \in Worker, NEW t \in Subscriber, Modules!ReadSettings(w, t)
       PROVE  ModulesInv'
  <2>1. PICK todo : Modules!Begin(w, [op |-> "settings", tenant |-> t, todo |-> todo])
    BY <1>12 DEF Modules!ReadSettings
  <2>2. txn'[w] = [op |-> "settings", tenant |-> t, todo |-> todo]
    BY <1>2, <2>1
  <2>3. SyncStands(w)'
    BY <2>2 DEF SyncStands
  <2>4. QED
    BY <1>3, <1>12, <2>1, <2>3 DEF Modules!ReadSettings
\* A tenant that is set apart takes nothing from the others.
<1>13. ASSUME NEW t \in Subscriber, apart' = apart \cup {t}, UNCHANGED Modules!Catalogue,
              \A s \in Subscriber \ {t} : plan'[s] = plan[s] /\ setting'[s] = setting[s],
              ~overlapped' => ~overlapped
       PROVE  ~overlapped' => Modules!PlanAsGiven' /\ Modules!ModulesFollowPlan'
  <2>1. ASSUME NEW s \in Subscriber \ apart', ~overlapped'
        PROVE  plan'[s] # NoPlan
            /\ Modules!Enabled(s)' = Modules!Active' \cap planModules'[plan'[s]]
    <3>1. s # t /\ s \notin apart
      BY <1>13, <2>1
    <3>2. Modules!Enabled(s)' = Modules!Enabled(s)
      BY <1>13, <3>1 DEF Modules!Enabled, Modules!Active, Modules!Catalogue
    <3>3. QED
      BY <1>13, <2>1, <3>1, <3>2 DEF Modules!ModulesFollowPlan, Modules!Active, Modules!Catalogue
  <2>2. QED
    BY <1>13, <2>1 DEF Modules!PlanAsGiven, Modules!ModulesFollowPlan, Modules!Catalogue
<1>14. ASSUME NEW w \in Worker, Modules!CommitAssign(w)
       PROVE  ModulesInv'
  <2>. PICK t : t = txn[w].tenant
    OBVIOUS
  <2>. PICK p : p = txn[w].plan
    OBVIOUS
  <2>1. txn[w] \in [op : {"assign"}, tenant : Subscriber, step : {"read"},
                    plan : Plan \cup {NoPlan}]
    BY <1>14, PlanRequestTyped DEF Modules!CommitAssign
  <2>2. t \in Subscriber /\ p \in Plan \cup {NoPlan} /\ txn[w].op # "idle"
    BY <2>1
  <2>3. /\ plan' = [plan EXCEPT ![t] = p] /\ apart' = apart \cup {t}
        /\ UNCHANGED <<setting, Modules!Catalogue>>
    BY <1>14 DEF Modules!CommitAssign
  <2>4. PICK q : Modules!Continue(w, q)
      /\ (q = Modules!Idle \/ (q = [txn[w] EXCEPT !.step = "assigned"]
                                                                /\ p # NoPlan))
    BY <1>14 DEF Modules!CommitAssign, Modules!Done
  <2>5. txn'[w] = q /\ OthersStay(w) /\ (~overlapped' => ~overlapped /\ OthersIdle(w))
    BY <1>2, <2>2, <2>4
  <2>6. SyncStands(w)'
    <3>1. CASE q = Modules!Idle
      BY <2>5, <3>1 DEF SyncStands, Modules!Idle
    <3>2. CASE q = [txn[w] EXCEPT !.step = "assigned"] /\ p # NoPlan
      <4>1. /\ txn'[w].op = "assign" /\ txn'[w].step = "assigned" /\ txn'[w].tenant = t
            /\ txn'[w].plan = p
        BY <2>1, <2>5, <3>2
      <4>2. p \in Plan /\ plan'[t] = p
        BY <2>2, <2>3, <3>2 DEF Modules!TypeOK
      <4>3. QED
        BY <4>1, <4>2 DEF SyncStands
    <3>3. QED
      BY <2>4, <3>1, <3>2
  <2>7. ~overlapped' => Modules!PlanAsGiven' /\ Modules!ModulesFollowPlan'
    BY <1>13, <2>2, <2>3, <2>5 DEF Modules!TypeOK
  <2>8. QED
    BY <2>5, <2>6, <2>7, OnlyStep
<1>15. ASSUME NEW w \in Worker, Modules!ReadSync(w)
       PROVE  ModulesInv'
  <2>. PICK t : t = txn[w].tenant
    OBVIOUS
  <2>. PICK p : p = txn[w].plan
    OBVIOUS
  <2>1. Modules!Continue(w, [op |-> "assign", tenant |-> t, step |-> "sync", plan |-> p,
                     active |-> Modules!Active, included |-> planModules[p]])
    BY <1>15 DEF Modules!ReadSync
  <2>2. /\ txn'[w] = [op |-> "assign", tenant |-> t, step |-> "sync", plan |-> p,
                      active |-> Modules!Active, included |-> planModules[p]]
        /\ ~overlapped' => ~overlapped
    BY <1>2, <1>15, <2>1 DEF Modules!ReadSync
  <2>3. UNCHANGED <<plan, Modules!Active, planModules>>
    BY <1>15 DEF Modules!ReadSync, Modules!Catalogue, Modules!Clubs, Modules!Active
  <2>4. ~overlapped => p \in Plan /\ plan[t] = p
    BY <1>15 DEF Modules!ReadSync, SyncStands
  <2>5. ~overlapped' => SyncStands(w)'
    BY <2>2, <2>3, <2>4 DEF SyncStands
  <2>6. QED
    BY <1>3, <1>15, <2>1, <2>5 DEF Modules!ReadSync
<1>16. ASSUME NEW w \in Worker, Modules!CommitSync(w)
       PROVE  ModulesInv'
  <2>. PICK t : t = txn[w].tenant
    OBVIOUS
  <2>1. t \in Subscriber /\ txn[w].op # "idle"
    BY <1>16, PlanRequestTyped DEF Modules!CommitSync
  <2>2. txn'[w] = Modules!Idle /\ OthersStay(w) /\ (~overlapped' => ~overlapped /\ OthersIdle(w))
    BY <1>2, <1>16, <2>1 DEF Modules!CommitSync, Modules!Done
  <2>3. SyncStands(w)'
    BY <2>2 DEF SyncStands, Modules!Idle
  <2>4. /\ setting'[t] = Modules!Synced(setting[t], txn[w].active, txn[w].included)
        /\ \A s \in Subscriber \ {t} : setting'[s] = setting[s]
        /\ apart' = apart \ {t} /\ UNCHANGED <<plan, Modules!Catalogue>>
    BY <1>16, <2>1 DEF Modules!CommitSync, Modules!TypeOK
  <2>5. UNCHANGED <<Modules!Active, planModules, asked>>
    BY <2>4 DEF Modules!Active, Modules!Catalogue
  <2>6. ASSUME ~overlapped'
        PROVE  Modules!PlanAsGiven' /\ Modules!ModulesFollowPlan'
    <3>1. /\ plan[t] \in Plan /\ txn[w].active = Modules!Active
          /\ txn[w].included = planModules[plan[t]]
      BY <1>16, <2>2, <2>6 DEF Modules!CommitSync, SyncStands
    <3>2. \A m \in Modules!Active : setting'[t][m] # "DISABLED" <=> m \in planModules[plan[t]]
      BY <2>4, <3>1 DEF Modules!Synced, Modules!Active
    <3>3. plan'[t] # NoPlan /\ Modules!Enabled(t)' = Modules!Active' \cap planModules'[plan'[t]]
      BY <2>4, <2>5, <3>1, <3>2 DEF Modules!Enabled, Modules!ConstantsOK
    <3>4. ASSUME NEW s \in Subscriber \ {t}, s \notin apart'
          PROVE  plan'[s] # NoPlan
              /\ Modules!Enabled(s)' = Modules!Active' \cap planModules'[plan'[s]]
      <4>1. Modules!Enabled(s)' = Modules!Enabled(s) /\ s \notin apart
        BY <2>4, <2>5, <3>4 DEF Modules!Enabled
      <4>2. QED
        BY <2>2, <2>4, <2>5, <2>6, <3>4, <4>1 DEF Modules!ModulesFollowPlan
    <3>5. QED
      BY <2>2, <2>5, <2>6, <3>3, <3>4 DEF Modules!PlanAsGiven, Modules!ModulesFollowPlan
  <2>7. QED
    BY <2>2, <2>3, <2>6, OnlyStep
<1>17. ASSUME NEW w \in Worker, Modules!SetModule(w)
       PROVE  ModulesInv'
  <2>. PICK t : t = txn[w].tenant
    OBVIOUS
  <2>1. txn[w] \in [op : {"settings"}, tenant : Subscriber,
                            todo : [Module -> Modules!Setting]]
    BY <1>17, PlanRequestTyped DEF Modules!SetModule
  <2>2. PICK m \in Module :
          LET rest == [txn[w].todo EXCEPT ![m] = "NONE"] IN
          /\ setting' = [setting EXCEPT ![t][m] = txn[w].todo[m]]
          /\ Modules!Done(w) \/ Modules!Continue(w, [txn[w] EXCEPT !.todo = rest])
    BY <1>17 DEF Modules!SetModule
  <2>3. PICK q : Modules!Continue(w, q)
      /\ (q = Modules!Idle \/ \E f : q = [txn[w] EXCEPT !.todo = f])
    BY <2>2 DEF Modules!Done
  <2>4. txn'[w] = q /\ OthersStay(w) /\ (~overlapped' => ~overlapped /\ OthersIdle(w))
    BY <1>2, <2>1, <2>3
  <2>5. q.op \in {"idle", "settings"}
    BY <2>1, <2>3 DEF Modules!Idle
  <2>6. SyncStands(w)'
    BY <2>4, <2>5 DEF SyncStands
  <2>7. t \in Subscriber /\ apart' = apart \cup {t} /\ UNCHANGED <<Modules!Catalogue, plan>>
    BY <1>17, <2>1 DEF Modules!SetModule
  <2>8. \A s \in Subscriber \ {t} : setting'[s] = setting[s]
    BY <2>2, <2>7 DEF Modules!TypeOK
  <2>9. ~overlapped' => Modules!PlanAsGiven' /\ Modules!ModulesFollowPlan'
    BY <1>13, <2>4, <2>7, <2>8
  <2>10. QED
    BY <2>4, <2>6, <2>9, OnlyStep
<1>18. QED
  BY <1>1, <1>4, <1>6, <1>7, <1>8, <1>9, <1>10, <1>11, <1>12, <1>14, <1>15, <1>16, <1>17
  DEF Modules!Next

\* Unless requests overlap, plans have the modules they were given, and the clubs of a plan may
\* use those, from the end of an assignment until something is changed by hand.
THEOREM ModulesAreKept == Modules!Spec => []ModulesKept
<1>1. Modules!Init => ModulesInv
  BY InitModules
<1>2. ModulesInv /\ [Modules!Next]_Modules!vars => ModulesInv'
  BY NextModules, ComponentsOK DEF ComponentsOK
<1>3. ModulesInv => ModulesKept
  BY DEF ModulesInv, ModulesKept
<1>4. QED
  BY <1>1, <1>2, <1>3, PTL DEF Modules!Spec

-----------------------------------------------------------------------------
(* Members: rows and files agree, and what was decided stands.             *)

\* An instance has its own copy of the definitions of Requests.
LEMMA PeopleRequests ==
    /\ \A w, t : /\ People!Begin(w, t) <=> Begin(w, t)
                 /\ People!Continue(w, t) <=> Continue(w, t)
    /\ \A w : (People!Done(w) <=> Done(w)) /\ (People!AtOnce(w) <=> AtOnce(w))
BY DEF People!Begin, People!Continue, People!Done, People!AtOnce, People!Overlap, People!Idle,
       Begin, Continue, Done, AtOnce, Overlap, Idle

Photo(m) == IF member[m] = People!NoMember THEN NoKey ELSE member[m].photo

\* What an upload has read: the file it deletes is of no other row, unless a client wrote it.
OldKnown(w) ==
    LET r == txn[w] IN
    r.op = "photo" =>
        /\ r.gone => r.step = "deleted" /\ r.old # NoKey
        /\ r.old \in used \cup given \cup {NoKey}
        /\ r.old \notin given \cup {NoKey} =>
              \A m \in Member : Photo(m) = r.old => m = r.member

\* What it has stored: there, of no row yet, and what no other request is about.
NewFresh(w) ==
    LET r == txn[w] IN
    r.op = "photo" =>
        /\ r.step = "read" => r.new = NoKey
        /\ r.new \in used \cup given \cup {NoKey}
        /\ r.new \notin given \cup {NoKey} =>
              /\ r.new \in file
              /\ \A m \in Member : Photo(m) # r.new
              /\ \A v \in Worker : txn[v].op = "photo" => txn[v].old # r.new
              /\ \A v \in Worker \ {w} : txn[v].op = "photo" => txn[v].new # r.new

PhotoStored(k) == k \in file \/ People!Replacing(k) \/ k \in lost

RowsKnown ==
    \A m \in Member :
        /\ Photo(m) \in used \cup given \cup {NoKey}
        /\ Photo(m) \notin given \cup {NoKey} =>
              /\ PhotoStored(Photo(m))
              /\ \A n \in Member : Photo(n) = Photo(m) => n = m

\* What a request has read is still so, if it is the only one.
ReadStands(w) ==
    LET r == txn[w] IN
    /\ r.op = "photo" => \/ r.old = Photo(r.member)
                         \/ /\ r.step # "read" /\ r.old = NoKey
                            /\ r.new \in {NoKey, Photo(r.member)}
    /\ r.op = "photo" /\ r.step = "deleted" => r.old \notin file \/ r.old \in leftover
    /\ r.op = "resolve" => incident[r.incident] \notin {"NONE"} \cup People!Decided

FileKept(k) ==
    \/ \E m \in Member : Photo(m) = k
    \/ k \in leftover
    \/ \E w \in Worker : txn[w].op = "photo" /\ txn[w].new = k

PhotosInv ==
    /\ People!TypeOK /\ Alone /\ RowsKnown
    /\ \A w \in Worker : OldKnown(w) /\ NewFresh(w)
    /\ ~overlapped => /\ \A w \in Worker : ReadStands(w)
                      /\ \A k \in file \ given : FileKept(k)

PhotoTxn ==
    [op : {"photo"}, step : {"read", "stored", "deleted"}, member : Member,
     old : Key \cup {NoKey}, new : Key \cup {NoKey}, gone : BOOLEAN]

LEMMA MemberRequestTyped ==
    ASSUME People!TypeOK, NEW w \in Worker
    PROVE  /\ txn[w].op = "photo" => txn[w] \in PhotoTxn
           /\ txn[w].op = "status" =>
               txn[w].member \in Member /\ txn[w].status \in People!MemberStatus
           /\ txn[w].op = "remove" => txn[w].member \in Member
           /\ txn[w].op = "resolve" =>
                 txn[w].incident \in Incident /\ txn[w].status \in People!IncidentStatus
BY DEF People!TypeOK, People!Txn, People!Idle, PhotoTxn

LEMMA RowTyped ==
    ASSUME People!TypeOK, NEW m \in Member
    PROVE  /\ Photo(m) \in Key \cup {NoKey}
           /\ People!Found(m) => member[m] # People!NoMember /\ member[m].photo = Photo(m)
                          /\ member[m].status \in People!MemberStatus
BY DEF People!TypeOK, People!MemberRow, People!NoMember, Photo, People!Found

\* What a write of one row does to its photo.
LEMMA RowWritten ==
    ASSUME People!TypeOK, NEW m \in Member, NEW s \in People!MemberStatus,
           NEW k \in Key \cup {NoKey},
           member' = [member EXCEPT ![m] = [status |-> s, photo |-> k]]
    PROVE  /\ Photo(m)' = k /\ \A n \in Member \ {m} : Photo(n)' = Photo(n)
           /\ member' \in [Member -> People!MemberRow]
<1>1. [status |-> s, photo |-> k] \in People!MemberRow
  BY DEF People!MemberRow
<1>2. [status |-> s, photo |-> k] # People!NoMember
  BY DEF People!NoMember, People!MemberStatus
<1>3. /\ member'[m] = [status |-> s, photo |-> k]
      /\ \A n \in Member \ {m} : member'[n] = member[n]
  BY DEF People!TypeOK
<1>4. Photo(m)' = k
  BY <1>2, <1>3 DEF Photo
<1>5. QED
  BY <1>1, <1>3, <1>4 DEF People!TypeOK, Photo

\* What updatePhoto makes of the key it is sent.
LEMMA PhotoSent ==
    ASSUME NEW w \in Worker, NEW m \in Member, People!ReadUpdatePhoto(w, m)
    PROVE  \E k \in Key \cup {NoKey}, old \in {NoKey, member[m].photo} :
              /\ People!Begin(w, [op |-> "photo", step |-> "stored", member |-> m, old |-> old,
                                 new |-> k, gone |-> FALSE])
              /\ given' = given \cup ({k} \ {NoKey})
              /\ old = member[m].photo \/ k \in {NoKey, member[m].photo}
<1>1. PICK sent \in People!SentKey :
          /\ People!Begin(w, [op |-> "photo", step |-> "stored", member |-> m,
                             old |-> IF People!Replaces(sent, member[m].photo)
                                     THEN member[m].photo ELSE NoKey,
                             new |-> sent.key, gone |-> FALSE])
          /\ given' = given \cup ({sent.key} \ {NoKey})
  BY DEF People!ReadUpdatePhoto, People!clean
<1>2. sent.key \in Key \cup {NoKey}
  BY DEF People!SentKey
<1>3. People!Replaces(sent, member[m].photo) \/ sent.key \in {NoKey, member[m].photo}
  BY DEF People!SentKey, People!Replaces
<1>4. QED
  BY <1>1, <1>2, <1>3

LEMMA InitPhotos == People!Init => PhotosInv
<1>. SUFFICES ASSUME People!Init
              PROVE  PhotosInv
  OBVIOUS
<1>1. People!TypeOK
  BY DEF People!Init, People!TypeOK, People!NoRequests, People!Txn, People!MemberRow,
         People!IncidentStatus
<1>2. \A w \in Worker : txn[w].op = "idle"
  BY DEF People!Init, People!NoRequests, People!Idle
<1>3. \A m \in Member : Photo(m) = NoKey
  BY DEF People!Init, Photo
<1>4. QED
  BY <1>1, <1>2, <1>3 DEF People!Init, PhotosInv, Alone, RowsKnown, OldKnown, NewFresh, ReadStands

LEMMA PhotosTyped ==
    ASSUME People!ConstantsOK, PhotosInv, [People!Next]_People!vars
    PROVE  People!TypeOK'
<1>. People!TypeOK /\ txn \in [Worker -> People!Txn] /\ overlapped \in BOOLEAN
  BY DEF PhotosInv, People!TypeOK
<1>1. CASE UNCHANGED People!vars
  BY <1>1 DEF People!vars, People!TypeOK
<1>2. \A w \in Worker : People!Overlap(w) => overlapped' \in BOOLEAN
  BY DEF People!Overlap
<1>3. People!Idle \in People!Txn
  BY DEF People!Txn
<1>4. ASSUME NEW w \in Worker, NEW t \in People!Txn, People!Begin(w, t) \/ People!Continue(w, t)
      PROVE  txn' \in [Worker -> People!Txn] /\ overlapped' \in BOOLEAN
  BY <1>2, <1>4 DEF People!Begin, People!Continue
<1>5. ASSUME NEW w \in Worker, People!Done(w) \/ People!AtOnce(w)
      PROVE  txn' \in [Worker -> People!Txn] /\ overlapped' \in BOOLEAN
  BY <1>2, <1>3, <1>4, <1>5 DEF People!Done, People!AtOnce
<1>6. ASSUME NEW w \in Worker, People!Abort(w)
      PROVE  People!TypeOK'
  <2>1. txn[w].op = "photo" => (txn[w].gone => txn[w].old \in Key)
    <3>1. txn[w].op = "photo" => txn[w] \in PhotoTxn
      BY MemberRequestTyped
    <3>2. txn[w].op = "photo" => (txn[w].gone => txn[w].old # NoKey)
      BY DEF PhotosInv, OldKnown
    <3>3. QED
      BY <3>1, <3>2 DEF PhotoTxn
  <2>2. file \subseteq Key
    BY DEF People!TypeOK
  <2>3. lost' \subseteq Key /\ leftover' \subseteq Key
    BY <1>6, <2>1, <2>2 DEF People!Abort, People!TypeOK
  <2>4. QED
    BY <1>5, <1>6, <2>3 DEF People!Abort, People!TypeOK
<1>7. ASSUME NEW w \in Worker, NEW m \in Member, People!Register(w, m)
      PROVE  People!TypeOK'
  <2>1. PICK s \in {"ACTIVE", "PENDING"} :
            member' = [member EXCEPT ![m] = [status |-> s, photo |-> NoKey]]
    BY <1>7 DEF People!Register
  <2>2. member' \in [Member -> People!MemberRow]
    BY <2>1, RowWritten DEF People!MemberStatus
  <2>3. QED
    BY <1>5, <1>7, <2>2 DEF People!Register, People!TypeOK
<1>8. ASSUME NEW w \in Worker, NEW m \in Member, People!ReadStatus(w, m)
      PROVE  People!TypeOK'
  <2>1. \A s \in AskedStatus : [op |-> "status", member |-> m, status |-> s] \in People!Txn
    BY DEF People!Txn, People!ConstantsOK, People!MemberStatus
  <2>2. QED
    BY <1>4, <1>8, <2>1 DEF People!ReadStatus, People!TypeOK
<1>9. ASSUME NEW w \in Worker, People!CommitStatus(w)
      PROVE  People!TypeOK'
  <2>1. txn[w].member \in Member /\ txn[w].status \in People!MemberStatus
    BY <1>9, MemberRequestTyped DEF People!CommitStatus
  <2>2. member[txn[w].member].photo \in Key \cup {NoKey}
    BY <1>9, <2>1, RowTyped DEF People!CommitStatus
  <2>3. member' \in [Member -> People!MemberRow]
    BY <1>9, <2>1, <2>2, RowWritten DEF People!CommitStatus
  <2>4. QED
    BY <1>5, <1>9, <2>3 DEF People!CommitStatus, People!TypeOK
<1>10. ASSUME NEW w \in Worker, NEW m \in Member, People!ReadUpload(w, m)
       PROVE  People!TypeOK'
  <2>1. member[m].photo \in Key \cup {NoKey}
    BY <1>10, RowTyped DEF People!ReadUpload
  <2>2. [op |-> "photo", step |-> "read", member |-> m,
         old |-> member[m].photo, new |-> NoKey, gone |-> FALSE] \in People!Txn
    BY <2>1 DEF People!Txn
  <2>3. QED
    BY <1>4, <1>10, <2>2 DEF People!ReadUpload, People!TypeOK
<1>11. ASSUME NEW w \in Worker, People!Store(w)
       PROVE  People!TypeOK'
  <2>1. txn[w] \in PhotoTxn
    BY <1>11, MemberRequestTyped DEF People!Store
  <2>2. \A k \in Key : [txn[w] EXCEPT !.step = "stored", !.new = k] \in People!Txn
    BY <2>1 DEF People!Txn, PhotoTxn
  <2>3. QED
    BY <1>4, <1>11, <2>2 DEF People!Store, People!NewKeys, People!TypeOK
<1>12. ASSUME NEW w \in Worker, NEW m \in Member, People!ReadUpdatePhoto(w, m)
       PROVE  People!TypeOK'
  <2>1. member[m].photo \in Key \cup {NoKey}
    BY <1>12, RowTyped DEF People!ReadUpdatePhoto
  <2>2. PICK k \in Key \cup {NoKey}, old \in {NoKey, member[m].photo} :
          /\ People!Begin(w, [op |-> "photo", step |-> "stored", member |-> m, old |-> old,
                             new |-> k, gone |-> FALSE])
          /\ given' = given \cup ({k} \ {NoKey})
    BY <1>12, PhotoSent
  <2>3. [op |-> "photo", step |-> "stored", member |-> m, old |-> old, new |-> k,
         gone |-> FALSE] \in People!Txn
    BY <2>1 DEF People!Txn
  <2>4. given' \subseteq Key
    BY <2>2 DEF People!TypeOK
  <2>5. QED
    BY <1>4, <1>12, <2>2, <2>3, <2>4 DEF People!ReadUpdatePhoto, People!TypeOK
<1>13. ASSUME NEW w \in Worker, People!DeleteOld(w)
       PROVE  People!TypeOK'
  <2>1. txn[w] \in PhotoTxn
    BY <1>13, MemberRequestTyped DEF People!DeleteOld
  <2>2. /\ [txn[w] EXCEPT !.step = "deleted",
                                              !.gone = txn[w].old # NoKey] \in People!Txn
        /\ [txn[w] EXCEPT !.step = "deleted"] \in People!Txn
        /\ txn[w].old \in Key \cup {NoKey}
    BY <2>1 DEF People!Txn, PhotoTxn
  <2>3. /\ file' \subseteq file /\ leftover' \subseteq Key
        /\ txn' \in [Worker -> People!Txn] /\ overlapped' \in BOOLEAN
    BY <1>4, <1>13, <2>2 DEF People!DeleteOld, People!TypeOK
  <2>4. QED
    BY <1>13, <2>3 DEF People!DeleteOld, People!TypeOK
<1>14. ASSUME NEW w \in Worker, People!CommitPhoto(w)
       PROVE  People!TypeOK'
  <2>1. /\ txn[w].member \in Member /\ txn[w].new \in Key \cup {NoKey}
        /\ txn[w].gone => txn[w].old \in Key
    BY <1>14, MemberRequestTyped DEF People!CommitPhoto, PhotoTxn, PhotosInv, OldKnown
  <2>2. member[txn[w].member].status \in People!MemberStatus
    BY <1>14, <2>1, RowTyped DEF People!CommitPhoto
  <2>3. member' \in [Member -> People!MemberRow]
    <3>1. CASE txn[w].new = NoKey
      BY <1>14, <3>1 DEF People!CommitPhoto, People!TypeOK
    <3>2. CASE txn[w].new # NoKey
      BY <1>14, <2>1, <2>2, <3>2, RowWritten DEF People!CommitPhoto
    <3>3. QED
      BY <3>1, <3>2
  <2>4. lost' \subseteq Key
    BY <1>14, <2>1 DEF People!CommitPhoto, People!TypeOK
  <2>5. QED
    BY <1>5, <1>14, <2>3, <2>4 DEF People!CommitPhoto, People!TypeOK
<1>15. ASSUME NEW w \in Worker, NEW m \in Member, People!ReadRemove(w, m) \/ People!ReadNote(w, m)
       PROVE  People!TypeOK'
  <2>1. [op |-> "remove", member |-> m] \in People!Txn
      /\ [op |-> "note", member |-> m] \in People!Txn
    BY DEF People!Txn
  <2>2. QED
    BY <1>4, <1>15, <2>1 DEF People!ReadRemove, People!ReadNote, People!TypeOK
<1>16. ASSUME NEW w \in Worker, People!CommitRemove(w)
       PROVE  People!TypeOK'
  <2>1. txn[w].member \in Member
    BY <1>16, MemberRequestTyped DEF People!CommitRemove
  <2>2. member[txn[w].member].status \in People!MemberStatus
    BY <1>16, <2>1, RowTyped DEF People!CommitRemove
  <2>3. member' \in [Member -> People!MemberRow]
    BY <1>16, <2>1, <2>2, RowWritten DEF People!CommitRemove
  <2>4. leftover' \subseteq Key
    BY <1>16 DEF People!CommitRemove, People!TypeOK
  <2>5. QED
    BY <1>5, <1>16, <2>3, <2>4 DEF People!CommitRemove, People!TypeOK
<1>17. ASSUME NEW w \in Worker, People!CommitNote(w)
       PROVE  People!TypeOK'
  <2>1. incident' \in [Incident -> People!IncidentStatus]
    BY <1>17 DEF People!CommitNote, People!TypeOK, People!IncidentStatus
  <2>2. QED
    BY <1>5, <1>17, <2>1 DEF People!CommitNote, People!TypeOK
<1>18. ASSUME NEW w \in Worker, NEW i \in Incident, People!ReadResolve(w, i)
       PROVE  People!TypeOK'
  <2>1. \A s \in People!IncidentStatus :
      [op |-> "resolve", incident |-> i, status |-> s] \in People!Txn
    BY DEF People!Txn
  <2>2. QED
    BY <1>4, <1>18, <2>1 DEF People!ReadResolve, People!TypeOK
<1>19. ASSUME NEW w \in Worker, People!CommitResolve(w)
       PROVE  People!TypeOK'
  <2>1. incident' \in [Incident -> People!IncidentStatus]
    BY <1>19, MemberRequestTyped DEF People!CommitResolve, People!TypeOK
  <2>2. QED
    BY <1>5, <1>19, <2>1 DEF People!CommitResolve, People!TypeOK
<1>20. QED
  BY <1>1, <1>6, <1>7, <1>8, <1>9, <1>10, <1>11, <1>12, <1>13, <1>14, <1>15, <1>16, <1>17, <1>18,
     <1>19 DEF People!Next


\* A step of a request that is not about a photo, and takes photos from rows at most.
LEMMA QuietStep ==
    ASSUME People!ConstantsOK, PhotosInv, People!TypeOK', NEW w \in Worker, OthersStay(w),
           ~overlapped' => ~overlapped /\ OthersIdle(w),
           txn[w].op # "photo", txn'[w].op # "photo",
           UNCHANGED <<file, used, given, lost>>, leftover \subseteq leftover',
           \A m \in Member : \/ Photo(m)' = Photo(m)
                             \/ /\ Photo(m)' = NoKey
                                /\ Photo(m) \in file => Photo(m) \in leftover',
           ~overlapped' => (txn'[w].op = "resolve" =>
                                incident'[txn'[w].incident] \notin {"NONE"} \cup People!Decided)
    PROVE  PhotosInv'
<1>1. \A v \in Worker : v = w \/ txn'[v] = txn[v]
  BY DEF OthersStay
<1>2. \A v \in Worker : OldKnown(v)'
  BY <1>1 DEF PhotosInv, OldKnown
<1>3. \A v \in Worker : NewFresh(v)'
  <2>1. \A v \in Worker : txn'[v].op = "photo" => txn'[v] = txn[v]
    BY <1>1
  <2>2. ASSUME NEW v \in Worker, txn'[v].op = "photo", txn'[v].new \notin given' \cup {NoKey}
        PROVE  \A m \in Member : Photo(m)' # txn'[v].new
    <3>1. txn'[v] = txn[v] /\ \A m \in Member : Photo(m) # txn[v].new
      BY <2>1, <2>2 DEF PhotosInv, NewFresh
    <3>2. QED
      BY <2>2, <3>1
  <2>3. QED
    BY <2>1, <2>2 DEF PhotosInv, NewFresh
<1>4. RowsKnown'
  <2>1. \A k : People!Replacing(k) => People!Replacing(k)'
    BY <1>1 DEF People!Replacing
  <2>2. QED
    BY <2>1 DEF PhotosInv, RowsKnown, PhotoStored
<1>5. ASSUME ~overlapped', NEW v \in Worker
      PROVE  ReadStands(v)'
  <2>1. v = w \/ txn'[v].op = "idle"
    BY <1>1, <1>5 DEF OthersIdle
  <2>2. QED
    BY <1>5, <2>1 DEF ReadStands
<1>6. ASSUME ~overlapped', NEW k \in file' \ given'
      PROVE  FileKept(k)'
  <2>1. FileKept(k) /\ k \in file
    BY <1>6 DEF PhotosInv
  <2>2. QED
    BY <1>1, <2>1 DEF FileKept
<1>7. Alone'
  BY StaysAlone DEF PhotosInv
<1>8. QED
  BY <1>2, <1>3, <1>4, <1>5, <1>6, <1>7 DEF PhotosInv

LEMMA AbortPhoto ==
    ASSUME People!ConstantsOK, PhotosInv, People!TypeOK', NEW w \in Worker, People!Abort(w),
           txn[w].op = "photo", txn'[w].op = "idle", OthersStay(w),
           ~overlapped' => ~overlapped /\ OthersIdle(w)
    PROVE  PhotosInv'
<1>1. \A v \in Worker : v = w \/ txn'[v] = txn[v]
  BY DEF OthersStay
<1>2. /\ UNCHANGED <<member, file, used, given>> /\ lost \subseteq lost'
      /\ leftover \subseteq leftover'
      /\ txn[w].step # "read" =>
            /\ txn[w].new \in file => txn[w].new \in leftover'
            /\ txn[w].gone => txn[w].old \in lost'
  BY DEF People!Abort
<1>3. \A m : Photo(m)' = Photo(m)
  BY <1>2 DEF Photo
<1>4. \A v \in Worker : OldKnown(v)' /\ NewFresh(v)'
  BY <1>1, <1>2, <1>3 DEF PhotosInv, OldKnown, NewFresh
<1>5. RowsKnown'
  <2>1. \A k : People!Replacing(k) => People!Replacing(k)' \/ k \in lost'
    BY <1>1, <1>2 DEF People!Replacing, PhotosInv, OldKnown
  <2>2. \A k : PhotoStored(k) => PhotoStored(k)'
    BY <1>2, <2>1 DEF PhotoStored
  <2>3. QED
    BY <1>2, <1>3, <2>2 DEF PhotosInv, RowsKnown
<1>6. ~overlapped' => \A v \in Worker : ReadStands(v)'
  BY <1>1 DEF OthersIdle, ReadStands
<1>7. ASSUME ~overlapped', NEW k \in file' \ given'
      PROVE  FileKept(k)'
  <2>1. FileKept(k) /\ k \in file /\ k \in used
    BY <1>2, <1>7 DEF PhotosInv, People!TypeOK
  <2>2. k # NoKey
    BY <2>1 DEF PhotosInv, People!TypeOK, People!ConstantsOK
  <2>3. txn[w].new = k => k \in leftover'
    BY <1>2, <2>1, <2>2 DEF PhotosInv, NewFresh
  <2>4. QED
    BY <1>1, <1>2, <1>3, <2>1, <2>3 DEF FileKept
<1>8. Alone'
  BY StaysAlone DEF PhotosInv
<1>9. QED
  BY <1>4, <1>5, <1>6, <1>7, <1>8 DEF PhotosInv

\* A request about a photo begins: it knows the file to delete, and has stored none of its own.
LEMMA BeginPhoto ==
    ASSUME People!ConstantsOK, PhotosInv, People!TypeOK', NEW w \in Worker, NEW m \in Member,
           NEW k \in Key \cup {NoKey}, NEW old \in {NoKey, Photo(m)},
           UNCHANGED <<member, file, used, lost, leftover>>, OthersStay(w),
           ~overlapped' => ~overlapped /\ OthersIdle(w),
           txn[w].op = "idle", txn'[w].op = "photo", txn'[w].member = m, txn'[w].new = k,
           txn'[w].old = old, ~txn'[w].gone,
           old = Photo(m) \/ k \in {NoKey, Photo(m)},
           txn'[w].step \in {"read", "stored"},
           txn'[w].step = "read" => k = NoKey /\ old = Photo(m), given' = given \cup ({k} \ {NoKey})
    PROVE  PhotosInv'
<1>1. \A v \in Worker : v = w \/ txn'[v] = txn[v]
  BY DEF OthersStay
<1>2. \A n : Photo(n)' = Photo(n)
  BY DEF Photo
<1>3. given \subseteq given' /\ k \in given' \cup {NoKey}
  OBVIOUS
<1>4. \A v \in Worker : OldKnown(v)'
  <2>1. OldKnown(w)'
    BY <1>2, <1>3 DEF PhotosInv, RowsKnown, OldKnown
  <2>2. \A v \in Worker \ {w} : OldKnown(v)'
    BY <1>1, <1>2, <1>3 DEF PhotosInv, OldKnown
  <2>3. QED
    BY <2>1, <2>2
<1>5. \A v \in Worker : NewFresh(v)'
  <2>1. NewFresh(w)'
    BY <1>3 DEF NewFresh
  <2>2. ASSUME NEW v \in Worker \ {w}, txn[v].op = "photo"
        PROVE  NewFresh(v)'
    <3>1. NewFresh(v) /\ txn'[v] = txn[v]
      BY <1>1, <2>2 DEF PhotosInv
    <3>2. txn[v].new \notin given \cup {NoKey} => txn[v].new # Photo(m)
      BY <2>2, <3>1 DEF NewFresh
    <3>3. txn'[v].new \notin given' \cup {NoKey} =>
              txn'[w].old # txn'[v].new /\ txn'[w].new # txn'[v].new
      BY <1>3, <3>1, <3>2
    <3>4. QED
      BY <1>1, <1>2, <1>3, <2>2, <3>1, <3>3 DEF NewFresh
  <2>3. ASSUME NEW v \in Worker \ {w}
        PROVE  NewFresh(v)'
    BY <1>1, <2>2 DEF NewFresh
  <2>4. QED
    BY <2>1, <2>3
<1>6. RowsKnown'
  <2>1. \A q : People!Replacing(q) => People!Replacing(q)'
    BY <1>1 DEF People!Replacing
  <2>2. QED
    BY <1>2, <1>3, <2>1 DEF PhotosInv, RowsKnown, PhotoStored
<1>7. ~overlapped' => \A v \in Worker : ReadStands(v)'
  BY <1>1, <1>2 DEF OthersIdle, ReadStands
<1>8. ASSUME ~overlapped', NEW q \in file' \ given'
      PROVE  FileKept(q)'
  <2>1. FileKept(q)
    BY <1>3, <1>8 DEF PhotosInv
  <2>2. QED
    BY <1>1, <1>2, <2>1 DEF FileKept
<1>9. Alone'
  BY StaysAlone DEF PhotosInv
<1>10. QED
  BY <1>4, <1>5, <1>6, <1>7, <1>8, <1>9 DEF PhotosInv

LEMMA StorePhoto ==
    ASSUME People!ConstantsOK, PhotosInv, People!TypeOK', NEW w \in Worker, People!Store(w),
           OthersStay(w),
           ~overlapped' => ~overlapped /\ OthersIdle(w), NEW k \in People!NewKeys,
           file' = file \cup {k}, used' = used \cup {k},
           txn'[w] = [txn[w] EXCEPT !.step = "stored", !.new = k]
    PROVE  PhotosInv'
<1>1. \A v \in Worker : v = w \/ txn'[v] = txn[v]
  BY DEF OthersStay
<1>2. /\ txn[w].op = "photo" /\ txn[w].step = "read" /\ k \in Key \ (used \cup given)
      /\ UNCHANGED <<member, given, lost, leftover>>
      /\ file' = file \cup {k} /\ used' = used \cup {k}
  BY DEF People!Store, People!NewKeys
<1>3. \A n : Photo(n)' = Photo(n)
  BY <1>2 DEF Photo
<1>4. txn[w] \in PhotoTxn
  BY <1>2, MemberRequestTyped DEF PhotosInv
<1>5. /\ txn'[w].op = "photo" /\ txn'[w].step = "stored" /\ txn'[w].member = txn[w].member
      /\ txn'[w].new = k /\ txn'[w].old = txn[w].old /\ txn'[w].gone = txn[w].gone
  BY <1>4 DEF PhotoTxn
<1>6. ~txn[w].gone
  BY <1>2 DEF PhotosInv, OldKnown
<1>7. k # NoKey /\ used \subseteq Key
  BY <1>2 DEF People!ConstantsOK, PhotosInv, People!TypeOK
<1>8. \A v \in Worker : OldKnown(v)'
  <2>1. \A v \in Worker : /\ txn'[v].op = txn[v].op
                          /\ txn[v].op = "photo" =>
                                /\ txn'[v].old = txn[v].old /\ txn'[v].gone = txn[v].gone
                                /\ txn'[v].member = txn[v].member
                                /\ txn[v].gone => txn'[v].step = txn[v].step
    BY <1>1, <1>2, <1>5, <1>6
  <2>2. QED
    BY <1>2, <1>3, <2>1 DEF PhotosInv, OldKnown
<1>9. \A v \in Worker : NewFresh(v)'
  <2>1. \A n \in Member : Photo(n) # k
    BY <1>2, <1>7 DEF PhotosInv, RowsKnown
  <2>2. \A v \in Worker : txn[v].op = "photo" => txn[v].old # k
    BY <1>2, <1>7 DEF PhotosInv, OldKnown
  <2>3. \A v \in Worker : txn[v].op = "photo" => txn[v].new # k
    BY <1>2, <1>7 DEF PhotosInv, NewFresh
  <2>4. \A v \in Worker : /\ txn'[v].op = txn[v].op /\ txn'[v].old = txn[v].old
                          /\ v # w => txn'[v].step = txn[v].step /\ txn'[v].new = txn[v].new
    BY <1>1, <1>2, <1>5
  <2>5. NewFresh(w)'
    BY <1>2, <1>3, <1>5, <2>1, <2>2, <2>3, <2>4 DEF NewFresh
  <2>6. ASSUME NEW v \in Worker \ {w}, txn[v].op = "photo"
        PROVE  NewFresh(v)'
    <3>1. txn[v].new # k
      BY <2>3, <2>6
    <3>2. NewFresh(v)
      BY DEF PhotosInv
    <3>3. txn[v].new \notin given \cup {NoKey} =>
              \A u \in Worker \ {v} : txn'[u].op = "photo" => txn'[u].new # txn[v].new
      <4>1. txn'[w].new # txn[v].new
        BY <1>5, <3>1
      <4>2. ASSUME txn[v].new \notin given \cup {NoKey}, NEW u \in Worker \ {v, w},
                   txn'[u].op = "photo"
            PROVE  txn'[u].new # txn[v].new
        BY <2>4, <2>6, <3>2, <4>2 DEF NewFresh
      <4>3. QED
        BY <4>1, <4>2
    <3>4. QED
      BY <1>2, <1>3, <2>4, <2>6, <3>2, <3>3 DEF NewFresh
  <2>7. \A v \in Worker \ {w} : NewFresh(v)'
    BY <2>4, <2>6 DEF NewFresh
  <2>8. QED
    BY <2>5, <2>7
<1>10. RowsKnown'
  <2>1. \A q : People!Replacing(q) => People!Replacing(q)'
    BY <1>1, <1>6 DEF People!Replacing
  <2>2. QED
    BY <1>2, <1>3, <2>1 DEF PhotosInv, RowsKnown, PhotoStored
<1>11. ~overlapped' => \A v \in Worker : ReadStands(v)'
  <2>1. ~overlapped' => ReadStands(w)'
    BY <1>2, <1>3, <1>5 DEF PhotosInv, ReadStands
  <2>2. QED
    BY <1>1, <2>1 DEF OthersIdle, ReadStands
<1>12. ASSUME ~overlapped', NEW q \in file' \ given'
       PROVE  FileKept(q)'
  <2>1. CASE q = k
    BY <1>5, <2>1 DEF FileKept
  <2>2. CASE q # k
    <3>1. FileKept(q)
      BY <1>2, <1>12, <2>2 DEF PhotosInv
    <3>2. CASE \E m \in Member : Photo(m) = q
      BY <1>3, <3>2 DEF FileKept
    <3>3. CASE q \in leftover
      BY <1>2, <3>3 DEF FileKept
    <3>4. CASE \E v \in Worker : txn[v].op = "photo" /\ txn[v].new = q
      <4>1. PICK v \in Worker : txn[v].op = "photo" /\ txn[v].new = q
        BY <3>4
      <4>2. q \in used /\ q # NoKey
        BY <1>2, <1>7, <1>12, <2>2 DEF PhotosInv, People!TypeOK, People!ConstantsOK
      <4>3. v # w
        BY <1>2, <4>1, <4>2 DEF PhotosInv, NewFresh
      <4>4. txn'[v].op = "photo" /\ txn'[v].new = q
        BY <1>1, <4>1, <4>3
      <4>5. QED
        BY <4>4 DEF FileKept
    <3>5. QED
      BY <3>1, <3>2, <3>3, <3>4 DEF FileKept
  <2>3. QED
    BY <2>1, <2>2
<1>13. Alone'
  BY <1>2, StaysAlone DEF PhotosInv
<1>14. QED
  BY <1>8, <1>9, <1>10, <1>11, <1>12, <1>13 DEF PhotosInv

LEMMA DeletePhoto ==
    ASSUME PhotosInv, People!TypeOK', NEW w \in Worker, People!DeleteOld(w), OthersStay(w),
           ~overlapped' => ~overlapped /\ OthersIdle(w), NEW g \in BOOLEAN,
           txn'[w] = [txn[w] EXCEPT !.step = "deleted", !.gone = g],
           \/ file' = file \ {txn[w].old} /\ UNCHANGED leftover /\ (g <=> txn[w].old # NoKey)
           \/ /\ UNCHANGED file /\ leftover' = leftover \cup ({txn[w].old} \cap file) /\ ~g
    PROVE  PhotosInv'
<1>1. \A v \in Worker : v = w \/ txn'[v] = txn[v]
  BY DEF OthersStay
<1>2. /\ txn[w].op = "photo" /\ txn[w].step = "stored"
      /\ UNCHANGED <<member, used, given, lost>>
  BY DEF People!DeleteOld
<1>3. \A n : Photo(n)' = Photo(n)
  BY <1>2 DEF Photo
<1>4. txn[w] \in PhotoTxn
  BY <1>2, MemberRequestTyped DEF PhotosInv
<1>5. /\ txn'[w].op = "photo" /\ txn'[w].step = "deleted" /\ txn'[w].member = txn[w].member
      /\ txn'[w].new = txn[w].new /\ txn'[w].old = txn[w].old /\ (txn'[w].gone <=> g)
  BY <1>4 DEF PhotoTxn
<1>6. ~txn[w].gone
  BY <1>2 DEF PhotosInv, OldKnown
<1>7. \A v \in Worker : OldKnown(v)'
  <2>1. OldKnown(w)'
    BY <1>2, <1>3, <1>5 DEF PhotosInv, OldKnown
  <2>2. \A v \in Worker \ {w} : OldKnown(v)'
    BY <1>1, <1>2, <1>3 DEF PhotosInv, OldKnown
  <2>3. QED
    BY <2>1, <2>2
<1>8. ASSUME NEW v \in Worker
      PROVE  NewFresh(v)'
  <2>1. \A u \in Worker : /\ txn'[u].op = txn[u].op
                          /\ txn[u].op = "photo" =>
                                /\ txn'[u].old = txn[u].old /\ txn'[u].new = txn[u].new
                                /\ txn'[u].step = "read" <=> txn[u].step = "read"
    BY <1>1, <1>2, <1>5
  <2>2. NewFresh(v)
    BY DEF PhotosInv
  <2>3. txn[v].op = "photo" /\ txn[v].new \notin given \cup {NoKey} => txn[v].new \in file'
    BY <1>2, <2>2 DEF NewFresh
  <2>4. QED
    BY <1>2, <1>3, <2>1, <2>2, <2>3 DEF NewFresh
<1>9. RowsKnown'
  <2>1. \A q : People!Replacing(q) => People!Replacing(q)'
    BY <1>1, <1>6 DEF People!Replacing
  <2>2. \A q : q # NoKey /\ q \in file => q \in file' \/ People!Replacing(q)'
    BY <1>5 DEF People!Replacing
  <2>3. \A q : q # NoKey /\ PhotoStored(q) => PhotoStored(q)'
    BY <1>2, <2>1, <2>2 DEF PhotoStored
  <2>4. QED
    BY <1>2, <1>3, <2>3 DEF PhotosInv, RowsKnown
<1>10. ~overlapped' => \A v \in Worker : ReadStands(v)'
  <2>1. ~overlapped' => ReadStands(w)'
    BY <1>2, <1>3, <1>5 DEF PhotosInv, ReadStands
  <2>2. QED
    BY <1>1, <2>1 DEF OthersIdle, ReadStands
<1>11. ASSUME ~overlapped', NEW q \in file' \ given'
       PROVE  FileKept(q)'
  <2>1. FileKept(q)
    BY <1>2, <1>11 DEF PhotosInv
  <2>2. QED
    BY <1>1, <1>3, <1>5, <2>1 DEF FileKept
<1>12. Alone'
  BY <1>2, StaysAlone DEF PhotosInv
<1>13. QED
  BY <1>7, <1>8, <1>9, <1>10, <1>11, <1>12 DEF PhotosInv

LEMMA WritePhoto ==
    ASSUME People!ConstantsOK, PhotosInv, People!TypeOK', NEW w \in Worker, People!CommitPhoto(w),
           OthersStay(w),
           ~overlapped' => ~overlapped /\ OthersIdle(w), txn'[w].op = "idle",
           txn[w].new # NoKey
    PROVE  PhotosInv'
<1>. PICK k : k = txn[w].new
  OBVIOUS
<1>. PICK m : m = txn[w].member
  OBVIOUS
<1>1. \A v \in Worker : v = w \/ txn'[v] = txn[v]
  BY DEF OthersStay
<1>2. /\ txn[w].op = "photo" /\ txn[w].step = "deleted"
      /\ UNCHANGED <<file, used, given, lost, leftover>>
  BY DEF People!CommitPhoto
<1>3. m \in Member /\ k \in Key /\ People!TypeOK
  BY <1>2, MemberRequestTyped DEF PhotosInv, PhotoTxn
<1>4. /\ Photo(m)' = k /\ \A n \in Member \ {m} : Photo(n)' = Photo(n)
  <2>1. member[m].status \in People!MemberStatus
    BY <1>3, RowTyped DEF People!CommitPhoto
  <2>2. QED
    BY <1>3, <2>1, RowWritten DEF People!CommitPhoto
<1>5. k \in used \cup given /\ OldKnown(w) /\ NewFresh(w)
  BY <1>2 DEF PhotosInv, NewFresh
<1>6. k \notin given =>
          /\ k \in file
          /\ \A n \in Member : Photo(n) # k
          /\ \A v \in Worker : txn[v].op = "photo" => txn[v].old # k
  BY <1>2, <1>5 DEF NewFresh
<1>7. \A v \in Worker : OldKnown(v)'
  BY <1>1, <1>2, <1>4, <1>6 DEF PhotosInv, OldKnown
<1>8. ASSUME NEW v \in Worker
      PROVE  NewFresh(v)'
  <2>1. CASE v = w
    BY <2>1 DEF NewFresh
  <2>2. CASE v # w
    <3>1. NewFresh(v) /\ txn'[v] = txn[v]
      BY <1>1, <2>2 DEF PhotosInv
    <3>2. txn[v].op = "photo" /\ txn[v].new \notin given \cup {NoKey} => txn[v].new # k
      BY <1>2, <2>2, <3>1 DEF NewFresh
    <3>3. QED
      BY <1>1, <1>2, <1>4, <3>1, <3>2 DEF NewFresh
  <2>3. QED
    BY <2>1, <2>2
<1>9. RowsKnown'
  <2>1. ASSUME NEW n \in Member \ {m}, Photo(n) \notin given \cup {NoKey}
        PROVE  PhotoStored(Photo(n)) => PhotoStored(Photo(n))'
    <3>. PICK q : q = Photo(n)
      OBVIOUS
    <3>1. ~(txn[w].gone /\ txn[w].old = q)
      BY <1>2, <1>5, <2>1 DEF OldKnown
    <3>2. People!Replacing(q) => People!Replacing(q)'
      BY <1>1, <3>1 DEF People!Replacing
    <3>3. PhotoStored(q) => PhotoStored(q)'
      BY <1>2, <3>2 DEF PhotoStored
    <3>4. Photo(n)' = q
      BY <1>4
    <3>5. QED
      BY <3>3, <3>4
  <2>2. ASSUME NEW n \in Member
        PROVE  /\ Photo(n)' \in used' \cup given' \cup {NoKey}
               /\ Photo(n)' \notin given' \cup {NoKey} =>
                     /\ PhotoStored(Photo(n))'
                     /\ \A n1 \in Member : Photo(n1)' = Photo(n)' => n1 = n
    <3>1. CASE n = m
      BY <1>2, <1>3, <1>4, <1>5, <1>6, <3>1 DEF PhotoStored
    <3>2. CASE n # m
      BY <1>2, <1>3, <1>4, <1>6, <2>1, <3>2 DEF PhotosInv, RowsKnown
    <3>3. QED
      BY <3>1, <3>2
  <2>3. QED
    BY <1>2, <2>2 DEF PhotosInv, RowsKnown
<1>10. ~overlapped' => \A v \in Worker : ReadStands(v)'
  BY <1>1 DEF OthersIdle, ReadStands
<1>11. ASSUME ~overlapped', NEW q \in file' \ given'
       PROVE  FileKept(q)'
  <2>1. FileKept(q) /\ q \in file /\ ReadStands(w) /\ ~overlapped
    BY <1>2, <1>11 DEF PhotosInv
  <2>2. CASE \E n \in Member \ {m} : Photo(n) = q
    BY <1>4, <2>2 DEF FileKept
  <2>3. CASE Photo(m) = q
    BY <1>2, <1>3, <1>4, <2>1, <2>3 DEF ReadStands, FileKept
  <2>4. CASE q \in leftover
    BY <1>2, <2>4 DEF FileKept
  <2>5. CASE \E v \in Worker : txn[v].op = "photo" /\ txn[v].new = q
    BY <1>3, <1>4, <1>11, <2>5 DEF OthersIdle, FileKept
  <2>6. QED
    BY <2>1, <2>2, <2>3, <2>4, <2>5 DEF FileKept
<1>12. Alone'
  BY StaysAlone DEF PhotosInv
<1>13. QED
  BY <1>7, <1>8, <1>9, <1>10, <1>11, <1>12 DEF PhotosInv

\* A request that has no key to write leaves the row as it is.
LEMMA KeepPhoto ==
    ASSUME PhotosInv, People!TypeOK', NEW w \in Worker, People!CommitPhoto(w), OthersStay(w),
           ~overlapped' => ~overlapped /\ OthersIdle(w), txn'[w].op = "idle",
           txn[w].new = NoKey, NoKey \notin file
    PROVE  PhotosInv'
<1>1. \A v \in Worker : v = w \/ txn'[v] = txn[v]
  BY DEF OthersStay
<1>2. /\ UNCHANGED <<member, file, used, given, leftover>> /\ lost \subseteq lost'
      /\ txn[w].gone => txn[w].old \in lost'
  BY DEF People!CommitPhoto
<1>3. \A m : Photo(m)' = Photo(m)
  BY <1>2 DEF Photo
<1>4. \A v \in Worker : OldKnown(v)' /\ NewFresh(v)'
  BY <1>1, <1>2, <1>3 DEF PhotosInv, OldKnown, NewFresh
<1>5. RowsKnown'
  <2>1. \A k : People!Replacing(k) => People!Replacing(k)' \/ k \in lost'
    BY <1>1, <1>2 DEF People!Replacing, PhotosInv, OldKnown
  <2>2. \A k : PhotoStored(k) => PhotoStored(k)'
    BY <1>2, <2>1 DEF PhotoStored
  <2>3. QED
    BY <1>2, <1>3, <2>2 DEF PhotosInv, RowsKnown
<1>6. ~overlapped' => \A v \in Worker : ReadStands(v)'
  BY <1>1 DEF OthersIdle, ReadStands
<1>7. ~overlapped' => \A k \in file' \ given' : FileKept(k)'
  BY <1>1, <1>2, <1>3 DEF PhotosInv, FileKept
<1>8. Alone'
  BY StaysAlone DEF PhotosInv
<1>9. QED
  BY <1>4, <1>5, <1>6, <1>7, <1>8 DEF PhotosInv


LEMMA NextPhotos ==
    ASSUME People!ConstantsOK, PhotosInv, [People!Next]_People!vars
    PROVE  PhotosInv'
<1>. /\ People!TypeOK /\ People!TypeOK' /\ Alone /\ txn \in [Worker -> People!Txn]
     /\ \A w \in Worker : ~overlapped => ReadStands(w)
  BY PhotosTyped DEF PhotosInv, People!TypeOK
<1>1. CASE UNCHANGED People!vars
  <2>1. \A m : Photo(m)' = Photo(m)
    BY <1>1 DEF People!vars, Photo
  <2>2. RowsKnown' /\ Alone'
    BY <1>1, <2>1 DEF People!vars, PhotosInv, RowsKnown, PhotoStored, People!Replacing, Alone
  <2>3. \A w \in Worker : OldKnown(w)' /\ NewFresh(w)'
    BY <1>1, <2>1 DEF People!vars, PhotosInv, OldKnown, NewFresh
  <2>4. ~overlapped' => \A w \in Worker : ReadStands(w)'
    BY <1>1, <2>1 DEF People!vars, PhotosInv, ReadStands
  <2>5. ~overlapped' => \A k \in file' \ given' : FileKept(k)'
    BY <1>1, <2>1 DEF People!vars, PhotosInv, FileKept
  <2>6. QED
    BY <2>2, <2>3, <2>4, <2>5 DEF PhotosInv
<1>2. ASSUME NEW w \in Worker, NEW t,
             People!Begin(w, t) \/ (People!Continue(w, t) /\ txn[w].op # "idle")
      PROVE  txn'[w] = t /\ OthersStay(w) /\ (~overlapped' => ~overlapped /\ OthersIdle(w))
  BY <1>2, OwnSteps, PeopleRequests
<1>3. ASSUME NEW w \in Worker, People!Done(w), txn[w].op # "idle"
      PROVE  /\ txn'[w].op = "idle" /\ OthersStay(w)
             /\ ~overlapped' => ~overlapped /\ OthersIdle(w)
  BY <1>2, <1>3 DEF People!Done, People!Idle
<1>4. ASSUME NEW w \in Worker, People!Abort(w)
      PROVE  PhotosInv'
  <2>1. txn[w].op # "idle" /\ People!Done(w)
    BY <1>4 DEF People!Abort, People!TypeOK, People!Txn, People!Idle
  <2>2. CASE txn[w].op = "photo"
    BY <1>3, <1>4, <2>1, <2>2, AbortPhoto
  <2>3. CASE txn[w].op # "photo"
    <3>1. UNCHANGED <<member, file, used, given, lost, leftover>>
      BY <1>4, <2>3 DEF People!Abort
    <3>2. \A m : Photo(m)' = Photo(m)
      BY <3>1 DEF Photo
    <3>3. QED
      BY <1>3, <2>1, <2>3, <3>1, <3>2, QuietStep
  <2>4. QED
    BY <2>2, <2>3
<1>5. ASSUME NEW w \in Worker, NEW m \in Member, People!Register(w, m)
      PROVE  PhotosInv'
  <2>1. PICK s \in {"ACTIVE", "PENDING"} :
            member' = [member EXCEPT ![m] = [status |-> s, photo |-> NoKey]]
    BY <1>5 DEF People!Register
  <2>2. Photo(m)' = NoKey /\ \A n \in Member \ {m} : Photo(n)' = Photo(n)
    BY <2>1, RowWritten DEF People!MemberStatus
  <2>3. Photo(m) = NoKey
    BY <1>5 DEF People!Register, Photo
  <2>4. /\ txn[w].op = "idle" /\ txn'[w].op = "idle" /\ OthersStay(w)
        /\ ~overlapped' => ~overlapped /\ OthersIdle(w)
    BY <1>5, Steps, PeopleRequests DEF People!Register, OthersStay
  <2>5. QED
    BY <1>5, <2>2, <2>3, <2>4, QuietStep DEF People!Register
<1>6. ASSUME NEW w \in Worker, NEW t, People!Begin(w, t), t.op \in {"status", "remove", "note"},
             UNCHANGED <<member, file, used, given, lost, leftover>>
      PROVE  PhotosInv'
  <2>1. txn[w].op = "idle"
    BY <1>6 DEF People!Begin, People!Idle
  <2>2. \A m : Photo(m)' = Photo(m)
    BY <1>6 DEF Photo
  <2>3. QED
    BY <1>2, <1>6, <2>1, <2>2, QuietStep
<1>7. ASSUME NEW w \in Worker, NEW m \in Member,
             People!ReadStatus(w, m) \/ People!ReadRemove(w, m) \/ People!ReadNote(w, m)
      PROVE  PhotosInv'
  <2>1. CASE People!ReadStatus(w, m)
    <3>1. PICK s : People!Begin(w, [op |-> "status", member |-> m, status |-> s])
      BY <2>1 DEF People!ReadStatus
    <3>2. QED
      BY <1>6, <2>1, <3>1 DEF People!ReadStatus
  <2>2. CASE People!ReadRemove(w, m) \/ People!ReadNote(w, m)
    BY <1>6, <2>2 DEF People!ReadRemove, People!ReadNote
  <2>3. QED
    BY <1>7, <2>1, <2>2
<1>8. ASSUME NEW w \in Worker, People!CommitStatus(w)
      PROVE  PhotosInv'
  <2>. PICK m : m = txn[w].member
    OBVIOUS
  <2>1. m \in Member /\ txn[w].status \in People!MemberStatus /\ People!Found(m)
    BY <1>8, MemberRequestTyped DEF People!CommitStatus
  <2>2. member[m].photo = Photo(m) /\ Photo(m) \in Key \cup {NoKey}
    BY <2>1, RowTyped
  <2>3. member' = [member EXCEPT ![m] = [status |-> txn[w].status, photo |-> Photo(m)]]
    BY <1>8, <2>2 DEF People!CommitStatus
  <2>4. \A n \in Member : Photo(n)' = Photo(n)
    <3>. PICK k \in Key \cup {NoKey}, s \in People!MemberStatus :
                     k = Photo(m) /\ s = txn[w].status
      BY <2>1, <2>2
    <3>1. member' = [member EXCEPT ![m] = [status |-> s, photo |-> k]]
      BY <2>3
    <3>2. Photo(m)' = k /\ \A n \in Member \ {m} : Photo(n)' = Photo(n)
      BY <2>1, <3>1, RowWritten
    <3>3. QED
      BY <3>2
  <2>5. txn[w].op = "status" /\ People!Done(w)
    BY <1>8 DEF People!CommitStatus
  <2>6. QED
    BY <1>3, <1>8, <2>4, <2>5, QuietStep DEF People!CommitStatus
<1>9. ASSUME NEW w \in Worker, NEW m \in Member, People!ReadUpload(w, m)
      PROVE  PhotosInv'
  <2>1. /\ People!Begin(w, [op |-> "photo", step |-> "read", member |-> m,
                           old |-> member[m].photo, new |-> NoKey, gone |-> FALSE])
        /\ UNCHANGED <<member, file, used, given, lost, leftover>>
    BY <1>9 DEF People!ReadUpload
  <2>2. member[m].photo = Photo(m)
    BY <1>9, RowTyped DEF People!ReadUpload
  <2>3. /\ txn'[w] = [op |-> "photo", step |-> "read", member |-> m, old |-> Photo(m),
                      new |-> NoKey, gone |-> FALSE]
        /\ OthersStay(w) /\ (~overlapped' => ~overlapped /\ OthersIdle(w))
    BY <1>2, <2>1, <2>2
  <2>4. /\ txn[w].op = "idle" /\ txn'[w].op = "photo" /\ txn'[w].member = m
        /\ txn'[w].new = NoKey /\ ~txn'[w].gone /\ txn'[w].step = "read"
        /\ txn'[w].old = Photo(m)
    BY <2>1, <2>3 DEF People!Begin, People!Idle
  <2>5. given' = given \cup ({NoKey} \ {NoKey})
    BY <2>1
  <2>6. QED
    BY <2>1, <2>3, <2>4, <2>5, BeginPhoto
<1>10. ASSUME NEW w \in Worker, NEW m \in Member, People!ReadUpdatePhoto(w, m)
       PROVE  PhotosInv'
  <2>1. member[m].photo = Photo(m)
    BY <1>10, RowTyped DEF People!ReadUpdatePhoto
  <2>2. PICK k \in Key \cup {NoKey}, old \in {NoKey, Photo(m)} :
          /\ People!Begin(w, [op |-> "photo", step |-> "stored", member |-> m, old |-> old,
                             new |-> k, gone |-> FALSE])
          /\ given' = given \cup ({k} \ {NoKey})
          /\ old = Photo(m) \/ k \in {NoKey, Photo(m)}
    BY <1>10, <2>1, PhotoSent
  <2>3. /\ txn'[w] = [op |-> "photo", step |-> "stored", member |-> m, old |-> old,
                      new |-> k, gone |-> FALSE]
        /\ OthersStay(w) /\ (~overlapped' => ~overlapped /\ OthersIdle(w))
    BY <1>2, <2>2
  <2>4. /\ txn[w].op = "idle" /\ txn'[w].op = "photo" /\ txn'[w].member = m
        /\ txn'[w].new = k /\ ~txn'[w].gone /\ txn'[w].step = "stored" /\ txn'[w].old = old
    BY <2>2, <2>3 DEF People!Begin, People!Idle
  <2>5. UNCHANGED <<member, file, used, lost, leftover>>
    BY <1>10 DEF People!ReadUpdatePhoto
  <2>6. QED
    BY <2>2, <2>3, <2>4, <2>5, BeginPhoto
<1>11. ASSUME NEW w \in Worker, People!Store(w)
       PROVE  PhotosInv'
  <2>1. PICK k \in People!NewKeys :
            /\ file' = file \cup {k} /\ used' = used \cup {k}
            /\ People!Continue(w, [txn[w] EXCEPT !.step = "stored", !.new = k])
    BY <1>11 DEF People!Store
  <2>2. txn[w].op # "idle"
    BY <1>11 DEF People!Store
  <2>3. /\ txn'[w] = [txn[w] EXCEPT !.step = "stored", !.new = k] /\ OthersStay(w)
        /\ ~overlapped' => ~overlapped /\ OthersIdle(w)
    BY <1>2, <2>1, <2>2
  <2>4. QED
    BY <1>11, <2>1, <2>3, StorePhoto
<1>12. ASSUME NEW w \in Worker, People!DeleteOld(w)
       PROVE  PhotosInv'
  <2>1. txn[w] \in PhotoTxn /\ txn[w].op = "photo" /\ txn[w].step = "stored" /\ ~txn[w].gone
    BY <1>12, MemberRequestTyped DEF People!DeleteOld, PhotosInv, OldKnown
  <2>2. [txn[w] EXCEPT !.step = "deleted"] = [txn[w] EXCEPT !.step = "deleted", !.gone = FALSE]
    BY <2>1 DEF PhotoTxn
  <2>3. PICK g \in BOOLEAN :
          /\ People!Continue(w, [txn[w] EXCEPT !.step = "deleted", !.gone = g])
          /\ \/ file' = file \ {txn[w].old} /\ UNCHANGED leftover /\ (g <=> txn[w].old # NoKey)
             \/ UNCHANGED file /\ leftover' = leftover \cup ({txn[w].old} \cap file) /\ ~g
    <3>1. CASE /\ file' = file \ {txn[w].old} /\ UNCHANGED leftover
               /\ People!Continue(w, [txn[w] EXCEPT !.step = "deleted",
                                              !.gone = txn[w].old # NoKey])
      <4>1. PICK g \in BOOLEAN : g = (txn[w].old # NoKey)
        OBVIOUS
      <4>2. QED
        BY <3>1, <4>1
    <3>2. CASE /\ UNCHANGED file /\ leftover' = leftover \cup ({txn[w].old} \cap file)
               /\ People!Continue(w, [txn[w] EXCEPT !.step = "deleted"])
      BY <2>2, <3>2
    <3>3. QED
      BY <1>12, <3>1, <3>2 DEF People!DeleteOld
  <2>4. /\ txn'[w] = [txn[w] EXCEPT !.step = "deleted", !.gone = g] /\ OthersStay(w)
        /\ ~overlapped' => ~overlapped /\ OthersIdle(w)
    BY <1>2, <2>1, <2>3
  <2>5. QED
    BY <1>12, <2>3, <2>4, DeletePhoto
<1>13. ASSUME NEW w \in Worker, People!CommitPhoto(w)
       PROVE  PhotosInv'
  <2>1. People!Done(w) /\ txn[w].op # "idle"
    BY <1>13 DEF People!CommitPhoto
  <2>2. NoKey \notin file
    BY DEF People!TypeOK, People!ConstantsOK
  <2>3. QED
    BY <1>3, <1>13, <2>1, <2>2, KeepPhoto, WritePhoto
<1>14. ASSUME NEW w \in Worker, People!CommitRemove(w)
       PROVE  PhotosInv'
  <2>. PICK m : m = txn[w].member
    OBVIOUS
  <2>1. txn[w].op = "remove" /\ People!Done(w) /\ m \in Member /\ People!Found(m)
    BY <1>14, MemberRequestTyped DEF People!CommitRemove
  <2>2. member[m].photo = Photo(m) /\ member[m].status \in People!MemberStatus
    BY <2>1, RowTyped
  <2>3. /\ member' = [member EXCEPT ![m] = [status |-> member[m].status, photo |-> NoKey]]
        /\ leftover' = leftover \cup ({Photo(m)} \cap file)
        /\ UNCHANGED <<file, used, given, lost>>
    BY <1>14, <2>2 DEF People!CommitRemove
  <2>4. Photo(m)' = NoKey /\ \A n \in Member \ {m} : Photo(n)' = Photo(n)
    <3>1. PICK s \in People!MemberStatus, k \in Key \cup {NoKey} :
              s = member[m].status /\ k = NoKey
      BY <2>2
    <3>2. member' = [member EXCEPT ![m] = [status |-> s, photo |-> k]]
      BY <2>3, <3>1
    <3>3. Photo(m)' = k /\ \A n \in Member \ {m} : Photo(n)' = Photo(n)
      BY <2>1, <3>2, RowWritten
    <3>4. QED
      BY <3>1, <3>3
  <2>5. Photo(m) \in file => Photo(m) \in leftover'
    BY <2>3
  <2>6. QED
    BY <1>3, <2>1, <2>3, <2>4, <2>5, QuietStep
<1>15. ASSUME NEW w \in Worker, People!CommitNote(w) \/ People!CommitResolve(w)
       PROVE  PhotosInv'
  <2>1. /\ txn[w].op \in {"note", "resolve"} /\ People!Done(w)
        /\ UNCHANGED <<member, file, used, given, lost, leftover>>
    BY <1>15 DEF People!CommitNote, People!CommitResolve
  <2>2. \A m : Photo(m)' = Photo(m)
    BY <2>1 DEF Photo
  <2>3. QED
    BY <1>3, <2>1, <2>2, QuietStep
<1>16. ASSUME NEW w \in Worker, NEW i \in Incident, People!ReadResolve(w, i)
       PROVE  PhotosInv'
  <2>1. PICK s : People!Begin(w, [op |-> "resolve", incident |-> i, status |-> s])
    BY <1>16 DEF People!ReadResolve
  <2>2. /\ txn'[w] = [op |-> "resolve", incident |-> i, status |-> s] /\ OthersStay(w)
        /\ ~overlapped' => ~overlapped /\ OthersIdle(w)
    BY <1>2, <2>1
  <2>3. /\ incident'[i] \notin {"NONE"} \cup People!Decided
        /\ UNCHANGED <<member, file, used, given, lost, leftover>>
    BY <1>16 DEF People!ReadResolve, People!MayResolve
  <2>4. \A m : Photo(m)' = Photo(m)
    BY <2>3 DEF Photo
  <2>5. txn[w].op = "idle" /\ txn'[w].op = "resolve" /\ txn'[w].incident = i
    BY <2>1, <2>2 DEF People!Begin, People!Idle
  <2>6. QED
    BY <2>2, <2>3, <2>4, <2>5, QuietStep
<1>17. QED
  BY <1>1, <1>4, <1>5, <1>7, <1>8, <1>9, <1>10, <1>11, <1>12, <1>13, <1>14, <1>15, <1>16
  DEF People!Next

\* A photo that a row names is stored, and unless requests overlap, a file that is stored is
\* somebody's photo or known to be left behind.
THEOREM PhotosAreKept == People!Spec => []PhotosKept
<1>1. People!Init => PhotosInv
  BY InitPhotos, ComponentsOK DEF ComponentsOK
<1>2. PhotosInv /\ [People!Next]_People!vars => PhotosInv'
  BY NextPhotos, ComponentsOK DEF ComponentsOK
<1>3. ASSUME PhotosInv
      PROVE  PhotosKept
  <2>1. \A k \in People!Photos : k # NoKey /\ \E m \in Member : Photo(m) = k
    BY DEF People!Photos, Photo
  <2>2. ASSUME NEW m \in Member, Photo(m) # NoKey
        PROVE  Photo(m) \in People!Photos
    BY <2>2 DEF People!Photos, Photo
  <2>3. People!PhotoThere
    BY <1>3, <2>1 DEF PhotosInv, RowsKnown, PhotoStored, People!PhotoThere
  <2>4. \A k \in file : k # NoKey
    BY <1>3, ComponentsOK DEF PhotosInv, People!TypeOK, People!ConstantsOK, ComponentsOK
  <2>5. People!FilesAccounted
    BY <1>3, <2>2, <2>4 DEF PhotosInv, FileKept, People!FilesAccounted
  <2>6. QED
    BY <2>3, <2>5 DEF PhotosKept, People!PhotosKept
<1>4. QED
  BY <1>1, <1>2, <1>3, PTL DEF People!Spec

\* A member that was deleted stays as it is, and unless requests overlap, an incident is decided
\* once.
THEOREM DecisionsAreKept == People!Spec => DecisionsStand
<1>1. People!Init => PhotosInv
  BY InitPhotos, ComponentsOK DEF ComponentsOK
<1>2. PhotosInv /\ [People!Next]_People!vars => PhotosInv'
  BY NextPhotos, ComponentsOK DEF ComponentsOK
<1>3. PhotosInv /\ [People!Next]_People!vars =>
    [People!KeepingDeleted]_People!vars /\ [People!KeepingDecided]_People!vars
  <2>. SUFFICES ASSUME PhotosInv, People!Next
                PROVE  People!KeepingDeleted /\ People!KeepingDecided
    OBVIOUS
  <2>. People!TypeOK
    BY DEF PhotosInv
  <2>1. ASSUME UNCHANGED <<member, incident>>
        PROVE  People!KeepingDeleted /\ People!KeepingDecided
    BY <2>1 DEF People!KeepingDeleted, People!KeepingDecided
  <2>2. ASSUME NEW m \in Member, NEW row, member' = [member EXCEPT ![m] = row],
               member[m].status # "DELETED", UNCHANGED incident
        PROVE  People!KeepingDeleted /\ People!KeepingDecided
    BY <2>2 DEF People!KeepingDeleted, People!KeepingDecided, People!TypeOK
  <2>3. ASSUME NEW w \in Worker, NEW m \in Member, People!Register(w, m)
        PROVE  People!KeepingDeleted /\ People!KeepingDecided
    <3>1. member[m].status # "DELETED"
      BY <2>3 DEF People!Register, People!NoMember
    <3>2. QED
      BY <2>2, <2>3, <3>1 DEF People!Register
  <2>4. ASSUME NEW w \in Worker,
               People!CommitStatus(w) \/ People!CommitPhoto(w) \/ People!CommitRemove(w)
        PROVE  People!KeepingDeleted /\ People!KeepingDecided
    <3>1. txn[w].member \in Member
      BY <2>4, MemberRequestTyped
      DEF People!CommitStatus, People!CommitPhoto, People!CommitRemove, PhotoTxn
    <3>2. member[txn[w].member].status # "DELETED"
      BY <2>4 DEF People!CommitStatus, People!CommitPhoto, People!CommitRemove, People!Found
    <3>3. CASE People!CommitPhoto(w)
      <4>1. CASE txn[w].new = NoKey
        BY <2>1, <3>3, <4>1 DEF People!CommitPhoto
      <4>2. CASE txn[w].new # NoKey
        BY <2>2, <3>1, <3>2, <3>3, <4>2 DEF People!CommitPhoto
      <4>3. QED
        BY <4>1, <4>2
    <3>4. QED
      BY <2>2, <2>4, <3>1, <3>2, <3>3 DEF People!CommitStatus, People!CommitRemove
  <2>5. ASSUME NEW w \in Worker, NEW i \in Incident, NEW s,
               incident' = [incident EXCEPT ![i] = s], UNCHANGED member,
               ~overlapped => incident[i] \notin People!Decided
        PROVE  People!KeepingDeleted /\ People!KeepingDecided
    BY <2>5 DEF People!KeepingDeleted, People!KeepingDecided, People!TypeOK
  <2>6. ASSUME NEW w \in Worker, People!CommitNote(w)
        PROVE  People!KeepingDeleted /\ People!KeepingDecided
    <3>1. PICK i \in Incident :
              incident[i] = "NONE" /\ incident' = [incident EXCEPT ![i] = "OPEN"]
      BY <2>6 DEF People!CommitNote
    <3>2. incident[i] \notin People!Decided
      BY <3>1 DEF People!Decided
    <3>3. QED
      BY <2>5, <2>6, <3>1, <3>2 DEF People!CommitNote
  <2>7. ASSUME NEW w \in Worker, People!CommitResolve(w)
        PROVE  People!KeepingDeleted /\ People!KeepingDecided
    <3>1. txn[w].incident \in Incident
      BY <2>7, MemberRequestTyped DEF People!CommitResolve
    <3>2. ~overlapped => incident[txn[w].incident] \notin People!Decided
      BY <2>7 DEF People!CommitResolve, PhotosInv, ReadStands
    <3>3. QED
      BY <2>5, <2>7, <3>1, <3>2 DEF People!CommitResolve
  <2>8. QED
    BY <2>1, <2>3, <2>4, <2>6, <2>7
    DEF People!Next, People!Abort, People!ReadStatus, People!ReadUpload, People!ReadUpdatePhoto,
        People!ReadRemove, People!ReadNote, People!Store, People!DeleteOld, People!ReadResolve
<1>4. QED
  BY <1>1, <1>2, <1>3, PTL
  DEF People!Spec, DecisionsStand, People!DecisionsStand, People!DeletedIsFinal, People!DecidedOnce

-----------------------------------------------------------------------------
(* Onboarding: a lead makes one tenant, and its workspace stays in order.  *)

\* An instance has its own copy of the definitions of Requests.
LEMMA ArrivalRequests ==
    /\ \A w, t : /\ Arrival!Begin(w, t) <=> Begin(w, t)
                 /\ Arrival!Continue(w, t) <=> Continue(w, t)
    /\ \A w : (Arrival!Done(w) <=> Done(w)) /\ (Arrival!AtOnce(w) <=> AtOnce(w))
BY DEF Arrival!Begin, Arrival!Continue, Arrival!Done, Arrival!AtOnce, Arrival!Overlap,
   Arrival!Idle,
       Begin, Continue, Done, AtOnce, Overlap, Idle

\* An instance has its own copy of the definitions of FiniteSets.
LEMMA ArrivalSets ==
    \A S : (Arrival!IsFiniteSet(S) <=> IsFiniteSet(S)) /\ Arrival!Cardinality(S) = Cardinality(S)
<1>1. \A S : Arrival!IsFiniteSet(S) <=> IsFiniteSet(S)
  BY DEF Arrival!IsFiniteSet, IsFiniteSet
<1>2. \A S : Arrival!Cardinality(S) = Cardinality(S)
  BY <1>1 DEF Arrival!Cardinality, Cardinality
<1>3. QED
  BY <1>1, <1>2

\* Written together: the date of a task is that of its status, unless a request gave it.
RequestSound(w) ==
    LET r == txn[w] IN
    /\ r.op = "convert" => r.lead \in Arrival!Leads
    /\ r.op = "updateTask" /\ ~r.dated => (r.completedAt <=> r.status = "COMPLETED")

TenantOf(r) == IF r.op = "createContact" THEN r.tenant ELSE contact[r.contact].tenant

\* What a request has read is still so, if it is the only one.
RequestStands(w) ==
    LET r == txn[w] IN
    /\ r.op = "send" => Cardinality(Arrival!Recent) < MaxRecent
    /\ r.op = "convert" => lead[r.lead].tenant = NoTenant
    /\ r.op = "updateTask" /\ ~r.named =>
        r.task \in Arrival!Tasks /\ r.status = task[r.task].status
    /\ r.op \in {"createContact", "updateContact"} /\ r.step = "cleared" /\ r.isPrimary =>
          r.others = Arrival!ContactsOf(TenantOf(r))

ContactsHaveTenant ==
    \A c \in Contact : contact[c].status = "LIVE" => Arrival!Exists(contact[c].tenant)

TenantsNamed ==
    \A t \in Tenant : Arrival!Exists(t) =>
        tenant[t].from \in Arrival!Leads /\ lead[tenant[t].from].tenant = t

PrimaryUnique ==
    \A c, d \in Contact :
        /\ contact[c].status = "LIVE" /\ contact[d].status = "LIVE"
        /\ contact[c].tenant = contact[d].tenant /\ contact[c].isPrimary /\ contact[d].isPrimary
        => c = d

OnboardingInv ==
    /\ Arrival!TypeOK /\ Alone /\ Arrival!LeadNamesTenant /\ Arrival!CompletedDated
    /\ ContactsHaveTenant
    /\ \A w \in Worker : RequestSound(w)
    /\ ~overlapped => /\ \A w \in Worker : RequestStands(w)
                      /\ TenantsNamed /\ PrimaryUnique /\ Arrival!LeadsLimited

LeadLine == [status : Arrival!LeadStatus, tenant : Tenant \cup {NoTenant}, recent : BOOLEAN]
ContactLine == [status : {"LIVE"}, tenant : Tenant, isPrimary : BOOLEAN]
TaskLine == [status : Arrival!TaskStatus, tenant : Tenant, completedAt : BOOLEAN]

LEMMA LinesTyped ==
    ASSUME Arrival!TypeOK
    PROVE  /\ \A l \in Arrival!Leads : l \in Lead /\ lead[l] \in LeadLine
           /\ \A c \in Contact : contact[c].status = "LIVE" => contact[c] \in ContactLine
           /\ \A k \in Arrival!Tasks : k \in Task /\ task[k] \in TaskLine
           /\ \A t \in Tenant : Arrival!Exists(t) => tenant[t].from \in Lead
           /\ LeadLine \subseteq Arrival!LeadRow \ {Arrival!None}
           /\ ContactLine \subseteq Arrival!ContactRow
           /\ TaskLine \subseteq Arrival!TaskRow
<1>1. \A l \in Arrival!Leads : l \in Lead /\ lead[l] \in LeadLine
  BY DEF Arrival!TypeOK, Arrival!Leads, Arrival!LeadRow, LeadLine
<1>2. \A c \in Contact : contact[c].status = "LIVE" => contact[c] \in ContactLine
  BY DEF Arrival!TypeOK, Arrival!ContactRow, ContactLine
<1>3. \A k \in Arrival!Tasks : k \in Task /\ task[k] \in TaskLine
  BY DEF Arrival!TypeOK, Arrival!Tasks, Arrival!TaskRow, TaskLine, Arrival!TaskStatus
<1>4. \A t \in Tenant : Arrival!Exists(t) => tenant[t].from \in Lead
  BY DEF Arrival!TypeOK, Arrival!Exists, Arrival!TenantRow
<1>5. LeadLine \subseteq Arrival!LeadRow \ {Arrival!None}
  BY DEF LeadLine, Arrival!LeadRow, Arrival!None, Arrival!LeadStatus
<1>6. ContactLine \subseteq Arrival!ContactRow /\ TaskLine \subseteq Arrival!TaskRow
  BY DEF ContactLine, Arrival!ContactRow, TaskLine, Arrival!TaskRow
<1>7. QED
  BY <1>1, <1>2, <1>3, <1>4, <1>5, <1>6

LEMMA OnboardingRequestTyped ==
    ASSUME Arrival!TypeOK, NEW w \in Worker
    PROVE  /\ txn[w].op = "convert" => txn[w].lead \in Lead /\ txn[w].owner \in Owner
           /\ txn[w].op = "createContact" =>
                txn[w] \in [op : {"createContact"}, step : {"read", "cleared"}, tenant : Tenant,
                            isPrimary : BOOLEAN, others : SUBSET Contact]
           /\ txn[w].op = "updateContact" =>
                txn[w] \in [op : {"updateContact"}, step : {"read", "cleared"},
                            contact : Contact, isPrimary : BOOLEAN, others : SUBSET Contact]
           /\ txn[w].op = "updateTask" =>
                txn[w] \in [op : {"updateTask"}, task : Task, named : BOOLEAN,
                            status : Arrival!TaskStatus, completedAt : BOOLEAN, dated : BOOLEAN]
BY DEF Arrival!TypeOK, Arrival!Txn, Arrival!Idle

\* Taking the primary contact from some.
LEMMA ClearedRows ==
    ASSUME Arrival!TypeOK, NEW cs
    PROVE  /\ Arrival!Cleared(cs) \in [Contact -> Arrival!ContactRow]
           /\ \A c \in Contact :
                 /\ Arrival!Cleared(cs)[c].status = contact[c].status
                 /\ contact[c].status = "LIVE" =>
                       /\ Arrival!Cleared(cs)[c] \in ContactLine
                       /\ Arrival!Cleared(cs)[c].tenant = contact[c].tenant
                       /\ Arrival!Cleared(cs)[c].isPrimary => contact[c].isPrimary /\ c \notin cs
<1>1. \A c \in Contact : Arrival!Cleared(cs)[c] =
          IF c \in cs /\ contact[c].status = "LIVE"
          THEN [contact[c] EXCEPT !.isPrimary = FALSE] ELSE contact[c]
  BY DEF Arrival!Cleared
<1>2. ASSUME NEW c \in Contact
      PROVE  /\ Arrival!Cleared(cs)[c] \in Arrival!ContactRow
             /\ Arrival!Cleared(cs)[c].status = contact[c].status
             /\ contact[c].status = "LIVE" =>
                   /\ Arrival!Cleared(cs)[c] \in ContactLine
                   /\ Arrival!Cleared(cs)[c].tenant = contact[c].tenant
                   /\ Arrival!Cleared(cs)[c].isPrimary => contact[c].isPrimary /\ c \notin cs
  <2>1. CASE c \in cs /\ contact[c].status = "LIVE"
    <3>1. contact[c] \in ContactLine
      BY <2>1, LinesTyped
    <3>2. LET row == [contact[c] EXCEPT !.isPrimary = FALSE] IN
              /\ row \in ContactLine /\ row.status = "LIVE" /\ row.tenant = contact[c].tenant
              /\ ~row.isPrimary
      BY <3>1 DEF ContactLine
    <3>3. QED
      BY <1>1, <2>1, <3>2, LinesTyped
  <2>2. CASE ~(c \in cs /\ contact[c].status = "LIVE")
    BY <1>1, <2>2, LinesTyped DEF Arrival!TypeOK
  <2>3. QED
    BY <2>1, <2>2
<1>3. Arrival!Cleared(cs) \in [Contact -> Arrival!ContactRow]
  BY <1>2 DEF Arrival!Cleared
<1>4. QED
  BY <1>2, <1>3

LEMMA InitOnboarding == ASSUME Arrival!ConstantsOK PROVE Arrival!Init => OnboardingInv
<1>. SUFFICES ASSUME Arrival!Init
              PROVE  OnboardingInv
  OBVIOUS
<1>1. Arrival!TypeOK
  BY DEF Arrival!Init, Arrival!TypeOK, Arrival!NoRequests, Arrival!Txn, Arrival!LeadRow,
         Arrival!TenantRow, Arrival!ContactRow, Arrival!TaskRow, Arrival!None
<1>2. \A w \in Worker : txn[w].op = "idle"
  BY DEF Arrival!Init, Arrival!NoRequests, Arrival!Idle
<1>3. Arrival!Leads = {} /\ Arrival!Recent = {} /\ Arrival!Tasks = {}
  BY DEF Arrival!Init, Arrival!Leads, Arrival!Recent, Arrival!Tasks, Arrival!None,
         Arrival!TaskStatus
<1>4. Cardinality(Arrival!Recent) = 0 /\ MaxRecent \in Nat \ {0}
  BY <1>3, FS_EmptySet DEF Arrival!ConstantsOK
<1>5. (\A t \in Tenant : ~Arrival!Exists(t)) /\ (\A c \in Contact : contact[c].status = "NONE")
  BY DEF Arrival!Init, Arrival!Exists, Arrival!None
<1>6. Arrival!LeadNamesTenant /\ Arrival!CompletedDated /\ Arrival!LeadsLimited
  BY <1>3, <1>4, ArrivalSets DEF Arrival!LeadNamesTenant, Arrival!CompletedDated,
     Arrival!LeadsLimited
<1>7. QED
  BY <1>1, <1>2, <1>5, <1>6
  DEF OnboardingInv, Alone, RequestSound, RequestStands, TenantsNamed, PrimaryUnique,
      ContactsHaveTenant

LEMMA OnboardingTyped ==
    ASSUME Arrival!ConstantsOK, OnboardingInv, [Arrival!Next]_Arrival!vars
    PROVE  Arrival!TypeOK'
<1>. Arrival!TypeOK /\ txn \in [Worker -> Arrival!Txn] /\ overlapped \in BOOLEAN
  BY DEF OnboardingInv, Arrival!TypeOK
<1>1. CASE UNCHANGED Arrival!vars
  BY <1>1 DEF Arrival!vars, Arrival!TypeOK
<1>2. \A w \in Worker : Arrival!Overlap(w) => overlapped' \in BOOLEAN
  BY DEF Arrival!Overlap
<1>3. Arrival!Idle \in Arrival!Txn
  BY DEF Arrival!Txn
<1>4. ASSUME NEW w \in Worker, NEW t \in Arrival!Txn,
             Arrival!Begin(w, t) \/ Arrival!Continue(w, t)
      PROVE  txn' \in [Worker -> Arrival!Txn] /\ overlapped' \in BOOLEAN
  BY <1>2, <1>4 DEF Arrival!Begin, Arrival!Continue
<1>5. ASSUME NEW w \in Worker, Arrival!Done(w) \/ Arrival!AtOnce(w)
      PROVE  txn' \in [Worker -> Arrival!Txn] /\ overlapped' \in BOOLEAN
  BY <1>2, <1>3, <1>4, <1>5 DEF Arrival!Done, Arrival!AtOnce
<1>6. ASSUME NEW w \in Worker, Arrival!Abort(w)
      PROVE  Arrival!TypeOK'
  BY <1>5, <1>6 DEF Arrival!Abort, Arrival!Workspace, Arrival!TypeOK
<1>7. ASSUME NEW w \in Worker, Arrival!ReadCreateLead(w)
      PROVE  Arrival!TypeOK'
  <2>1. [op |-> "send"] \in Arrival!Txn
    BY DEF Arrival!Txn
  <2>2. QED
    BY <1>4, <1>7, <2>1 DEF Arrival!ReadCreateLead, Arrival!Workspace, Arrival!TypeOK
<1>8. ASSUME NEW w \in Worker, Arrival!CommitCreateLead(w)
      PROVE  Arrival!TypeOK'
  <2>1. [status |-> "NEW", tenant |-> NoTenant, recent |-> TRUE] \in Arrival!LeadRow
    BY DEF Arrival!LeadRow, Arrival!LeadStatus
  <2>2. lead' \in [Lead -> Arrival!LeadRow]
    BY <1>8, <2>1 DEF Arrival!CommitCreateLead, Arrival!TypeOK
  <2>3. QED
    BY <1>5, <1>8, <2>2 DEF Arrival!CommitCreateLead, Arrival!Workspace, Arrival!TypeOK
<1>9. ASSUME NEW w \in Worker, NEW l \in Lead, Arrival!UpdateLeadStatus(w, l)
      PROVE  Arrival!TypeOK'
  <2>1. PICK s \in AskedLeadStatus : lead' = [lead EXCEPT ![l].status = s]
    BY <1>9 DEF Arrival!UpdateLeadStatus
  <2>2. lead[l] \in LeadLine /\ s \in Arrival!LeadStatus
    BY <1>9, LinesTyped DEF Arrival!UpdateLeadStatus, Arrival!ConstantsOK, Arrival!LeadStatus
  <2>3. [lead[l] EXCEPT !.status = s] \in Arrival!LeadRow
    BY <2>2 DEF LeadLine, Arrival!LeadRow
  <2>4. lead' \in [Lead -> Arrival!LeadRow]
    BY <2>1, <2>3 DEF Arrival!TypeOK
  <2>5. QED
    BY <1>5, <1>9, <2>4 DEF Arrival!UpdateLeadStatus, Arrival!Workspace, Arrival!TypeOK
<1>10. ASSUME NEW w \in Worker, NEW l \in Lead, Arrival!ReadConvert(w, l)
       PROVE  Arrival!TypeOK'
  <2>1. \A o \in Owner :
            [op |-> "convert", lead |-> l, owner |-> o, known |-> o \in account] \in Arrival!Txn
    BY DEF Arrival!Txn
  <2>2. QED
    BY <1>4, <1>10, <2>1 DEF Arrival!ReadConvert, Arrival!Workspace, Arrival!TypeOK
<1>11. ASSUME NEW w \in Worker, Arrival!CommitConvert(w)
       PROVE  Arrival!TypeOK'
  <2>. PICK l : l = txn[w].lead
    OBVIOUS
  <2>1. txn[w].owner \in Owner /\ l \in Arrival!Leads /\ l \in Lead
    BY <1>11, OnboardingRequestTyped DEF Arrival!CommitConvert, OnboardingInv, RequestSound
  <2>2. PICK t \in Tenant, c \in Contact, first \in SUBSET Task :
          /\ tenant' = [tenant EXCEPT ![t] = [status |-> "LIVE", from |-> l]]
          /\ contact' = [contact EXCEPT
                 ![c] = [status |-> "LIVE", tenant |-> t, isPrimary |-> TRUE]]
          /\ task' = [k \in Task |->
                 IF k \in first
                 THEN [status |-> "OPEN", tenant |-> t, completedAt |-> FALSE]
                 ELSE task[k]]
          /\ lead' = [lead EXCEPT ![l].status = "ACCESS_SENT", ![l].tenant = t]
    BY <1>11 DEF Arrival!CommitConvert, Arrival!kSubset
  <2>3. /\ [status |-> "LIVE", from |-> l] \in Arrival!TenantRow
        /\ [status |-> "LIVE", tenant |-> t, isPrimary |-> TRUE] \in Arrival!ContactRow
        /\ [status |-> "OPEN", tenant |-> t, completedAt |-> FALSE] \in Arrival!TaskRow
    BY <2>1 DEF Arrival!TenantRow, Arrival!ContactRow, Arrival!TaskRow, Arrival!TaskStatus
  <2>4. /\ tenant' \in [Tenant -> Arrival!TenantRow]
        /\ contact' \in [Contact -> Arrival!ContactRow]
        /\ task' \in [Task -> Arrival!TaskRow]
    BY <2>2, <2>3 DEF Arrival!TypeOK
  <2>5. lead[l] \in LeadLine
    BY <2>1, LinesTyped
  <2>6. [[lead[l] EXCEPT !.status = "ACCESS_SENT"] EXCEPT !.tenant = t] \in Arrival!LeadRow
    BY <2>5 DEF LeadLine, Arrival!LeadRow, Arrival!LeadStatus
  <2>7. lead' \in [Lead -> Arrival!LeadRow]
    BY <2>1, <2>2, <2>6 DEF Arrival!TypeOK
  <2>8. account' \subseteq Owner
    BY <1>11, <2>1 DEF Arrival!CommitConvert, Arrival!TypeOK
  <2>9. QED
    BY <1>5, <1>11, <2>4, <2>7, <2>8 DEF Arrival!CommitConvert, Arrival!TypeOK
<1>12. ASSUME NEW w \in Worker, NEW t \in Tenant, Arrival!DeleteTenant(w, t)
       PROVE  Arrival!TypeOK'
  <2>1. [status |-> "DELETED"] \in Arrival!TenantRow \cap Arrival!ContactRow \cap Arrival!TaskRow
    BY DEF Arrival!TenantRow, Arrival!ContactRow, Arrival!TaskRow
  <2>2. \A l \in Arrival!Leads : [lead[l] EXCEPT !.tenant = NoTenant] \in Arrival!LeadRow
    BY LinesTyped DEF LeadLine, Arrival!LeadRow
  <2>3. /\ tenant' \in [Tenant -> Arrival!TenantRow]
        /\ contact' \in [Contact -> Arrival!ContactRow]
        /\ task' \in [Task -> Arrival!TaskRow]
    BY <1>12, <2>1 DEF Arrival!DeleteTenant, Arrival!TypeOK
  <2>4. lead' \in [Lead -> Arrival!LeadRow]
    BY <1>12, <2>2 DEF Arrival!DeleteTenant, Arrival!TypeOK
  <2>5. QED
    BY <1>5, <1>12, <2>3, <2>4 DEF Arrival!DeleteTenant, Arrival!TypeOK
<1>13. ASSUME NEW w \in Worker, NEW t \in Tenant, Arrival!ReadCreateContact(w, t)
       PROVE  Arrival!TypeOK'
  <2>1. \A p \in BOOLEAN : [op |-> "createContact", step |-> "read", tenant |-> t,
                            isPrimary |-> p, others |-> {}] \in Arrival!Txn
    BY DEF Arrival!Txn
  <2>2. QED
    BY <1>4, <1>13, <2>1 DEF Arrival!ReadCreateContact, Arrival!Workspace, Arrival!TypeOK
<1>14. ASSUME NEW w \in Worker, NEW c \in Contact, Arrival!ReadUpdateContact(w, c)
       PROVE  Arrival!TypeOK'
  <2>1. \A p \in BOOLEAN : [op |-> "updateContact", step |-> "read", contact |-> c,
                            isPrimary |-> p, others |-> {}] \in Arrival!Txn
    BY DEF Arrival!Txn
  <2>2. QED
    BY <1>4, <1>14, <2>1 DEF Arrival!ReadUpdateContact, Arrival!Workspace, Arrival!TypeOK
<1>15. ASSUME NEW w \in Worker, Arrival!ClearPrimary(w)
       PROVE  Arrival!TypeOK'
  <2>1. PICK os \in SUBSET Contact :
            Arrival!Continue(w, [txn[w] EXCEPT !.step = "cleared", !.others = os])
    BY <1>15 DEF Arrival!ClearPrimary, Arrival!Others, Arrival!ContactsOf
  <2>2. [txn[w] EXCEPT !.step = "cleared", !.others = os] \in Arrival!Txn
    <3>1. CASE txn[w].op = "createContact"
      <4>1. txn[w] \in [op : {"createContact"}, step : {"read", "cleared"},
                       tenant : Tenant, isPrimary : BOOLEAN, others : SUBSET Contact]
        BY <3>1, OnboardingRequestTyped
      <4>2. [txn[w] EXCEPT !.step = "cleared", !.others = os]
                \in [op : {"createContact"}, step : {"read", "cleared"},
                    tenant : Tenant, isPrimary : BOOLEAN, others : SUBSET Contact]
        BY <4>1
      <4>3. QED
        BY <4>2 DEF Arrival!Txn
    <3>2. CASE txn[w].op = "updateContact"
      <4>1. txn[w] \in [op : {"updateContact"}, step : {"read", "cleared"},
                       contact : Contact, isPrimary : BOOLEAN, others : SUBSET Contact]
        BY <3>2, OnboardingRequestTyped
      <4>2. [txn[w] EXCEPT !.step = "cleared", !.others = os]
                \in [op : {"updateContact"}, step : {"read", "cleared"},
                    contact : Contact, isPrimary : BOOLEAN, others : SUBSET Contact]
        BY <4>1
      <4>3. QED
        BY <4>2 DEF Arrival!Txn
    <3>3. QED
      BY <1>15, <3>1, <3>2 DEF Arrival!ClearPrimary
  <2>3. QED
    BY <1>4, <1>15, <2>1, <2>2 DEF Arrival!ClearPrimary, Arrival!Workspace, Arrival!TypeOK
<1>16. ASSUME NEW w \in Worker, Arrival!CommitCreateContact(w)
       PROVE  Arrival!TypeOK'
  <2>1. txn[w].tenant \in Tenant /\ txn[w].isPrimary \in BOOLEAN
    BY <1>16, OnboardingRequestTyped DEF Arrival!CommitCreateContact
  <2>2. [status |-> "LIVE", tenant |-> txn[w].tenant, isPrimary |-> txn[w].isPrimary]
            \in Arrival!ContactRow
    BY <2>1 DEF Arrival!ContactRow
  <2>3. contact' \in [Contact -> Arrival!ContactRow]
    BY <1>16, <2>2, ClearedRows DEF Arrival!CommitCreateContact
  <2>4. QED
    BY <1>5, <1>16, <2>3 DEF Arrival!CommitCreateContact, Arrival!TypeOK
<1>17. ASSUME NEW w \in Worker, Arrival!CommitUpdateContact(w)
       PROVE  Arrival!TypeOK'
  <2>. DEFINE c == txn[w].contact
              cs == txn[w].others
  <2>1. c \in Contact /\ txn[w].isPrimary \in BOOLEAN /\ contact[c].status = "LIVE"
    BY <1>17, OnboardingRequestTyped DEF Arrival!CommitUpdateContact
  <2>2. Arrival!Cleared(cs)[c] \in ContactLine
      /\ Arrival!Cleared(cs) \in [Contact -> Arrival!ContactRow]
    BY <2>1, ClearedRows
  <2>3. [Arrival!Cleared(cs)[c] EXCEPT !.isPrimary = txn[w].isPrimary] \in Arrival!ContactRow
    BY <2>1, <2>2 DEF ContactLine, Arrival!ContactRow
  <2>4. contact' = [Arrival!Cleared(cs) EXCEPT ![c].isPrimary = txn[w].isPrimary]
    BY <1>17 DEF Arrival!CommitUpdateContact
  <2>5. contact' \in [Contact -> Arrival!ContactRow]
    BY <2>2, <2>3, <2>4
  <2>6. QED
    BY <1>5, <1>17, <2>5 DEF Arrival!CommitUpdateContact, Arrival!TypeOK
<1>18. ASSUME NEW w \in Worker, NEW c \in Contact, Arrival!DeleteContact(w, c)
       PROVE  Arrival!TypeOK'
  BY <1>5, <1>18 DEF Arrival!DeleteContact, Arrival!ContactRow, Arrival!TypeOK
<1>19. ASSUME NEW w \in Worker, NEW t \in Tenant, Arrival!CreateTask(w, t)
       PROVE  Arrival!TypeOK'
  <2>1. \A s \in Arrival!TaskStatus :
            [status |-> s, tenant |-> t, completedAt |-> s = "COMPLETED"] \in Arrival!TaskRow
    BY DEF Arrival!TaskRow
  <2>2. task' \in [Task -> Arrival!TaskRow]
    BY <1>19, <2>1 DEF Arrival!CreateTask, Arrival!TypeOK
  <2>3. QED
    BY <1>5, <1>19, <2>2 DEF Arrival!CreateTask, Arrival!TypeOK
<1>20. ASSUME NEW w \in Worker, NEW k \in Task, Arrival!ReadUpdateTask(w, k)
       PROVE  Arrival!TypeOK'
  <2>1. \A named, dating, date \in BOOLEAN, s \in Arrival!TaskStatus :
            [op |-> "updateTask", task |-> k, named |-> named, status |-> s,
             completedAt |-> date, dated |-> dating] \in Arrival!Txn
    BY DEF Arrival!Txn
  <2>2. QED
    BY <1>4, <1>20, <2>1 DEF Arrival!ReadUpdateTask, Arrival!Workspace, Arrival!TypeOK
<1>21. ASSUME NEW w \in Worker, Arrival!CommitUpdateTask(w)
       PROVE  Arrival!TypeOK'
  <2>. DEFINE k == txn[w].task
  <2>1. k \in Task /\ txn[w].status \in Arrival!TaskStatus /\ txn[w].completedAt \in BOOLEAN
    BY <1>21, OnboardingRequestTyped DEF Arrival!CommitUpdateTask
  <2>2. task[k] \in TaskLine
    BY <1>21, LinesTyped DEF Arrival!CommitUpdateTask
  <2>3. [[task[k] EXCEPT !.status = txn[w].status] EXCEPT !.completedAt = txn[w].completedAt]
            \in Arrival!TaskRow
    BY <2>1, <2>2 DEF TaskLine, Arrival!TaskRow
  <2>4. task' = [task EXCEPT ![k].status = txn[w].status, ![k].completedAt = txn[w].completedAt]
    BY <1>21 DEF Arrival!CommitUpdateTask
  <2>5. task' \in [Task -> Arrival!TaskRow] /\ dated' \subseteq Task
    BY <1>21, <2>1, <2>3, <2>4 DEF Arrival!CommitUpdateTask, Arrival!TypeOK
  <2>6. QED
    BY <1>5, <1>21, <2>5 DEF Arrival!CommitUpdateTask, Arrival!TypeOK
<1>22. ASSUME NEW w \in Worker, NEW k \in Task, Arrival!DeleteTask(w, k)
       PROVE  Arrival!TypeOK'
  BY <1>5, <1>22 DEF Arrival!DeleteTask, Arrival!TaskRow, Arrival!TypeOK
<1>23. ASSUME NEW l \in Lead, Arrival!Age(l)
       PROVE  Arrival!TypeOK'
  <2>1. lead[l] \in LeadLine
    BY <1>23, LinesTyped DEF Arrival!Age, Arrival!Recent
  <2>2. [lead[l] EXCEPT !.recent = FALSE] \in Arrival!LeadRow
    BY <2>1 DEF LeadLine, Arrival!LeadRow
  <2>3. QED
    BY <1>23, <2>2 DEF Arrival!Age, Arrival!Workspace, Arrival!TypeOK
<1>24. QED
  BY <1>1, <1>6, <1>7, <1>8, <1>9, <1>10, <1>11, <1>12, <1>13, <1>14, <1>15, <1>16, <1>17, <1>18,
     <1>19, <1>20, <1>21, <1>22, <1>23 DEF Arrival!Next


\* A step of w keeps the invariant if what it has read then stands, and so does what is kept
\* of the tables.
LEMMA OnboardingStep ==
    ASSUME OnboardingInv, Arrival!TypeOK', NEW w \in Worker, OthersStay(w),
           ~overlapped' => ~overlapped /\ OthersIdle(w),
           Arrival!Leads \subseteq Arrival!Leads', RequestSound(w)',
           ~overlapped' => RequestStands(w)',
           Arrival!LeadNamesTenant', Arrival!CompletedDated', ContactsHaveTenant',
           ~overlapped' => TenantsNamed' /\ PrimaryUnique' /\ Arrival!LeadsLimited'
    PROVE  OnboardingInv'
<1>1. \A v \in Worker : v = w \/ txn'[v] = txn[v]
  BY DEF OthersStay
<1>2. ASSUME NEW v \in Worker
      PROVE  RequestSound(v)'
  BY <1>1 DEF OnboardingInv, RequestSound
<1>3. ASSUME ~overlapped', NEW v \in Worker
      PROVE  RequestStands(v)'
  <2>1. v = w \/ txn'[v].op = "idle"
    BY <1>1, <1>3 DEF OthersIdle
  <2>2. QED
    BY <1>3, <2>1 DEF RequestStands
<1>4. Alone'
  BY StaysAlone DEF OnboardingInv
<1>5. QED
  BY <1>2, <1>3, <1>4 DEF OnboardingInv

\* The parts of the invariant follow the tables they are about.
LEMMA TablesKept ==
    ASSUME OnboardingInv
    PROVE  /\ UNCHANGED lead => Arrival!Leads' = Arrival!Leads /\ Arrival!Recent' = Arrival!Recent
           /\ UNCHANGED <<lead, tenant>> =>
               Arrival!LeadNamesTenant' /\ (~overlapped => TenantsNamed')
           /\ UNCHANGED <<task, dated>> => Arrival!CompletedDated'
           /\ UNCHANGED <<tenant, contact>> => ContactsHaveTenant'
           /\ UNCHANGED contact /\ ~overlapped => PrimaryUnique'
           /\ UNCHANGED lead /\ ~overlapped => Arrival!LeadsLimited'
<1>1. UNCHANGED lead => Arrival!Leads' = Arrival!Leads /\ Arrival!Recent' = Arrival!Recent
  BY DEF Arrival!Leads, Arrival!Recent
<1>2. UNCHANGED <<lead, tenant>> => Arrival!LeadNamesTenant' /\ (~overlapped => TenantsNamed')
  BY <1>1 DEF OnboardingInv, Arrival!LeadNamesTenant, TenantsNamed, Arrival!Exists
<1>3. UNCHANGED <<task, dated>> => Arrival!CompletedDated'
  BY DEF OnboardingInv, Arrival!CompletedDated, Arrival!Tasks
<1>4. UNCHANGED <<tenant, contact>> => ContactsHaveTenant'
  BY DEF OnboardingInv, ContactsHaveTenant, Arrival!Exists
<1>5. UNCHANGED contact /\ ~overlapped => PrimaryUnique'
  BY DEF OnboardingInv, PrimaryUnique
<1>6. UNCHANGED lead /\ ~overlapped => Arrival!LeadsLimited'
  BY <1>1 DEF OnboardingInv, Arrival!LeadsLimited
<1>7. QED
  BY <1>1, <1>2, <1>3, <1>4, <1>5, <1>6

LEMMA ReadingKept ==
    ASSUME OnboardingInv, Arrival!TypeOK', NEW w \in Worker, OthersStay(w),
           ~overlapped' => ~overlapped /\ OthersIdle(w), UNCHANGED <<lead, Arrival!Workspace>>,
           RequestSound(w)', ~overlapped' => RequestStands(w)'
    PROVE  OnboardingInv'
BY OnboardingStep, TablesKept DEF Arrival!Workspace

LEMMA IdleSound ==
    ASSUME NEW w \in Worker, txn'[w].op = "idle"
    PROVE  RequestSound(w)' /\ RequestStands(w)'
BY DEF RequestSound, RequestStands

\* Fewer leads of the last day.
LEMMA FewerRecent ==
    ASSUME Arrival!ConstantsOK, Arrival!TypeOK, Arrival!Recent' \subseteq Arrival!Recent
    PROVE  /\ IsFiniteSet(Arrival!Recent) /\ Cardinality(Arrival!Recent) \in Nat
           /\ Cardinality(Arrival!Recent') \in Nat
           /\ Cardinality(Arrival!Recent') <= Cardinality(Arrival!Recent) /\ MaxRecent \in Nat
<1>1. Arrival!Recent \subseteq Lead /\ IsFiniteSet(Lead) /\ MaxRecent \in Nat
  BY ArrivalSets DEF Arrival!Recent, Arrival!Leads, Arrival!ConstantsOK
<1>2. QED
  BY <1>1, FS_Subset, FS_CardinalityType

LEMMA LeadsStep ==
    ASSUME Arrival!ConstantsOK, OnboardingInv, Arrival!TypeOK', NEW w \in Worker,
           UNCHANGED Arrival!Workspace,
           OthersStay(w), ~overlapped' => ~overlapped /\ OthersIdle(w), txn'[w].op = "idle",
           Arrival!CommitCreateLead(w) \/ \E l \in Lead : Arrival!UpdateLeadStatus(w, l)
    PROVE  OnboardingInv'
<1>. Arrival!TypeOK
  BY DEF OnboardingInv
<1>1. ASSUME Arrival!Leads \subseteq Arrival!Leads',
             \A l \in Arrival!Leads : lead'[l].tenant = lead[l].tenant,
             \A l \in Arrival!Leads' \ Arrival!Leads : lead'[l].tenant = NoTenant,
             ~overlapped' => Arrival!LeadsLimited'
      PROVE  OnboardingInv'
  <2>1. Arrival!LeadNamesTenant'
    BY <1>1 DEF OnboardingInv, Arrival!LeadNamesTenant, Arrival!Exists, Arrival!Workspace
  <2>2. ~overlapped => TenantsNamed'
    BY <1>1 DEF OnboardingInv, TenantsNamed, Arrival!Exists, Arrival!Workspace
  <2>3. Arrival!CompletedDated' /\ ContactsHaveTenant' /\ (~overlapped => PrimaryUnique')
    BY TablesKept DEF Arrival!Workspace
  <2>4. QED
    BY <1>1, <2>1, <2>2, <2>3, IdleSound, OnboardingStep
<1>2. ASSUME Arrival!CommitCreateLead(w)
      PROVE  OnboardingInv'
  <2>1. PICK l \in Lead \ Arrival!Leads :
            lead' = [lead EXCEPT ![l] = [status |-> "NEW", tenant |-> NoTenant, recent |-> TRUE]]
    BY <1>2 DEF Arrival!CommitCreateLead
  <2>2. /\ lead'[l] = [status |-> "NEW", tenant |-> NoTenant, recent |-> TRUE]
        /\ \A m \in Lead \ {l} : lead'[m] = lead[m]
    BY <2>1 DEF Arrival!TypeOK
  <2>3. lead'[l] # Arrival!None /\ lead'[l].tenant = NoTenant /\ lead'[l].recent
    BY <2>2 DEF Arrival!None
  <2>4. Arrival!Leads' = Arrival!Leads \cup {l} /\ Arrival!Recent' = Arrival!Recent \cup {l}
      /\ l \notin Arrival!Recent
    BY <2>2, <2>3 DEF Arrival!Leads, Arrival!Recent
  <2>5. ~overlapped' => Arrival!LeadsLimited'
    <3>1. ~overlapped' => Cardinality(Arrival!Recent) < MaxRecent
      BY <1>2 DEF OnboardingInv, RequestStands, Arrival!CommitCreateLead
    <3>2. IsFiniteSet(Arrival!Recent) /\ Cardinality(Arrival!Recent) \in Nat /\ MaxRecent \in Nat
      <4>1. Arrival!Recent \subseteq Lead /\ IsFiniteSet(Lead) /\ MaxRecent \in Nat
        BY ArrivalSets DEF Arrival!Recent, Arrival!Leads, Arrival!ConstantsOK
      <4>2. QED
        BY <4>1, FS_Subset, FS_CardinalityType
    <3>3. Cardinality(Arrival!Recent') = Cardinality(Arrival!Recent) + 1
      BY <2>4, <3>2, FS_AddElement
    <3>4. QED
      BY <3>1, <3>2, <3>3, ArrivalSets DEF Arrival!LeadsLimited
  <2>6. QED
    BY <1>1, <2>2, <2>3, <2>4, <2>5 DEF Arrival!Leads
<1>3. ASSUME NEW l \in Lead, Arrival!UpdateLeadStatus(w, l)
      PROVE  OnboardingInv'
  <2>1. PICK s : lead' = [lead EXCEPT ![l].status = s]
    BY <1>3 DEF Arrival!UpdateLeadStatus
  <2>2. l \in Arrival!Leads /\ lead[l] \in LeadLine
    BY <1>3, LinesTyped DEF Arrival!UpdateLeadStatus
  <2>3. lead' \in [Lead -> Arrival!LeadRow]
    BY DEF Arrival!TypeOK
  <2>4. /\ lead'[l].tenant = lead[l].tenant /\ lead'[l].recent = lead[l].recent
        /\ \A m \in Lead \ {l} : lead'[m] = lead[m]
    BY <2>1, <2>2 DEF Arrival!TypeOK, LeadLine
  <2>5. lead'[l] # Arrival!None
    <3>1. lead'[l] = [lead[l] EXCEPT !.status = s]
      BY <2>1 DEF Arrival!TypeOK
    <3>2. DOMAIN lead'[l] = {"status", "tenant", "recent"}
      BY <2>2, <3>1 DEF LeadLine
    <3>3. DOMAIN Arrival!None = {"status"}
      BY DEF Arrival!None
    <3>4. QED
      BY <3>2, <3>3
  <2>6. Arrival!Leads' = Arrival!Leads /\ Arrival!Recent' = Arrival!Recent
    BY <2>2, <2>4, <2>5 DEF Arrival!Leads, Arrival!Recent
  <2>7. ~overlapped' => Arrival!LeadsLimited'
    BY <2>6 DEF OnboardingInv, Arrival!LeadsLimited
  <2>8. QED
    BY <1>1, <2>4, <2>6, <2>7 DEF Arrival!Leads
<1>4. QED
  BY <1>2, <1>3

LEMMA ConvertStep ==
    ASSUME Arrival!ConstantsOK, OnboardingInv, Arrival!TypeOK', NEW w \in Worker,
           Arrival!CommitConvert(w),
           OthersStay(w), ~overlapped' => ~overlapped /\ OthersIdle(w), txn'[w].op = "idle"
    PROVE  OnboardingInv'
<1>. PICK l : l = txn[w].lead
  OBVIOUS
<1>. Arrival!TypeOK /\ (~overlapped => RequestStands(w))
  BY DEF OnboardingInv
<1>1. l \in Arrival!Leads /\ l \in Lead
  BY OnboardingRequestTyped DEF Arrival!CommitConvert, OnboardingInv, RequestSound
<1>2. PICK t \in Tenant, c \in Contact, first \in SUBSET Task :
        /\ tenant[t] = Arrival!None /\ contact[c] = Arrival!None
        /\ \A k \in first : task[k] = Arrival!None
        /\ tenant' = [tenant EXCEPT ![t] = [status |-> "LIVE", from |-> l]]
        /\ contact' = [contact EXCEPT
               ![c] = [status |-> "LIVE", tenant |-> t, isPrimary |-> TRUE]]
        /\ task' = [k \in Task |->
               IF k \in first
               THEN [status |-> "OPEN", tenant |-> t, completedAt |-> FALSE]
               ELSE task[k]]
        /\ lead' = [lead EXCEPT ![l].status = "ACCESS_SENT", ![l].tenant = t]
  BY DEF Arrival!CommitConvert, Arrival!kSubset
<1>3. lead[l] \in LeadLine
  BY <1>1, LinesTyped
<1>4. lead'[l] = [[lead[l] EXCEPT !.status = "ACCESS_SENT"] EXCEPT !.tenant = t]
  BY <1>1, <1>2 DEF Arrival!TypeOK
<1>5. /\ lead'[l].status = "ACCESS_SENT" /\ lead'[l].tenant = t
      /\ lead'[l].recent = lead[l].recent /\ \A m \in Lead \ {l} : lead'[m] = lead[m]
  BY <1>1, <1>2, <1>3, <1>4 DEF Arrival!TypeOK, LeadLine
<1>6. Arrival!Leads' = Arrival!Leads /\ Arrival!Recent' = Arrival!Recent
  <2>1. lead'[l] # Arrival!None
    BY <1>5 DEF Arrival!None
  <2>2. QED
    BY <1>1, <1>5, <2>1 DEF Arrival!Leads, Arrival!Recent
<1>7. /\ tenant'[t].status = "LIVE" /\ tenant'[t].from = l
      /\ \A u \in Tenant \ {t} : tenant'[u] = tenant[u]
  BY <1>2 DEF Arrival!TypeOK
<1>8. ~Arrival!Exists(t)
  BY <1>2 DEF Arrival!Exists, Arrival!None
<1>9. \A u \in Tenant : Arrival!Exists(u) =>
    Arrival!Exists(u)' /\ u # t /\ tenant'[u].from = tenant[u].from
  BY <1>7, <1>8 DEF Arrival!Exists
<1>10. \A u \in Tenant : Arrival!Exists(u)' => u = t \/ Arrival!Exists(u)
  BY <1>7 DEF Arrival!Exists
<1>11. t # NoTenant
  BY DEF Arrival!ConstantsOK
<1>12. Arrival!LeadNamesTenant'
  <2>1. ASSUME NEW m \in Arrival!Leads, lead'[m].tenant # NoTenant
        PROVE  tenant'[lead'[m].tenant].status = "LIVE" /\ tenant'[lead'[m].tenant].from = m
    <3>1. CASE m = l
      BY <1>5, <1>7, <3>1 DEF Arrival!Exists
    <3>2. CASE m # l
      <4>1. lead'[m] = lead[m] /\ lead[m] \in LeadLine
        BY <1>5, <3>2, LinesTyped
      <4>2. Arrival!Exists(lead[m].tenant) /\ tenant[lead[m].tenant].from = m
          /\ lead[m].tenant \in Tenant
        BY <2>1, <4>1 DEF OnboardingInv, Arrival!LeadNamesTenant, LeadLine
      <4>3. QED
        BY <1>9, <4>1, <4>2 DEF Arrival!Exists
    <3>3. QED
      BY <3>1, <3>2
  <2>2. QED
    BY <1>6, <2>1 DEF Arrival!LeadNamesTenant, Arrival!Exists
<1>13. ~overlapped => TenantsNamed'
  <2>1. ASSUME ~overlapped, NEW u \in Tenant, Arrival!Exists(u)'
        PROVE  tenant'[u].from \in Arrival!Leads' /\ lead'[tenant'[u].from].tenant = u
    <3>1. CASE u = t
      BY <1>1, <1>5, <1>6, <1>7, <3>1
    <3>2. CASE u # t
      <4>1. /\ tenant[u].from \in Arrival!Leads /\ lead[tenant[u].from].tenant = u
            /\ tenant'[u].from = tenant[u].from
        BY <1>9, <1>10, <2>1, <3>2 DEF OnboardingInv, TenantsNamed
      <4>2. lead[l].tenant = NoTenant
        BY <2>1 DEF RequestStands, Arrival!CommitConvert
      <4>3. tenant[u].from # l /\ tenant[u].from \in Lead
        BY <4>1, <4>2, LinesTyped DEF Arrival!ConstantsOK
      <4>4. QED
        BY <1>5, <1>6, <4>1, <4>3
    <3>3. QED
      BY <3>1, <3>2
  <2>2. QED
    BY <2>1 DEF TenantsNamed
<1>14. Arrival!CompletedDated'
  <2>1. \A k \in first : k \notin Arrival!Tasks
    BY <1>2 DEF Arrival!Tasks, Arrival!None, Arrival!TaskStatus
  <2>2. \A k \in first : task'[k].status = "OPEN" /\ ~task'[k].completedAt
    BY <1>2
  <2>3. \A k \in Task \ first : task'[k] = task[k]
    BY <1>2
  <2>4. UNCHANGED dated
    BY DEF Arrival!CommitConvert
  <2>5. QED
    BY <2>2, <2>3, <2>4 DEF OnboardingInv, Arrival!CompletedDated, Arrival!Tasks
<1>15. /\ contact'[c].status = "LIVE" /\ contact'[c].tenant = t
       /\ \A d \in Contact \ {c} : contact'[d] = contact[d]
  BY <1>2 DEF Arrival!TypeOK
<1>16. \A d \in Contact : contact[d].status = "LIVE" => contact[d].tenant \in Tenant
  BY LinesTyped DEF ContactLine
<1>17. ContactsHaveTenant'
  <2>1. ASSUME NEW d \in Contact, contact'[d].status = "LIVE"
        PROVE  tenant'[contact'[d].tenant].status = "LIVE"
    <3>1. CASE d = c
      BY <1>7, <1>15, <3>1 DEF Arrival!Exists
    <3>2. CASE d # c
      BY <1>9, <1>15, <1>16, <2>1, <3>2 DEF OnboardingInv, ContactsHaveTenant, Arrival!Exists
    <3>3. QED
      BY <3>1, <3>2
  <2>2. QED
    BY <2>1 DEF ContactsHaveTenant, Arrival!Exists
<1>18. ~overlapped => PrimaryUnique'
  <2>1. \A d \in Contact \ {c} : contact'[d].status = "LIVE" => contact'[d].tenant # t
    BY <1>8, <1>15 DEF OnboardingInv, ContactsHaveTenant
  <2>2. QED
    BY <1>15, <2>1 DEF OnboardingInv, PrimaryUnique
<1>19. ~overlapped => Arrival!LeadsLimited'
  BY <1>6 DEF OnboardingInv, Arrival!LeadsLimited
<1>20. QED
  BY <1>6, <1>12, <1>13, <1>14, <1>17, <1>18, <1>19, IdleSound, OnboardingStep

LEMMA DeleteStep ==
    ASSUME Arrival!ConstantsOK, OnboardingInv, Arrival!TypeOK', NEW w \in Worker,
           NEW t \in Tenant,
           Arrival!DeleteTenant(w, t), OthersStay(w),
           ~overlapped' => ~overlapped /\ OthersIdle(w),
           txn'[w].op = "idle"
    PROVE  OnboardingInv'
<1>. Arrival!TypeOK
  BY DEF OnboardingInv
<1>1. \A l \in Arrival!Leads : lead[l].tenant = t =>
          /\ lead'[l] = [lead[l] EXCEPT !.tenant = NoTenant] /\ lead[l] \in LeadLine
  BY LinesTyped DEF Arrival!DeleteTenant, Arrival!Leads
<1>2. \A l \in Arrival!Leads : lead[l].tenant = t =>
          /\ lead'[l].tenant = NoTenant /\ lead'[l].recent = lead[l].recent
          /\ lead'[l].status = lead[l].status /\ lead[l].status \in Arrival!LeadStatus
  BY <1>1 DEF LeadLine
<1>3. \A l \in Lead : l \notin Arrival!Leads \/ lead[l].tenant # t => lead'[l] = lead[l]
  BY DEF Arrival!DeleteTenant
<1>4. Arrival!Leads' = Arrival!Leads
  <2>1. \A l \in Arrival!Leads : lead'[l] # Arrival!None
    BY <1>2, <1>3 DEF Arrival!Leads, Arrival!None, Arrival!LeadStatus
  <2>2. QED
    BY <1>3, <2>1 DEF Arrival!Leads
<1>5. Arrival!Recent' = Arrival!Recent
  BY <1>2, <1>3, <1>4, LinesTyped DEF Arrival!Recent
<1>6. ~Arrival!Exists(t)' /\ \A u \in Tenant \ {t} : tenant'[u] = tenant[u]
  BY DEF Arrival!DeleteTenant, Arrival!Exists, Arrival!TypeOK
<1>7. Arrival!LeadNamesTenant'
  <2>1. ASSUME NEW l \in Arrival!Leads, lead'[l].tenant # NoTenant
        PROVE  tenant'[lead'[l].tenant].status = "LIVE" /\ tenant'[lead'[l].tenant].from = l
    <3>1. lead'[l] = lead[l] /\ lead[l].tenant # t /\ lead[l].tenant \in Tenant
      BY <1>2, <1>3, <2>1, LinesTyped DEF LeadLine
    <3>2. QED
      BY <1>6, <2>1, <3>1 DEF OnboardingInv, Arrival!LeadNamesTenant, Arrival!Exists
  <2>2. QED
    BY <1>4, <2>1 DEF Arrival!LeadNamesTenant, Arrival!Exists
<1>8. ~overlapped => TenantsNamed'
  <2>1. ASSUME ~overlapped, NEW u \in Tenant, Arrival!Exists(u)'
        PROVE  tenant'[u].from \in Arrival!Leads' /\ lead'[tenant'[u].from].tenant = u
    <3>1. u # t /\ Arrival!Exists(u) /\ tenant'[u] = tenant[u]
      BY <1>6, <2>1 DEF Arrival!Exists
    <3>2. tenant[u].from \in Arrival!Leads /\ lead[tenant[u].from].tenant = u
      BY <2>1, <3>1 DEF OnboardingInv, TenantsNamed
    <3>3. QED
      BY <1>3, <1>4, <3>1, <3>2, LinesTyped
  <2>2. QED
    BY <2>1 DEF TenantsNamed
<1>9. Arrival!CompletedDated'
  <2>1. \A k \in Task : task'[k] = task[k] \/ task'[k].status = "DELETED"
    BY DEF Arrival!DeleteTenant
  <2>2. UNCHANGED dated
    BY DEF Arrival!DeleteTenant
  <2>3. QED
    BY <2>1, <2>2 DEF OnboardingInv, Arrival!CompletedDated, Arrival!Tasks, Arrival!TaskStatus
<1>10. /\ \A c \in Contact : contact'[c] = contact[c] \/ contact'[c].status = "DELETED"
       /\ \A c \in Contact : contact'[c].status = "LIVE" =>
              contact'[c] = contact[c] /\ contact[c].tenant # t
  BY DEF Arrival!DeleteTenant, Arrival!ContactsOf
<1>11. ContactsHaveTenant'
  <2>1. ASSUME NEW c \in Contact, contact'[c].status = "LIVE"
        PROVE  tenant'[contact'[c].tenant].status = "LIVE"
    <3>1. contact'[c] = contact[c] /\ contact[c].tenant # t /\ contact[c].tenant \in Tenant
      BY <1>10, <2>1, LinesTyped DEF ContactLine
    <3>2. QED
      BY <1>6, <2>1, <3>1 DEF OnboardingInv, ContactsHaveTenant, Arrival!Exists
  <2>2. QED
    BY <2>1 DEF ContactsHaveTenant, Arrival!Exists
<1>12. ~overlapped => PrimaryUnique'
  BY <1>10 DEF OnboardingInv, PrimaryUnique
<1>13. ~overlapped => Arrival!LeadsLimited'
  BY <1>5 DEF OnboardingInv, Arrival!LeadsLimited
<1>14. QED
  BY <1>4, <1>7, <1>8, <1>9, <1>11, <1>12, <1>13, IdleSound, OnboardingStep

\* A write to the contacts: which are live, their tenants and the primary ones.
LEMMA ContactsStep ==
    ASSUME OnboardingInv, Arrival!TypeOK', NEW w \in Worker, OthersStay(w),
           ~overlapped' => ~overlapped /\ OthersIdle(w), txn'[w].op = "idle",
           UNCHANGED <<lead, tenant, account, task, dated>>, ContactsHaveTenant',
           ~overlapped => PrimaryUnique'
    PROVE  OnboardingInv'
BY TablesKept, IdleSound, OnboardingStep

LEMMA TasksStep ==
    ASSUME OnboardingInv, Arrival!TypeOK', NEW w \in Worker, OthersStay(w),
           ~overlapped' => ~overlapped /\ OthersIdle(w), txn'[w].op = "idle",
           UNCHANGED <<lead, tenant, account, contact>>, Arrival!CompletedDated'
    PROVE  OnboardingInv'
BY TablesKept, IdleSound, OnboardingStep


\* Which contacts are live, and whose, stays; one of them may have become the primary one.
LEMMA OnePrimaryLeft ==
    ASSUME OnboardingInv, ~overlapped, NEW c \in Contact, NEW t \in Tenant,
           contact'[c].tenant = t, NEW cs,
           \A d \in Contact \ {c} :
               /\ contact'[d].status = contact[d].status
               /\ contact[d].status = "LIVE" =>
                     /\ contact'[d].tenant = contact[d].tenant
                     /\ contact'[d].isPrimary => contact[d].isPrimary /\ d \notin cs,
           contact'[c].isPrimary => cs = Arrival!ContactsOf(t)
    PROVE  PrimaryUnique'
<1>1. ASSUME NEW d \in Contact, NEW e \in Contact, d # c, e # c,
             contact'[d].status = "LIVE", contact'[e].status = "LIVE",
             contact'[d].tenant = contact'[e].tenant,
             contact'[d].isPrimary, contact'[e].isPrimary
      PROVE  d = e
  BY <1>1 DEF OnboardingInv, PrimaryUnique
<1>2. ASSUME NEW d \in Contact \ {c}, contact'[d].status = "LIVE",
             contact'[d].tenant = t, contact'[d].isPrimary
      PROVE  ~contact'[c].isPrimary
  <2>1. contact[d].status = "LIVE" /\ contact[d].tenant = t /\ d \notin cs
    BY <1>2
  <2>2. d \in Arrival!ContactsOf(t)
    BY <2>1 DEF Arrival!ContactsOf
  <2>3. QED
    BY <2>1, <2>2
<1>3. QED
  BY <1>1, <1>2 DEF PrimaryUnique

LEMMA NextOnboarding ==
    ASSUME Arrival!ConstantsOK, OnboardingInv, [Arrival!Next]_Arrival!vars
    PROVE  OnboardingInv'
<1>. /\ Arrival!TypeOK /\ Arrival!TypeOK' /\ Alone /\ txn \in [Worker -> Arrival!Txn]
     /\ \A w \in Worker : RequestSound(w) /\ (~overlapped => RequestStands(w))
  BY OnboardingTyped DEF OnboardingInv, Arrival!TypeOK
<1>1. CASE UNCHANGED Arrival!vars
  <2>1. UNCHANGED <<lead, tenant, account, contact, task, dated, txn, overlapped>>
    BY <1>1 DEF Arrival!vars
  <2>2. /\ Arrival!LeadNamesTenant' /\ Arrival!CompletedDated' /\ ContactsHaveTenant'
        /\ ~overlapped' => TenantsNamed' /\ PrimaryUnique' /\ Arrival!LeadsLimited'
    BY <2>1, TablesKept
  <2>3. \A w \in Worker : RequestSound(w)' /\ (~overlapped' => RequestStands(w)')
    BY <2>1
    DEF RequestSound, RequestStands, Arrival!Leads, Arrival!Recent, Arrival!Tasks,
        Arrival!ContactsOf, TenantOf
  <2>4. Alone'
    BY <2>1 DEF Alone
  <2>5. QED
    BY <2>2, <2>3, <2>4 DEF OnboardingInv
<1>2. ASSUME NEW w \in Worker, NEW t,
             Arrival!Begin(w, t) \/ (Arrival!Continue(w, t) /\ txn[w].op # "idle")
      PROVE  txn'[w] = t /\ OthersStay(w) /\ (~overlapped' => ~overlapped /\ OthersIdle(w))
  BY <1>2, OwnSteps, ArrivalRequests
<1>3. ASSUME NEW w \in Worker, (Arrival!Done(w) /\ txn[w].op # "idle") \/ Arrival!AtOnce(w)
      PROVE  /\ txn'[w].op = "idle" /\ OthersStay(w)
             /\ ~overlapped' => ~overlapped /\ OthersIdle(w)
  <2>1. CASE Arrival!Done(w) /\ txn[w].op # "idle"
    BY <1>2, <2>1 DEF Arrival!Done, Arrival!Idle
  <2>2. CASE Arrival!AtOnce(w)
    BY <2>2, Steps, ArrivalRequests DEF OthersStay
  <2>3. QED
    BY <1>3, <2>1, <2>2
<1>4. ASSUME NEW w \in Worker, Arrival!Abort(w)
      PROVE  OnboardingInv'
  <2>1. txn[w].op # "idle" /\ Arrival!Done(w)
    BY <1>4 DEF Arrival!Abort, Arrival!Txn, Arrival!Idle
  <2>2. QED
    BY <1>3, <1>4, <2>1, IdleSound, ReadingKept DEF Arrival!Abort
<1>5. ASSUME NEW w \in Worker, Arrival!ReadCreateLead(w)
      PROVE  OnboardingInv'
  <2>1. /\ Arrival!Begin(w, [op |-> "send"]) /\ UNCHANGED <<lead, Arrival!Workspace>>
        /\ ~(Cardinality(Arrival!Recent) >= MaxRecent)
    BY <1>5, ArrivalSets DEF Arrival!ReadCreateLead, Arrival!LimitReached
  <2>2. txn'[w].op = "send" /\ Arrival!Recent' = Arrival!Recent
    BY <1>2, <2>1, TablesKept
  <2>3. Cardinality(Arrival!Recent) < MaxRecent
    BY <2>1, <2>2, FewerRecent
  <2>4. RequestSound(w)' /\ RequestStands(w)'
    BY <2>2, <2>3 DEF RequestSound, RequestStands
  <2>5. QED
    BY <1>2, <2>1, <2>4, ReadingKept
<1>6. ASSUME NEW w \in Worker,
             Arrival!CommitCreateLead(w) \/ \E l \in Lead : Arrival!UpdateLeadStatus(w, l)
      PROVE  OnboardingInv'
  BY <1>3, <1>6, LeadsStep DEF Arrival!CommitCreateLead, Arrival!UpdateLeadStatus
<1>7. ASSUME NEW w \in Worker, NEW l \in Lead, Arrival!ReadConvert(w, l)
      PROVE  OnboardingInv'
  <2>1. PICK o, known :
            Arrival!Begin(w, [op |-> "convert", lead |-> l, owner |-> o, known |-> known])
    BY <1>7 DEF Arrival!ReadConvert
  <2>2. /\ l \in Arrival!Leads /\ lead[l].tenant = NoTenant
        /\ UNCHANGED <<lead, Arrival!Workspace>>
    BY <1>7 DEF Arrival!ReadConvert, Arrival!Convertible
  <2>3. txn'[w].op = "convert" /\ txn'[w].lead = l
    BY <1>2, <2>1
  <2>4. RequestSound(w)' /\ RequestStands(w)'
    BY <2>2, <2>3, TablesKept DEF RequestSound, RequestStands
  <2>5. QED
    BY <1>2, <2>1, <2>2, <2>4, ReadingKept
<1>8. ASSUME NEW w \in Worker, Arrival!CommitConvert(w)
      PROVE  OnboardingInv'
  BY <1>3, <1>8, ConvertStep DEF Arrival!CommitConvert
<1>9. ASSUME NEW w \in Worker, NEW t \in Tenant, Arrival!DeleteTenant(w, t)
      PROVE  OnboardingInv'
  BY <1>3, <1>9, DeleteStep DEF Arrival!DeleteTenant
<1>10. ASSUME NEW w \in Worker, NEW op \in {"createContact", "updateContact"}, NEW t,
              Arrival!Begin(w, t), t.op = op, t.step = "read",
              UNCHANGED <<lead, Arrival!Workspace>>
       PROVE  OnboardingInv'
  <2>1. txn'[w].op = op /\ txn'[w].step = "read"
    BY <1>2, <1>10
  <2>2. RequestSound(w)' /\ RequestStands(w)'
    BY <2>1 DEF RequestSound, RequestStands
  <2>3. QED
    BY <1>2, <1>10, <2>2, ReadingKept
<1>11. ASSUME NEW w \in Worker, NEW t \in Tenant, Arrival!ReadCreateContact(w, t)
       PROVE  OnboardingInv'
  <2>1. PICK p \in BOOLEAN :
      Arrival!Begin(w, [op |-> "createContact", step |-> "read", tenant |-> t,
                                       isPrimary |-> p, others |-> {}])
    BY <1>11 DEF Arrival!ReadCreateContact
  <2>2. QED
    BY <1>10, <1>11, <2>1 DEF Arrival!ReadCreateContact
<1>12. ASSUME NEW w \in Worker, NEW c \in Contact, Arrival!ReadUpdateContact(w, c)
       PROVE  OnboardingInv'
  <2>1. PICK p \in BOOLEAN :
      Arrival!Begin(w, [op |-> "updateContact", step |-> "read", contact |-> c,
                                       isPrimary |-> p, others |-> {}])
    BY <1>12 DEF Arrival!ReadUpdateContact
  <2>2. QED
    BY <1>10, <1>12, <2>1 DEF Arrival!ReadUpdateContact
<1>13. ASSUME NEW w \in Worker, Arrival!ClearPrimary(w)
       PROVE  OnboardingInv'
  <2>1. PICK os : /\ Arrival!Continue(w, [txn[w] EXCEPT !.step = "cleared", !.others = os])
                  /\ txn[w].isPrimary => os = Arrival!ContactsOf(TenantOf(txn[w]))
    BY <1>13 DEF Arrival!ClearPrimary, Arrival!Others, TenantOf
  <2>2. /\ txn[w].op \in {"createContact", "updateContact"}
        /\ UNCHANGED <<lead, Arrival!Workspace>>
    BY <1>13 DEF Arrival!ClearPrimary
  <2>3. txn'[w] = [txn[w] EXCEPT !.step = "cleared", !.others = os]
    BY <1>2, <2>1, <2>2
  <2>4. /\ txn'[w].op = txn[w].op /\ txn'[w].isPrimary = txn[w].isPrimary
        /\ txn'[w].others = os
        /\ txn[w].op = "createContact" => txn'[w].tenant = txn[w].tenant
        /\ txn[w].op = "updateContact" => txn'[w].contact = txn[w].contact
    <3>1. CASE txn[w].op = "createContact"
      BY <2>3, <3>1, OnboardingRequestTyped
    <3>2. CASE txn[w].op = "updateContact"
      BY <2>3, <3>2, OnboardingRequestTyped
    <3>3. QED
      BY <2>2, <3>1, <3>2
  <2>5. contact' = contact /\ \A t : Arrival!ContactsOf(t)' = Arrival!ContactsOf(t)
    BY <2>2 DEF Arrival!ContactsOf, Arrival!Workspace
  <2>6. RequestSound(w)' /\ RequestStands(w)'
    <3>1. PICK t : t = TenantOf(txn[w])
      OBVIOUS
    <3>2. TenantOf(txn[w])' = t
      BY <2>2, <2>4, <2>5, <3>1 DEF TenantOf
    <3>3. txn'[w].isPrimary => txn'[w].others = Arrival!ContactsOf(t)'
      BY <2>1, <2>4, <2>5, <3>1
    <3>4. RequestSound(w)'
      BY <2>2, <2>4 DEF RequestSound
    <3>5. QED
      BY <2>2, <2>4, <3>2, <3>3, <3>4 DEF RequestStands
  <2>7. QED
    BY <1>2, <2>1, <2>2, <2>6, ReadingKept
<1>14. ASSUME NEW w \in Worker, Arrival!CommitCreateContact(w)
       PROVE  OnboardingInv'
  <2>. PICK t, p, os : t = txn[w].tenant /\ p = txn[w].isPrimary /\ os = txn[w].others
    OBVIOUS
  <2>1. p \in BOOLEAN /\ t \in Tenant /\ Arrival!Exists(t) /\ txn[w].op = "createContact"
      /\ txn[w].step = "cleared"
    BY <1>14, OnboardingRequestTyped DEF Arrival!CommitCreateContact
  <2>2. PICK c \in Contact : contact' = [Arrival!Cleared(os) EXCEPT
                                 ![c] = [status |-> "LIVE", tenant |-> t, isPrimary |-> p]]
    BY <1>14 DEF Arrival!CommitCreateContact
  <2>3. contact'[c].status = "LIVE" /\ contact'[c].tenant = t /\ (contact'[c].isPrimary => p)
    BY <2>2, ClearedRows
  <2>4. \A d \in Contact \ {c} :
            /\ contact'[d].status = contact[d].status
            /\ contact[d].status = "LIVE" =>
                  /\ contact'[d].tenant = contact[d].tenant
                  /\ contact'[d].isPrimary => contact[d].isPrimary /\ d \notin os
    <3>1. \A d \in Contact \ {c} : contact'[d] = Arrival!Cleared(os)[d]
      BY <2>2, ClearedRows
    <3>2. QED
      BY <3>1, ClearedRows
  <2>5. UNCHANGED <<lead, tenant, account, task, dated>> /\ Arrival!Done(w)
    BY <1>14 DEF Arrival!CommitCreateContact
  <2>6. ContactsHaveTenant'
    BY <2>1, <2>3, <2>4, <2>5 DEF OnboardingInv, ContactsHaveTenant, Arrival!Exists
  <2>7. ASSUME ~overlapped
        PROVE  PrimaryUnique'
    <3>1. p => os = Arrival!ContactsOf(t)
      BY <2>1, <2>7 DEF RequestStands, TenantOf
    <3>2. contact'[c].tenant = t /\ (contact'[c].isPrimary => os = Arrival!ContactsOf(t))
      BY <2>3, <3>1
    <3>3. t \in Tenant
      BY <2>1
    <3>4. QED
      BY <2>4, <2>7, <3>2, <3>3, OnePrimaryLeft
  <2>8. QED
    BY <1>3, <2>1, <2>5, <2>6, <2>7, ContactsStep
<1>15. ASSUME NEW w \in Worker, Arrival!CommitUpdateContact(w)
       PROVE  OnboardingInv'
  <2>0. PICK c \in Contact, p \in BOOLEAN, os \in SUBSET Contact :
           c = txn[w].contact /\ p = txn[w].isPrimary /\ os = txn[w].others
    BY <1>15, OnboardingRequestTyped DEF Arrival!CommitUpdateContact
  <2>1. /\ contact[c].status = "LIVE"
        /\ txn[w].op = "updateContact" /\ txn[w].step = "cleared"
    BY <1>15, <2>0 DEF Arrival!CommitUpdateContact
  <2>2. PICK t \in Tenant : t = contact[c].tenant /\ Arrival!Exists(t)
    BY <2>1, LinesTyped DEF OnboardingInv, ContactsHaveTenant, ContactLine
  <2>3. contact' = [Arrival!Cleared(os) EXCEPT ![c].isPrimary = p]
    BY <1>15, <2>0 DEF Arrival!CommitUpdateContact
  <2>4. Arrival!Cleared(os)[c] \in ContactLine /\ Arrival!Cleared(os)[c].tenant = t
    BY <2>1, <2>2, ClearedRows
  <2>5. contact'[c] = [Arrival!Cleared(os)[c] EXCEPT !.isPrimary = p]
    BY <2>1, <2>3, ClearedRows
  <2>6. contact'[c].status = "LIVE" /\ contact'[c].tenant = t /\ (contact'[c].isPrimary => p)
    BY <2>4, <2>5 DEF ContactLine
  <2>7. \A d \in Contact \ {c} :
            /\ contact'[d].status = contact[d].status
            /\ contact[d].status = "LIVE" =>
                  /\ contact'[d].tenant = contact[d].tenant
                  /\ contact'[d].isPrimary => contact[d].isPrimary /\ d \notin os
    <3>1. \A d \in Contact \ {c} : contact'[d] = Arrival!Cleared(os)[d]
      BY <2>3, ClearedRows
    <3>2. QED
      BY <3>1, ClearedRows
  <2>8. UNCHANGED <<lead, tenant, account, task, dated>> /\ Arrival!Done(w)
    BY <1>15 DEF Arrival!CommitUpdateContact
  <2>9. ContactsHaveTenant'
    BY <2>2, <2>6, <2>7, <2>8 DEF OnboardingInv, ContactsHaveTenant, Arrival!Exists
  <2>10. ASSUME ~overlapped
         PROVE  PrimaryUnique'
    <3>1. p => os = Arrival!ContactsOf(t)
      BY <2>0, <2>1, <2>2, <2>10 DEF RequestStands, TenantOf
    <3>2. contact'[c].tenant = t /\ (contact'[c].isPrimary => os = Arrival!ContactsOf(t))
      BY <2>6, <3>1
    <3>3. QED
      BY <2>7, <2>10, <3>2, OnePrimaryLeft
  <2>11. QED
    BY <1>3, <2>1, <2>8, <2>9, <2>10, ContactsStep
<1>16. ASSUME NEW w \in Worker, NEW c \in Contact, Arrival!DeleteContact(w, c)
       PROVE  OnboardingInv'
  <2>1. /\ contact'[c].status = "DELETED" /\ \A d \in Contact \ {c} : contact'[d] = contact[d]
        /\ UNCHANGED <<lead, tenant, account, task, dated>> /\ Arrival!AtOnce(w)
    BY <1>16 DEF Arrival!DeleteContact, Arrival!TypeOK
  <2>2. ContactsHaveTenant' /\ (~overlapped => PrimaryUnique')
    BY <2>1 DEF OnboardingInv, ContactsHaveTenant, PrimaryUnique, Arrival!Exists
  <2>3. QED
    BY <1>3, <2>1, <2>2, ContactsStep
<1>17. ASSUME NEW w \in Worker, NEW t \in Tenant, Arrival!CreateTask(w, t)
       PROVE  OnboardingInv'
  <2>1. PICK k \in Task, s \in Arrival!TaskStatus :
            task' = [task EXCEPT ![k] =
                [status |-> s, tenant |-> t, completedAt |-> s = "COMPLETED"]]
    BY <1>17 DEF Arrival!CreateTask
  <2>2. /\ task'[k].status = s /\ (task'[k].completedAt <=> s = "COMPLETED")
        /\ \A j \in Task \ {k} : task'[j] = task[j]
    BY <2>1 DEF Arrival!TypeOK
  <2>3. UNCHANGED <<lead, tenant, account, contact, dated>> /\ Arrival!AtOnce(w)
    BY <1>17 DEF Arrival!CreateTask
  <2>4. Arrival!CompletedDated'
    BY <2>2, <2>3 DEF OnboardingInv, Arrival!CompletedDated, Arrival!Tasks
  <2>5. QED
    BY <1>3, <2>3, <2>4, TasksStep
<1>18. ASSUME NEW w \in Worker, NEW k \in Task, Arrival!ReadUpdateTask(w, k)
       PROVE  OnboardingInv'
  <2>1. PICK named, dating, date \in BOOLEAN, s \in Arrival!TaskStatus :
            /\ ~named => s = task[k].status
            /\ ~dating => date = (s = "COMPLETED")
            /\ Arrival!Begin(w, [op |-> "updateTask", task |-> k, named |-> named, status |-> s,
                         completedAt |-> date, dated |-> dating])
    BY <1>18 DEF Arrival!ReadUpdateTask, Arrival!StatusUnnamed, Arrival!CompletedAt
  <2>2. k \in Arrival!Tasks /\ UNCHANGED <<lead, Arrival!Workspace>>
    BY <1>18 DEF Arrival!ReadUpdateTask
  <2>3. txn'[w] = [op |-> "updateTask", task |-> k, named |-> named, status |-> s,
                   completedAt |-> date, dated |-> dating]
    BY <1>2, <2>1
  <2>4. Arrival!Tasks' = Arrival!Tasks /\ task' = task
    BY <2>2 DEF Arrival!Tasks, Arrival!Workspace
  <2>5. RequestSound(w)' /\ RequestStands(w)'
    BY <2>1, <2>2, <2>3, <2>4 DEF RequestSound, RequestStands
  <2>6. QED
    BY <1>2, <2>1, <2>2, <2>5, ReadingKept
<1>19. ASSUME NEW w \in Worker, Arrival!CommitUpdateTask(w)
       PROVE  OnboardingInv'
  <2>. PICK k, s, date, dating :
           /\ k = txn[w].task /\ s = txn[w].status /\ date = txn[w].completedAt
           /\ dating = txn[w].dated
    OBVIOUS
  <2>1. /\ k \in Arrival!Tasks /\ k \in Task /\ txn[w].op = "updateTask" /\ dating \in BOOLEAN
        /\ date \in BOOLEAN /\ (~dating => (date <=> s = "COMPLETED"))
    BY <1>19, OnboardingRequestTyped, LinesTyped DEF Arrival!CommitUpdateTask, RequestSound
  <2>2. task[k] \in TaskLine
    BY <2>1, LinesTyped
  <2>3. task' = [task EXCEPT ![k].status = s, ![k].completedAt = date]
    BY <1>19 DEF Arrival!CommitUpdateTask
  <2>4. /\ task'[k] = [[task[k] EXCEPT !.status = s] EXCEPT !.completedAt = date]
        /\ \A j \in Task \ {k} : task'[j] = task[j]
    BY <2>1, <2>3 DEF Arrival!TypeOK
  <2>5. task'[k].status = s /\ task'[k].completedAt = date
    BY <2>2, <2>4 DEF TaskLine
  <2>6. /\ dated' = IF dating THEN dated \cup {k} ELSE dated \ {k}
        /\ UNCHANGED <<lead, tenant, account, contact>> /\ Arrival!Done(w)
    BY <1>19 DEF Arrival!CommitUpdateTask
  <2>7. Arrival!CompletedDated'
    <3>1. ASSUME NEW j \in Arrival!Tasks' \ dated'
          PROVE  task'[j].completedAt <=> task'[j].status = "COMPLETED"
      <4>1. CASE j = k
        BY <2>1, <2>5, <2>6, <3>1, <4>1
      <4>2. CASE j # k
        <5>1. j \in Task /\ task'[j] = task[j]
          BY <2>4, <4>2 DEF Arrival!Tasks
        <5>2. j \in Arrival!Tasks \ dated
          BY <2>6, <4>2, <5>1 DEF Arrival!Tasks
        <5>3. QED
          BY <5>1, <5>2 DEF OnboardingInv, Arrival!CompletedDated
      <4>3. QED
        BY <4>1, <4>2
    <3>2. QED
      BY <3>1 DEF Arrival!CompletedDated
  <2>8. QED
    BY <1>3, <2>1, <2>6, <2>7, TasksStep
<1>20. ASSUME NEW w \in Worker, NEW k \in Task, Arrival!DeleteTask(w, k)
       PROVE  OnboardingInv'
  <2>1. /\ task'[k].status = "DELETED" /\ \A j \in Task \ {k} : task'[j] = task[j]
        /\ UNCHANGED <<lead, tenant, account, contact, dated>> /\ Arrival!AtOnce(w)
    BY <1>20 DEF Arrival!DeleteTask, Arrival!TypeOK
  <2>2. Arrival!CompletedDated'
    BY <2>1 DEF OnboardingInv, Arrival!CompletedDated, Arrival!Tasks, Arrival!TaskStatus
  <2>3. QED
    BY <1>3, <2>1, <2>2, TasksStep
<1>21. ASSUME NEW l \in Lead, Arrival!Age(l)
       PROVE  OnboardingInv'
  <2>1. /\ l \in Arrival!Leads /\ lead' = [lead EXCEPT ![l].recent = FALSE]
        /\ UNCHANGED <<tenant, account, contact, task, dated, txn, overlapped>>
    BY <1>21 DEF Arrival!Age, Arrival!Recent, Arrival!Workspace
  <2>2. lead[l] \in LeadLine /\ l \in Lead
    BY <2>1, LinesTyped
  <2>3. /\ lead'[l] = [lead[l] EXCEPT !.recent = FALSE]
        /\ \A m \in Lead \ {l} : lead'[m] = lead[m]
    BY <2>1, <2>2 DEF Arrival!TypeOK
  <2>4. /\ lead'[l].tenant = lead[l].tenant /\ lead'[l].recent = FALSE
        /\ lead'[l].status = lead[l].status
    BY <2>2, <2>3 DEF LeadLine
  <2>5. lead'[l] # Arrival!None
    BY <2>2, <2>4 DEF LeadLine, Arrival!LeadStatus, Arrival!None
  <2>6. Arrival!Leads' = Arrival!Leads /\ Arrival!Recent' \subseteq Arrival!Recent
    BY <2>1, <2>3, <2>4, <2>5 DEF Arrival!Leads, Arrival!Recent
  <2>7. \A m \in Lead : lead'[m].tenant = lead[m].tenant
    BY <2>3, <2>4
  <2>8. Arrival!LeadNamesTenant'
    BY <2>1, <2>6, <2>7 DEF OnboardingInv, Arrival!LeadNamesTenant, Arrival!Exists, Arrival!Leads
  <2>9. ~overlapped' => TenantsNamed'
    BY <2>1, <2>6, <2>7, LinesTyped DEF OnboardingInv, TenantsNamed, Arrival!Exists
  <2>10. ~overlapped' => Arrival!LeadsLimited'
    BY <2>1, <2>6, FewerRecent, ArrivalSets DEF OnboardingInv, Arrival!LeadsLimited
  <2>11. \A w \in Worker : RequestSound(w)'
    BY <2>1, <2>6 DEF RequestSound
  <2>12. ASSUME NEW w \in Worker, ~overlapped'
         PROVE  RequestStands(w)'
    <3>1. RequestStands(w) /\ txn' = txn
      BY <2>1, <2>12
    <3>2. txn[w].op = "send" => Cardinality(Arrival!Recent') < MaxRecent
      BY <2>6, <3>1, FewerRecent DEF RequestStands
    <3>3. txn[w].op = "convert" => lead'[txn[w].lead].tenant = NoTenant
      BY <2>7, <3>1, OnboardingRequestTyped DEF RequestStands
    <3>4. QED
      BY <2>1, <3>1, <3>2, <3>3 DEF RequestStands, Arrival!Tasks, TenantOf, Arrival!ContactsOf
  <2>13. /\ Alone' /\ Arrival!CompletedDated' /\ ContactsHaveTenant'
         /\ ~overlapped' => PrimaryUnique'
    BY <2>1, TablesKept DEF Alone
  <2>14. QED
    BY <2>8, <2>9, <2>10, <2>11, <2>12, <2>13 DEF OnboardingInv
<1>22. QED
  BY <1>1, <1>4, <1>5, <1>6, <1>7, <1>8, <1>9, <1>11, <1>12, <1>13, <1>14, <1>15, <1>16, <1>17,
     <1>18, <1>19, <1>20, <1>21 DEF Arrival!Next

\* A lead that says it was converted names the tenant made of it; unless requests overlap it
\* has no other, and an address sends no more leads a day than the limit.
THEOREM LeadsAreKept == Arrival!Spec => []LeadsKept
<1>1. Arrival!Init => OnboardingInv
  BY InitOnboarding, ComponentsOK DEF ComponentsOK
<1>2. OnboardingInv /\ [Arrival!Next]_Arrival!vars => OnboardingInv'
  BY NextOnboarding, ComponentsOK DEF ComponentsOK
<1>3. ASSUME OnboardingInv
      PROVE  LeadsKept
  <2>1. Arrival!ConvertedOnce
    <3>1. ASSUME ~overlapped, NEW l \in Lead
          PROVE  Cardinality({t \in Tenant : Arrival!Exists(t) /\ tenant[t].from = l}) <= 1
      <4>1. \A t, u \in {t \in Tenant : Arrival!Exists(t) /\ tenant[t].from = l} : t = u
        BY <1>3, <3>1 DEF OnboardingInv, TenantsNamed
      <4>2. QED
        BY <4>1, OneAtMost
    <3>2. QED
      BY <3>1, ArrivalSets DEF Arrival!ConvertedOnce
  <2>2. Arrival!LeadNamesTenant /\ Arrival!LeadsLimited
    BY <1>3 DEF OnboardingInv, Arrival!LeadsLimited
  <2>3. QED
    BY <2>1, <2>2 DEF LeadsKept, Arrival!LeadsKept
<1>4. QED
  BY <1>1, <1>2, <1>3, PTL DEF Arrival!Spec

\* A task has a date if and only if it is completed, unless that was given; a tenant has one
\* primary contact and a task keeps a status nobody names, unless requests overlap.
THEOREM WorkspaceIsKept == Arrival!Spec => WorkspaceKept
<1>1. Arrival!Init => OnboardingInv
  BY InitOnboarding, ComponentsOK DEF ComponentsOK
<1>2. OnboardingInv /\ [Arrival!Next]_Arrival!vars => OnboardingInv'
  BY NextOnboarding, ComponentsOK DEF ComponentsOK
<1>3. ASSUME OnboardingInv
      PROVE  Arrival!CompletedDated /\ Arrival!OnePrimary
  <2>1. ASSUME ~overlapped, NEW t \in Tenant
        PROVE  Cardinality({c \in Arrival!ContactsOf(t) : contact[c].isPrimary}) <= 1
    <3>1. \A c, d \in {c \in Arrival!ContactsOf(t) : contact[c].isPrimary} : c = d
      BY <1>3, <2>1 DEF OnboardingInv, PrimaryUnique, Arrival!ContactsOf
    <3>2. QED
      BY <3>1, OneAtMost
  <2>2. QED
    BY <1>3, <2>1, ArrivalSets DEF OnboardingInv, Arrival!OnePrimary
<1>4. OnboardingInv /\ [Arrival!Next]_Arrival!vars => [Arrival!EditingUnnamed]_Arrival!vars
  <2>. SUFFICES ASSUME OnboardingInv, Arrival!Next
                PROVE  Arrival!EditingUnnamed
    OBVIOUS
  <2>. Arrival!TypeOK
    BY DEF OnboardingInv
  <2>1. CASE UNCHANGED task
    BY <2>1 DEF Arrival!EditingUnnamed
  <2>2. ASSUME NEW w \in Worker, \A v \in Worker : v # w /\ ~overlapped' => txn[v].op = "idle",
               txn[w].op # "updateTask"
        PROVE  Arrival!EditingUnnamed
    BY <2>2 DEF Arrival!EditingUnnamed
  <2>3. ASSUME NEW w \in Worker, Arrival!AtOnce(w)
        PROVE  Arrival!EditingUnnamed
    <3>1. txn[w].op = "idle" /\ (~overlapped' => OthersIdle(w))
      BY <2>3, Steps, ArrivalRequests DEF OnboardingInv, Arrival!TypeOK
    <3>2. QED
      BY <2>2, <3>1 DEF OthersIdle
  <2>4. ASSUME NEW w \in Worker, Arrival!Done(w), txn[w].op # "idle"
        PROVE  ~overlapped' => ~overlapped /\ \A v \in Worker : v # w => txn[v].op = "idle"
    BY <2>4, Steps, ArrivalRequests DEF OnboardingInv, Arrival!TypeOK, OthersIdle
  <2>5. ASSUME NEW w \in Worker, Arrival!CommitConvert(w)
        PROVE  Arrival!EditingUnnamed
    BY <2>2, <2>4, <2>5 DEF Arrival!CommitConvert
  <2>6. ASSUME NEW w \in Worker, Arrival!CommitUpdateTask(w)
        PROVE  Arrival!EditingUnnamed
    <3>. PICK k, s, date : k = txn[w].task /\ s = txn[w].status /\ date = txn[w].completedAt
      OBVIOUS
    <3>1. ASSUME NEW v \in Worker, NEW j \in Task, txn[v].op = "updateTask", txn[v].task = j,
                 ~txn[v].named, ~overlapped', task'[j] # task[j]
          PROVE  task'[j].status = task[j].status
      <4>1. v = w /\ ~overlapped
        BY <2>4, <2>6, <3>1 DEF Arrival!CommitUpdateTask
      <4>2. j = k /\ k \in Arrival!Tasks /\ s = task[k].status
        BY <3>1, <4>1 DEF OnboardingInv, RequestStands
      <4>3. task[k] \in TaskLine /\ k \in Task
        BY <4>2, LinesTyped
      <4>4. task' = [task EXCEPT ![k].status = s, ![k].completedAt = date]
        BY <2>6 DEF Arrival!CommitUpdateTask
      <4>5. task'[k] = [[task[k] EXCEPT !.status = s] EXCEPT !.completedAt = date]
        BY <4>3, <4>4 DEF Arrival!TypeOK
      <4>6. QED
        BY <4>2, <4>3, <4>5 DEF TaskLine
    <3>2. QED
      BY <3>1 DEF Arrival!EditingUnnamed
  <2>7. QED
    BY <2>1, <2>3, <2>5, <2>6
    DEF Arrival!Next, Arrival!Abort, Arrival!ReadCreateLead, Arrival!CommitCreateLead,
        Arrival!UpdateLeadStatus, Arrival!ReadConvert, Arrival!DeleteTenant,
        Arrival!ReadCreateContact, Arrival!CreateTask, Arrival!ReadUpdateContact,
        Arrival!DeleteContact, Arrival!ClearPrimary, Arrival!CommitCreateContact,
        Arrival!CommitUpdateContact, Arrival!ReadUpdateTask, Arrival!DeleteTask, Arrival!Age,
        Arrival!Workspace
<1>5. QED
  BY <1>1, <1>2, <1>3, <1>4, PTL
  DEF Arrival!Spec, WorkspaceKept, Arrival!WorkspaceKept, Arrival!EditKeepsStatus

-----------------------------------------------------------------------------
(* Check-ins, games and missions: what is earned once, and the day's cap.  *)

\* An instance has its own copy of the definitions of Requests.
LEMMA GamesRequests ==
    /\ \A w, t : /\ Games!Begin(w, t) <=> Begin(w, t)
                 /\ Games!Continue(w, t) <=> Continue(w, t)
    /\ \A w : (Games!Done(w) <=> Done(w)) /\ (Games!AtOnce(w) <=> AtOnce(w))
BY DEF Games!Begin, Games!Continue, Games!Done, Games!AtOnce, Games!Overlap, Games!Idle,
       Begin, Continue, Done, AtOnce, Overlap, Idle

\* An instance has its own copy of the definitions of FiniteSets.
LEMMA GamesSets ==
    \A S : (Games!IsFiniteSet(S) <=> IsFiniteSet(S)) /\ Games!Cardinality(S) = Cardinality(S)
<1>1. \A S : Games!IsFiniteSet(S) <=> IsFiniteSet(S)
  BY DEF Games!IsFiniteSet, IsFiniteSet
<1>2. \A S : Games!Cardinality(S) = Cardinality(S)
  BY <1>1 DEF Games!Cardinality, Cardinality
<1>3. QED
  BY <1>1, <1>2

SessionLine ==
    [status : {"STARTED", "CANCELLED", "FINISHED", "EXPIRED"}, member : Player, game : Game]

GamesTxn ==
    {Games!Idle}
    \cup [op : {"enter", "missions"}, member : Player, source : Games!Source, points : Nat,
          todo : SUBSET Mission]
    \cup [op : {"play"}, member : Player, game : Game, points : Nat]
    \cup [op : {"start", "create"}, member : Player, game : Game]
    \cup [op : {"finish"}, session : Session, points : Nat]
    \cup [op : {"expire"}, session : Session]
    \cup [op : {"progress"}, member : Player, mission : Mission, steps : Nat,
          todo : SUBSET Mission]

MissionLine == [steps : Nat, completed : BOOLEAN]

GamesTypeOK ==
    /\ played \in [Player -> Nat]
    /\ session \in [Session -> {Games!NoSession} \cup SessionLine]
    /\ progress \in [Player -> [Mission -> MissionLine]]
    /\ entries \in [Player -> [Games!Source -> Nat]]
    /\ completions \in [Player -> Nat]
    /\ txn \in [Worker -> GamesTxn]
    /\ overlapped \in BOOLEAN

\* A session that is finished was there.
Started(t) == t.op \in {"finish", "expire"} => session[t.session] \in SessionLine

\* What a request is about to add is still within the limit, if it is the only one.
Fits(t) ==
    /\ t.op = "enter" /\ t.source \in Award =>
          entries[t.member][t.source] + t.points <= Games!AwardPoints[t.source]
    /\ t.op = "play" => played[t.member] + t.points <= MaxDailyPoints
    /\ t.op = "finish" => played[session[t.session].member] + t.points <= MaxDailyPoints
    /\ t.op = "progress" => ~progress[t.member][t.mission].completed

CompletedBy(m) == {q \in Mission : progress[m][q].completed}

EarnedBy(m) ==
    /\ \A source \in Award : entries[m][source] <= Games!AwardPoints[source]
    /\ completions[m] = MissionReward * Cardinality(CompletedBy(m))
    /\ played[m] <= MaxDailyPoints

GamesInv ==
    /\ GamesTypeOK /\ Alone
    /\ \A w \in Worker : Started(txn[w])
    /\ ~overlapped => /\ \A w \in Worker : Fits(txn[w])
                      /\ \A m \in Player : EarnedBy(m)

LEMMA GamesConstants ==
    ASSUME Games!ConstantsOK
    PROVE  /\ \A source \in Award : source \in Games!Source
               /\ Games!AwardPoints[source] \in Nat \ {0}
           /\ "game" \in Games!Source /\ "mission" \in Games!Source
           /\ "game" \notin Award /\ "mission" \notin Award
           /\ OnCheckIn \subseteq Mission /\ OnPlay \subseteq Mission /\ OnQuiz \subseteq Mission
           /\ GameReward \in Nat /\ MissionReward \in Nat /\ MaxDailyPoints \in Nat
           /\ Quiz \subseteq Game /\ Daily \subseteq Game /\ Phaser \subseteq Game
           /\ IsFiniteSet(Mission) /\ Target \in Nat
<1>1. Award \subseteq {"daily_checkin", "profile_complete", "first_access"}
  BY DEF Games!ConstantsOK
<1>2. \A source \in Award : source \in Games!Source /\ Games!AwardPoints[source] \in Nat \ {0}
  BY <1>1 DEF Games!Source, Games!AwardPoints
<1>3. /\ "game" \in Games!Source /\ "mission" \in Games!Source /\ "game" \notin Award
      /\ "mission" \notin Award
  BY <1>1 DEF Games!Source
<1>4. QED
  BY <1>2, <1>3, GamesSets DEF Games!ConstantsOK

\* What is left of the daily points.
LEMMA CappedPoints ==
    ASSUME Games!ConstantsOK, GamesTypeOK, NEW m \in Player, NEW p \in Nat
    PROVE  /\ Games!Capped(m, p) \in Nat
           /\ played[m] <= MaxDailyPoints => played[m] + Games!Capped(m, p) <= MaxDailyPoints
<1>1. played[m] \in Nat /\ MaxDailyPoints \in Nat
  BY GamesConstants DEF GamesTypeOK
<1>2. PICK rest : rest = MaxDailyPoints - played[m]
  OBVIOUS
<1>3. rest \in Int
  BY <1>1, <1>2
<1>4. PICK top : top = Games!Max({0, rest})
  OBVIOUS
<1>5. top \in {0, rest} /\ top >= 0 /\ top >= rest
  <2>1. \E x \in {0, rest} : \A y \in {0, rest} : x >= y
    <3>1. CASE rest >= 0
      BY <1>3, <3>1
    <3>2. CASE ~(rest >= 0)
      BY <1>3, <3>2
    <3>3. QED
      BY <3>1, <3>2
  <2>2. QED
    BY <1>4, <2>1 DEF Games!Max
<1>6. Games!Capped(m, p) = IF played[m] + p > MaxDailyPoints THEN top ELSE p
  BY <1>2, <1>4 DEF Games!Capped
<1>7. QED
  BY <1>1, <1>2, <1>3, <1>5, <1>6

LEMMA GamesRequestTyped ==
    ASSUME GamesTypeOK, NEW w \in Worker
    PROVE  /\ txn[w].op \in {"enter", "missions"} =>
                txn[w] \in [op : {"enter", "missions"}, member : Player, source : Games!Source,
                            points : Nat, todo : SUBSET Mission]
           /\ txn[w].op = "play" =>
                txn[w] \in [op : {"play"}, member : Player, game : Game, points : Nat]
           /\ txn[w].op \in {"start", "create"} =>
                txn[w] \in [op : {"start", "create"}, member : Player, game : Game]
           /\ txn[w].op = "finish" =>
                txn[w] \in [op : {"finish"}, session : Session, points : Nat]
           /\ txn[w].op = "expire" => txn[w].session \in Session
           /\ txn[w].op = "progress" =>
                txn[w] \in [op : {"progress"}, member : Player, mission : Mission,
                            steps : Nat, todo : SUBSET Mission]
BY DEF GamesTypeOK, GamesTxn, Games!Idle

\* The rest of a request, and the session it keeps.
LEMMA RestTyped ==
    ASSUME NEW m \in Player, NEW source \in Games!Source, NEW points \in Nat,
           NEW todo \in SUBSET Mission
    PROVE  /\ Games!ToEnter(m, source, points, todo) \in GamesTxn
           /\ Games!ToEnter(m, source, points, todo).op \in {"enter", "missions"}
           /\ Games!ToEnter(m, source, points, todo).source = source
           /\ Games!ToEnter(m, source, points, todo).member = m
           /\ Games!ToEnter(m, source, points, todo).points = points
<1>1. PICK op \in {"enter", "missions"} : op = IF points > 0 THEN "enter" ELSE "missions"
  OBVIOUS
<1>2. Games!ToEnter(m, source, points, todo) =
          [op |-> op, member |-> m, source |-> source, points |-> points, todo |-> todo]
  BY <1>1 DEF Games!ToEnter
<1>3. QED
  BY <1>2 DEF GamesTxn


\* A step of w keeps the invariant if what w is about to do then fits, and so does what
\* was earned.
LEMMA GamesStep ==
    ASSUME GamesInv, NEW w \in Worker, NEW t \in GamesTxn,
           Games!Begin(w, t) \/ (Games!Continue(w, t) /\ txn[w].op # "idle"),
           played' \in [Player -> Nat], progress' \in [Player -> [Mission -> MissionLine]],
           entries' \in [Player -> [Games!Source -> Nat]], completions' \in [Player -> Nat],
           session' \in [Session -> {Games!NoSession} \cup SessionLine],
           \A s \in Session : session[s] \in SessionLine => session'[s] \in SessionLine,
           Started(t)', ~overlapped => Fits(t)' /\ \A m \in Player : EarnedBy(m)'
    PROVE  GamesInv'
<1>. GamesTypeOK /\ Alone /\ txn \in [Worker -> GamesTxn] /\ overlapped \in BOOLEAN
  BY DEF GamesInv, GamesTypeOK
<1>1. txn'[w] = t /\ OthersStay(w) /\ (~overlapped' => ~overlapped /\ OthersIdle(w))
  BY OwnSteps, GamesRequests
<1>2. overlapped' \in BOOLEAN
  BY DEF Games!Begin, Games!Continue, Games!Overlap
<1>3. txn' \in [Worker -> GamesTxn]
  BY DEF Games!Begin, Games!Continue
<1>4. GamesTypeOK'
  BY <1>2, <1>3 DEF GamesTypeOK
<1>5. \A v \in Worker : v = w \/ txn'[v] = txn[v]
  BY <1>1 DEF OthersStay
<1>6. ASSUME NEW v \in Worker
      PROVE  Started(txn[v])'
  <2>1. CASE v = w
    BY <1>1, <2>1 DEF Started
  <2>2. CASE v # w
    <3>1. txn'[v] = txn[v] /\ Started(txn[v])
      BY <1>5, <2>2 DEF GamesInv
    <3>2. txn[v].op \in {"finish", "expire"} => txn[v].session \in Session
      BY GamesRequestTyped
    <3>3. QED
      BY <3>1, <3>2 DEF Started
  <2>3. QED
    BY <2>1, <2>2
<1>7. ASSUME ~overlapped', NEW v \in Worker
      PROVE  Fits(txn[v])'
  <2>1. CASE v = w
    BY <1>1, <1>7, <2>1 DEF Fits
  <2>2. CASE v # w
    BY <1>1, <1>5, <1>7, <2>2 DEF Fits, OthersIdle
  <2>3. QED
    BY <2>1, <2>2
<1>8. Alone'
  BY <1>1, StaysAlone
<1>9. QED
  BY <1>1, <1>4, <1>6, <1>7, <1>8 DEF GamesInv

\* A step that adds nothing.
LEMMA QuietGame ==
    ASSUME GamesInv, NEW w \in Worker, NEW t \in GamesTxn,
           Games!Begin(w, t) \/ (Games!Continue(w, t) /\ txn[w].op # "idle"),
           UNCHANGED <<played, progress, entries, completions>>,
           session' \in [Session -> {Games!NoSession} \cup SessionLine],
           \A s \in Session : session[s] \in SessionLine => session'[s] \in SessionLine,
           Started(t)', ~overlapped => Fits(t)'
    PROVE  GamesInv'
<1>1. ~overlapped => \A m \in Player : EarnedBy(m)'
  BY DEF GamesInv, EarnedBy, CompletedBy
<1>2. QED
  BY <1>1, GamesStep DEF GamesInv, GamesTypeOK

LEMMA ReadingGame ==
    ASSUME GamesInv, NEW w \in Worker, NEW t \in GamesTxn,
           Games!Begin(w, t) \/ (Games!Continue(w, t) /\ txn[w].op # "idle"),
           UNCHANGED <<played, progress, entries, completions, session>>,
           Started(t), ~overlapped => Fits(t)
    PROVE  GamesInv'
<1>1. Started(t)' /\ (~overlapped => Fits(t)')
  BY DEF Started, Fits
<1>2. QED
  BY <1>1, QuietGame DEF GamesInv, GamesTypeOK

\* A play is added with its points, which are then to be entered.
LEMMA PlayAdded ==
    ASSUME Games!ConstantsOK, GamesInv, NEW w \in Worker, NEW m \in Player, NEW g, NEW p \in Nat,
           Games!AddPlay(m, g, p), NEW todo \in SUBSET Mission,
           Games!Continue(w, Games!ToEnter(m, "game", p, todo)), txn[w].op # "idle",
           UNCHANGED Games!Points,
           session' \in [Session -> {Games!NoSession} \cup SessionLine],
           \A s \in Session : session[s] \in SessionLine => session'[s] \in SessionLine,
           ~overlapped => played[m] + p <= MaxDailyPoints
    PROVE  GamesInv'
<1>. PICK t : t = Games!ToEnter(m, "game", p, todo)
  OBVIOUS
<1>1. t \in GamesTxn /\ t.op \in {"enter", "missions"} /\ t.source = "game"
  BY RestTyped, GamesConstants
<1>2. Started(t)' /\ Fits(t)'
  BY <1>1, GamesConstants DEF Started, Fits
<1>3. played[m] \in Nat /\ played' = [played EXCEPT ![m] = played[m] + p]
  BY DEF Games!AddPlay, GamesInv, GamesTypeOK
<1>4. played' \in [Player -> Nat]
  BY <1>3 DEF GamesInv, GamesTypeOK
<1>5. /\ played'[m] = played[m] + p /\ \A n \in Player \ {m} : played'[n] = played[n]
  BY <1>3 DEF GamesInv, GamesTypeOK
<1>6. ASSUME ~overlapped, NEW n \in Player
      PROVE  EarnedBy(n)'
  <2>1. EarnedBy(n)
    BY <1>6 DEF GamesInv
  <2>2. played'[n] <= MaxDailyPoints
    BY <1>5, <1>6, <2>1 DEF EarnedBy
  <2>3. QED
    BY <2>1, <2>2 DEF EarnedBy, CompletedBy, Games!Points
<1>7. QED
  BY <1>1, <1>2, <1>4, <1>6, GamesStep DEF Games!Points, GamesInv, GamesTypeOK

LEMMA InitGames == ASSUME Games!ConstantsOK PROVE Games!Init => GamesInv
<1>. SUFFICES ASSUME Games!Init
              PROVE  GamesInv
  OBVIOUS
<1>1. [steps |-> 0, completed |-> FALSE] \in MissionLine
  BY DEF MissionLine
<1>2. /\ played \in [Player -> Nat] /\ completions \in [Player -> Nat]
      /\ progress \in [Player -> [Mission -> MissionLine]]
      /\ entries \in [Player -> [Games!Source -> Nat]]
  BY <1>1 DEF Games!Init
<1>3. GamesTypeOK
  BY <1>2 DEF Games!Init, GamesTypeOK, GamesTxn, Games!NoRequests
<1>4. \A w \in Worker : txn[w].op = "idle"
  BY DEF Games!Init, Games!NoRequests, Games!Idle
<1>5. ASSUME NEW m \in Player
      PROVE  EarnedBy(m)
  <2>1. CompletedBy(m) = {}
    BY DEF Games!Init, CompletedBy
  <2>2. Cardinality(CompletedBy(m)) = 0 /\ MissionReward * 0 = 0
    BY <2>1, FS_EmptySet, GamesConstants
  <2>3. \A source \in Award : entries[m][source] <= Games!AwardPoints[source]
    BY GamesConstants DEF Games!Init
  <2>4. completions[m] = 0 /\ played[m] = 0 /\ MaxDailyPoints \in Nat
    BY GamesConstants DEF Games!Init
  <2>5. completions[m] = MissionReward * Cardinality(CompletedBy(m))
    BY <2>2, <2>4
  <2>6. played[m] <= MaxDailyPoints
    BY <2>4
  <2>7. QED
    BY <2>3, <2>5, <2>6 DEF EarnedBy
<1>6. QED
  BY <1>3, <1>4, <1>5 DEF GamesInv, Alone, Started, Fits


\* A request that ends leaves everything as it is.
LEMMA EndedGame ==
    ASSUME GamesInv, NEW w \in Worker, Games!Done(w), txn[w].op # "idle",
           UNCHANGED <<played, progress, entries, completions>>,
           session' \in [Session -> {Games!NoSession} \cup SessionLine],
           \A s \in Session : session[s] \in SessionLine => session'[s] \in SessionLine
    PROVE  GamesInv'
<1>1. Games!Idle \in GamesTxn /\ Games!Idle.op = "idle"
  BY DEF GamesTxn, Games!Idle
<1>2. Started(Games!Idle)' /\ Fits(Games!Idle)'
  BY <1>1 DEF Started, Fits
<1>3. QED
  BY <1>1, <1>2, QuietGame DEF Games!Done

\* A session that is closed stays a session.
LEMMA SessionClosed ==
    ASSUME GamesInv, NEW s \in Session, session[s] \in SessionLine,
           NEW to \in {"CANCELLED", "FINISHED", "EXPIRED"},
           session' = [session EXCEPT ![s].status = to]
    PROVE  /\ session' \in [Session -> {Games!NoSession} \cup SessionLine]
           /\ \A z \in Session : session[z] \in SessionLine => session'[z] \in SessionLine
<1>1. [session[s] EXCEPT !.status = to] \in SessionLine
  BY DEF SessionLine
<1>2. session \in [Session -> {Games!NoSession} \cup SessionLine]
  BY DEF GamesInv, GamesTypeOK
<1>3. session' = [session EXCEPT ![s] = [session[s] EXCEPT !.status = to]]
  OBVIOUS
<1>4. QED
  BY <1>1, <1>2, <1>3

\* Points of an award are entered by the only request that found none.
LEMMA EnterPointsKeeps ==
    ASSUME Games!ConstantsOK, GamesInv, NEW w \in Worker, Games!EnterPoints(w)
    PROVE  GamesInv'
<1>. PICK c : c = txn[w]
  OBVIOUS
<1>1. c.op = "enter"
  BY DEF Games!EnterPoints
<1>2. c \in [op : {"enter", "missions"}, member : Player, source : Games!Source, points : Nat,
             todo : SUBSET Mission]
  BY <1>1, GamesRequestTyped DEF GamesInv
<1>. PICK t : t = [c EXCEPT !.op = "missions", !.points = 0]
  OBVIOUS
<1>3. t \in [op : {"enter", "missions"}, member : Player, source : Games!Source, points : Nat,
             todo : SUBSET Mission] /\ t.op = "missions"
  BY <1>2
<1>4. t \in GamesTxn
  BY <1>3 DEF GamesTxn
<1>5. Games!Continue(w, t) /\ c.op # "idle"
  BY <1>1 DEF Games!EnterPoints
<1>6. /\ entries' = [entries EXCEPT ![c.member][c.source]
          = entries[c.member][c.source] + c.points]
      /\ UNCHANGED <<plays, played, session, progress, completions, dropped>>
  BY DEF Games!EnterPoints, Games!Plays
<1>7. entries \in [Player -> [Games!Source -> Nat]]
  BY DEF GamesInv, GamesTypeOK
<1>8. entries' \in [Player -> [Games!Source -> Nat]]
  BY <1>2, <1>6, <1>7
<1>9. Started(t)' /\ Fits(t)'
  BY <1>3 DEF Started, Fits
<1>10. ASSUME ~overlapped, NEW n \in Player
       PROVE  EarnedBy(n)'
  <2>1. EarnedBy(n) /\ Fits(c)
    BY <1>10 DEF GamesInv
  <2>2. ASSUME NEW source \in Award
        PROVE  entries'[n][source] <= Games!AwardPoints[source]
    <3>1. source \in Games!Source
      BY GamesConstants
    <3>2. CASE n = c.member /\ source = c.source
      <4>1. entries'[n][source] = entries[c.member][c.source] + c.points
        BY <1>2, <1>6, <1>7, <3>1, <3>2
      <4>2. QED
        BY <1>1, <2>1, <3>2, <4>1 DEF Fits
    <3>3. CASE ~(n = c.member /\ source = c.source)
      <4>1. entries'[n][source] = entries[n][source]
        BY <1>2, <1>6, <1>7, <3>1, <3>3
      <4>2. QED
        BY <2>1, <4>1 DEF EarnedBy
    <3>4. QED
      BY <3>2, <3>3
  <2>3. QED
    BY <1>6, <2>1, <2>2 DEF EarnedBy, CompletedBy
<1>11. QED
  BY <1>4, <1>5, <1>6, <1>8, <1>9, <1>10, GamesStep DEF GamesInv, GamesTypeOK

\* The only request that writes the progress of a mission found it open.
LEMMA WriteProgressKeeps ==
    ASSUME Games!ConstantsOK, GamesInv, NEW w \in Worker, Games!WriteProgress(w)
    PROVE  GamesInv'
<1>. PICK c : c = txn[w]
  OBVIOUS
<1>1. c.op = "progress"
  BY DEF Games!WriteProgress
<1>2. c \in [op : {"progress"}, member : Player, mission : Mission, steps : Nat,
             todo : SUBSET Mission]
  BY <1>1, GamesRequestTyped DEF GamesInv
<1>3. PICK done \in BOOLEAN : done <=> c.steps >= Target
  OBVIOUS
<1>4. PICK line : line = [steps |-> c.steps,
                          completed |-> done \/ progress[c.member][c.mission].completed]
  OBVIOUS
<1>5. progress \in [Player -> [Mission -> MissionLine]] /\ completions \in [Player -> Nat]
  BY DEF GamesInv, GamesTypeOK
<1>6. line \in MissionLine
  BY <1>2, <1>4 DEF MissionLine
<1>7. line.completed <=> done \/ progress[c.member][c.mission].completed
  BY <1>4
<1>8. progress' = [progress EXCEPT ![c.member] = [progress[c.member] EXCEPT ![c.mission] =
          [steps |-> c.steps, completed |-> c.steps >= Target
                              \/ progress[c.member][c.mission].completed]]]
  BY DEF Games!WriteProgress
<1>9. [steps |-> c.steps,
       completed |-> c.steps >= Target \/ progress[c.member][c.mission].completed] = line
  BY <1>3, <1>4
<1>10. progress' = [progress EXCEPT ![c.member] = [progress[c.member] EXCEPT ![c.mission] = line]]
  BY <1>8, <1>9
<1>11. completions' = IF done THEN [completions EXCEPT ![c.member]
    = completions[c.member] + MissionReward]
                      ELSE completions
  BY <1>3 DEF Games!WriteProgress
<1>12. PICK p : p = IF done THEN MissionReward ELSE 0
  OBVIOUS
<1>13. p \in Nat
  BY <1>12, GamesConstants
<1>. PICK t : t = Games!ToEnter(c.member, "mission", p, c.todo)
  OBVIOUS
<1>14. Games!Continue(w, t) /\ c.op # "idle"
  <2>1. Games!Continue(w,
      Games!ToEnter(c.member, "mission", IF c.steps >= Target THEN MissionReward ELSE 0, c.todo))
    BY DEF Games!WriteProgress
  <2>2. p = IF c.steps >= Target THEN MissionReward ELSE 0
    BY <1>3, <1>12
  <2>3. QED
    BY <1>1, <2>1, <2>2
<1>15. t \in GamesTxn /\ t.op \in {"enter", "missions"} /\ t.source = "mission"
  BY <1>2, <1>13, RestTyped, GamesConstants
<1>16. Started(t)' /\ Fits(t)'
  BY <1>15, GamesConstants DEF Started, Fits
<1>17. UNCHANGED <<plays, played, session, entries, dropped>>
  BY DEF Games!WriteProgress, Games!Plays
<1>18. progress' \in [Player -> [Mission -> MissionLine]]
  BY <1>2, <1>5, <1>6, <1>10
<1>19. completions' \in [Player -> Nat]
  BY <1>2, <1>5, <1>11, GamesConstants
<1>20. ASSUME ~overlapped, NEW n \in Player
       PROVE  EarnedBy(n)'
  <2>1. EarnedBy(n) /\ Fits(c)
    BY <1>20 DEF GamesInv
  <2>2. completions'[n] = MissionReward * Cardinality(CompletedBy(n)')
    <3>1. CASE n = c.member /\ done
      <4>1. ~progress[n][c.mission].completed
        BY <1>1, <2>1, <3>1 DEF Fits
      <4>2. progress'[n] = [progress[n] EXCEPT ![c.mission] = line] /\ line.completed
        BY <1>2, <1>5, <1>7, <1>10, <3>1
      <4>3. CompletedBy(n)' = CompletedBy(n) \cup {c.mission}
        BY <1>2, <1>5, <4>2, <3>1 DEF CompletedBy
      <4>4. IsFiniteSet(CompletedBy(n)) /\ c.mission \notin CompletedBy(n)
        BY <4>1, FS_Subset, GamesConstants DEF CompletedBy
      <4>5. PICK k \in Nat : k = Cardinality(CompletedBy(n))
        BY <4>4, FS_CardinalityType
      <4>6. Cardinality(CompletedBy(n)') = k + 1
        BY <4>3, <4>4, <4>5, FS_AddElement
      <4>7. completions'[n] = completions[n] + MissionReward
        BY <1>2, <1>5, <1>11, <3>1
      <4>8. completions[n] = MissionReward * k
        BY <2>1, <4>5 DEF EarnedBy
      <4>9. MissionReward * (k + 1) = MissionReward * k + MissionReward
        BY <4>5, GamesConstants
      <4>10. QED
        BY <4>6, <4>7, <4>8, <4>9
    <3>2. CASE ~(n = c.member /\ done)
      <4>1. \A q \in Mission : progress'[n][q].completed <=> progress[n][q].completed
        BY <1>2, <1>5, <1>7, <1>10, <3>2
      <4>2. CompletedBy(n)' = CompletedBy(n)
        BY <4>1 DEF CompletedBy
      <4>3. completions'[n] = completions[n]
        BY <1>2, <1>5, <1>11, <3>2
      <4>4. QED
        BY <2>1, <4>2, <4>3 DEF EarnedBy
    <3>3. QED
      BY <3>1, <3>2
  <2>3. QED
    BY <1>17, <2>1, <2>2 DEF EarnedBy
<1>21. QED
  BY <1>14, <1>15, <1>16, <1>17, <1>18, <1>19, <1>20, GamesStep DEF GamesInv, GamesTypeOK


LEMMA NextGames ==
    ASSUME Games!ConstantsOK, GamesInv, [Games!Next]_Games!vars
    PROVE  GamesInv'
<1>1. ASSUME NEW w \in Worker, Games!Abort(w)
      PROVE  GamesInv'
  <2>1. txn[w].op # "idle"
    <3>1. txn[w] \in GamesTxn /\ txn[w] # Games!Idle
      BY <1>1 DEF Games!Abort, GamesInv, GamesTypeOK
    <3>2. QED
      BY <3>1 DEF GamesTxn
  <2>2. Games!Done(w) /\ UNCHANGED <<played, session, progress, entries, completions>>
    BY <1>1 DEF Games!Abort, Games!Plays
  <2>3. QED
    BY <2>1, <2>2, EndedGame DEF GamesInv, GamesTypeOK
<1>2. ASSUME NEW w \in Worker, Games!EnterPoints(w)
      PROVE  GamesInv'
  BY <1>2, EnterPointsKeeps
<1>3. ASSUME NEW w \in Worker, NEW m \in Player, NEW source \in Award,
             Games!ReadAward(w, m, source)
      PROVE  GamesInv'
  <2>1. PICK todo : todo = IF source = "daily_checkin" THEN OnCheckIn ELSE {}
    OBVIOUS
  <2>2. todo \in SUBSET Mission /\ source \in Games!Source /\ Games!AwardPoints[source] \in Nat
    BY <2>1, GamesConstants
  <2>. PICK t : t = Games!ToEnter(m, source, Games!AwardPoints[source], todo)
    OBVIOUS
  <2>3. /\ t \in GamesTxn /\ t.op \in {"enter", "missions"} /\ t.source = source
        /\ t.member = m /\ t.points = Games!AwardPoints[source]
    BY <2>2, RestTyped
  <2>4. Games!Begin(w, t) /\ entries[m][source] = 0
    BY <1>3, <2>1 DEF Games!ReadAward
  <2>5. UNCHANGED <<played, progress, entries, completions, session>>
    BY <1>3 DEF Games!ReadAward, Games!Tables, Games!Plays, Games!Points
  <2>6. Started(t) /\ Fits(t)
    BY <2>2, <2>3, <2>4 DEF Started, Fits
  <2>7. QED
    BY <2>3, <2>4, <2>5, <2>6, ReadingGame
<1>4. ASSUME NEW w \in Worker, NEW m \in Player, NEW g \in Game, Games!ReadPlay(w, m, g)
      PROVE  GamesInv'
  <2>1. PICK points \in {GameReward} \cup IF g \in Quiz THEN {0} ELSE {} :
            Games!Begin(w, [op |-> "play", member |-> m, game |-> g,
                points |-> Games!Capped(m, points)])
    BY <1>4 DEF Games!ReadPlay
  <2>2. points \in Nat
    BY <2>1, GamesConstants
  <2>3. PICK p : p = Games!Capped(m, points)
    OBVIOUS
  <2>4. p \in Nat /\ (played[m] <= MaxDailyPoints => played[m] + p <= MaxDailyPoints)
    BY <2>2, <2>3, CappedPoints DEF GamesInv
  <2>. PICK t : t = [op |-> "play", member |-> m, game |-> g, points |-> p]
    OBVIOUS
  <2>5. t \in GamesTxn
    BY <2>4 DEF GamesTxn
  <2>6. Games!Begin(w, t)
    BY <2>1, <2>3
  <2>7. ~overlapped => played[m] <= MaxDailyPoints
    BY DEF GamesInv, EarnedBy
  <2>8. Started(t) /\ (~overlapped => Fits(t))
    BY <2>4, <2>7 DEF Started, Fits
  <2>9. UNCHANGED <<played, progress, entries, completions, session>>
    BY <1>4 DEF Games!ReadPlay, Games!Tables, Games!Plays, Games!Points
  <2>10. QED
    BY <2>5, <2>6, <2>8, <2>9, ReadingGame
<1>5. ASSUME NEW w \in Worker, NEW m \in Player, NEW g \in Game, Games!ReadStart(w, m, g)
      PROVE  GamesInv'
  <2>. PICK t : t = [op |-> "start", member |-> m, game |-> g]
    OBVIOUS
  <2>1. t \in GamesTxn /\ Started(t) /\ Fits(t)
    BY DEF GamesTxn, Started, Fits
  <2>2. Games!Begin(w, t) /\ UNCHANGED <<played, progress, entries, completions, session>>
    BY <1>5 DEF Games!ReadStart, Games!Tables, Games!Plays, Games!Points
  <2>3. QED
    BY <2>1, <2>2, ReadingGame
<1>6. ASSUME NEW w \in Worker, Games!CreatePlay(w)
      PROVE  GamesInv'
  <2>. PICK c : c = txn[w]
    OBVIOUS
  <2>1. c.op = "play"
    BY <1>6 DEF Games!CreatePlay
  <2>2. c \in [op : {"play"}, member : Player, game : Game, points : Nat]
    BY <2>1, GamesRequestTyped DEF GamesInv
  <2>3. PICK todo : todo = CASE c.game \in Quiz -> OnQuiz
                             [] c.game \in Daily -> OnCheckIn
                             [] OTHER -> {}
    OBVIOUS
  <2>4. todo \in SUBSET Mission
    BY <2>3, GamesConstants
  <2>5. Games!Continue(w, Games!ToEnter(c.member, "game", c.points, todo))
    BY <1>6, <2>3 DEF Games!CreatePlay
  <2>6. Games!AddPlay(c.member, c.game, c.points) /\ UNCHANGED Games!Points /\ UNCHANGED session
    BY <1>6 DEF Games!CreatePlay
  <2>7. ~overlapped => played[c.member] + c.points <= MaxDailyPoints
    BY <2>1 DEF GamesInv, Fits
  <2>8. session' \in [Session -> {Games!NoSession} \cup SessionLine]
    BY <2>6 DEF GamesInv, GamesTypeOK
  <2>9. QED
    BY <2>1, <2>2, <2>4, <2>5, <2>6, <2>7, <2>8, PlayAdded
<1>7. ASSUME NEW w \in Worker, Games!CancelStarted(w)
      PROVE  GamesInv'
  <2>. PICK c : c = txn[w]
    OBVIOUS
  <2>1. c.op = "start"
    BY <1>7 DEF Games!CancelStarted
  <2>2. c \in [op : {"start", "create"}, member : Player, game : Game]
    BY <2>1, GamesRequestTyped DEF GamesInv
  <2>. PICK t : t = [c EXCEPT !.op = "create"]
    OBVIOUS
  <2>3. t \in [op : {"start", "create"}, member : Player, game : Game] /\ t.op = "create"
    BY <2>2
  <2>4. t \in GamesTxn /\ Started(t)' /\ Fits(t)'
    BY <2>3 DEF GamesTxn, Started, Fits
  <2>5. /\ Games!Continue(w, t) /\ UNCHANGED <<played, progress, entries, completions>>
        /\ session' = [s \in Session |->
               IF /\ session[s].status = "STARTED"
                  /\ session[s].member = c.member
                  /\ session[s].game = c.game
               THEN [session[s] EXCEPT !.status = "CANCELLED"]
               ELSE session[s]]
    BY <1>7 DEF Games!CancelStarted, Games!Points
  <2>6. session \in [Session -> {Games!NoSession} \cup SessionLine]
    BY DEF GamesInv, GamesTypeOK
  <2>7. ASSUME NEW s \in Session
        PROVE  /\ session'[s] \in {Games!NoSession} \cup SessionLine
               /\ session[s] \in SessionLine => session'[s] \in SessionLine
    <3>1. session[s].status = "STARTED" => session[s] \in SessionLine
      BY <2>6 DEF Games!NoSession
    <3>2. session[s] \in SessionLine => [session[s] EXCEPT !.status = "CANCELLED"] \in SessionLine
      BY DEF SessionLine
    <3>3. session'[s] = session[s] \/ (/\ session[s].status = "STARTED"
                                       /\ session'[s] = [session[s] EXCEPT !.status
                                           = "CANCELLED"])
      BY <2>5
    <3>4. QED
      BY <2>6, <3>1, <3>2, <3>3
  <2>8. session' \in [Session -> {Games!NoSession} \cup SessionLine]
    BY <2>5, <2>7
  <2>9. QED
    BY <2>1, <2>4, <2>5, <2>7, <2>8, QuietGame
<1>8. ASSUME NEW w \in Worker, NEW s \in Session, Games!CreateSession(w, s)
      PROVE  GamesInv'
  <2>. PICK c : c = txn[w]
    OBVIOUS
  <2>1. c.op = "create"
    BY <1>8 DEF Games!CreateSession
  <2>2. c \in [op : {"start", "create"}, member : Player, game : Game]
    BY <2>1, GamesRequestTyped DEF GamesInv
  <2>. PICK row : row = [status |-> "STARTED", member |-> c.member, game |-> c.game]
    OBVIOUS
  <2>3. row \in SessionLine
    BY <2>2 DEF SessionLine
  <2>4. Games!Done(w) /\ session' = [session EXCEPT ![s] = row]
    BY <1>8 DEF Games!CreateSession
  <2>5. UNCHANGED <<played, progress, entries, completions>>
    BY <1>8 DEF Games!CreateSession, Games!Points
  <2>6. /\ session' \in [Session -> {Games!NoSession} \cup SessionLine]
        /\ \A z \in Session : session[z] \in SessionLine => session'[z] \in SessionLine
    BY <2>3, <2>4 DEF GamesInv, GamesTypeOK
  <2>7. QED
    BY <2>1, <2>4, <2>5, <2>6, EndedGame
<1>9. ASSUME NEW w \in Worker, NEW s \in Session, Games!ReadFinish(w, s)
      PROVE  GamesInv'
  <2>1. session[s] \in SessionLine
    <3>1. session[s] \in {Games!NoSession} \cup SessionLine /\ session[s].status = "STARTED"
      BY <1>9 DEF Games!ReadFinish, GamesInv, GamesTypeOK
    <3>2. QED
      BY <3>1 DEF Games!NoSession
  <2>2. session[s].member \in Player
    BY <2>1 DEF SessionLine
  <2>3. UNCHANGED <<played, progress, entries, completions, session>>
    BY <1>9 DEF Games!ReadFinish, Games!Tables, Games!Plays, Games!Points
  <2>4. CASE Games!Begin(w, [op |-> "finish", session |-> s,
                       points |-> Games!Capped(session[s].member, GameReward)])
    <3>1. PICK p : p = Games!Capped(session[s].member, GameReward)
      OBVIOUS
    <3>2. /\ p \in Nat
          /\ played[session[s].member] <= MaxDailyPoints =>
                 played[session[s].member] + p <= MaxDailyPoints
      BY <2>2, <3>1, CappedPoints, GamesConstants DEF GamesInv
    <3>. PICK t : t = [op |-> "finish", session |-> s, points |-> p]
      OBVIOUS
    <3>3. t \in GamesTxn /\ Games!Begin(w, t)
      BY <2>4, <3>1, <3>2 DEF GamesTxn
    <3>4. ~overlapped => played[session[s].member] <= MaxDailyPoints
      BY <2>2 DEF GamesInv, EarnedBy
    <3>5. Started(t) /\ (~overlapped => Fits(t))
      BY <2>1, <3>2, <3>4 DEF Started, Fits
    <3>6. QED
      BY <2>3, <3>3, <3>5, ReadingGame
  <2>5. CASE Games!Begin(w, [op |-> "expire", session |-> s])
    <3>. PICK t : t = [op |-> "expire", session |-> s]
      OBVIOUS
    <3>1. t \in GamesTxn /\ Games!Begin(w, t)
      BY <2>5 DEF GamesTxn
    <3>2. Started(t) /\ Fits(t)
      BY <2>1 DEF Started, Fits
    <3>3. QED
      BY <2>3, <3>1, <3>2, ReadingGame
  <2>6. QED
    BY <1>9, <2>4, <2>5 DEF Games!ReadFinish
<1>10. ASSUME NEW w \in Worker, Games!CommitFinish(w)
       PROVE  GamesInv'
  <2>. PICK c : c = txn[w]
    OBVIOUS
  <2>1. c.op = "finish"
    BY <1>10 DEF Games!CommitFinish
  <2>2. c \in [op : {"finish"}, session : Session, points : Nat]
    BY <2>1, GamesRequestTyped DEF GamesInv
  <2>3. session[c.session] \in SessionLine
    BY <2>1 DEF GamesInv, Started
  <2>. PICK row : row = session[c.session]
    OBVIOUS
  <2>4. row.member \in Player
    BY <2>3 DEF SessionLine
  <2>5. /\ Games!AddPlay(row.member, row.game, c.points)
        /\ session' = [session EXCEPT ![c.session].status = "FINISHED"]
        /\ Games!Continue(w, Games!ToEnter(row.member, "game", c.points, OnPlay))
        /\ UNCHANGED Games!Points
    BY <1>10 DEF Games!CommitFinish
  <2>6. /\ session' \in [Session -> {Games!NoSession} \cup SessionLine]
        /\ \A z \in Session : session[z] \in SessionLine => session'[z] \in SessionLine
    BY <2>2, <2>3, <2>5, SessionClosed
  <2>7. ~overlapped => played[row.member] + c.points <= MaxDailyPoints
    BY <2>1 DEF GamesInv, Fits
  <2>8. QED
    BY <2>1, <2>2, <2>4, <2>5, <2>6, <2>7, PlayAdded, GamesConstants
<1>11. ASSUME NEW w \in Worker, Games!CommitExpire(w)
       PROVE  GamesInv'
  <2>. PICK c : c = txn[w]
    OBVIOUS
  <2>1. c.op = "expire"
    BY <1>11 DEF Games!CommitExpire
  <2>2. c.session \in Session /\ session[c.session] \in SessionLine
    BY <2>1, GamesRequestTyped DEF GamesInv, Started
  <2>3. /\ session' = [session EXCEPT ![c.session].status = "EXPIRED"] /\ Games!Done(w)
        /\ UNCHANGED <<played, progress, entries, completions>>
    BY <1>11 DEF Games!CommitExpire, Games!Points
  <2>4. /\ session' \in [Session -> {Games!NoSession} \cup SessionLine]
        /\ \A z \in Session : session[z] \in SessionLine => session'[z] \in SessionLine
    BY <2>2, <2>3, SessionClosed
  <2>5. QED
    BY <2>1, <2>3, <2>4, EndedGame
<1>12. ASSUME NEW w \in Worker, NEW q \in Mission, Games!PassOver(w, q)
       PROVE  GamesInv'
  <2>. PICK c : c = txn[w]
    OBVIOUS
  <2>1. c.op = "missions"
    BY <1>12 DEF Games!PassOver
  <2>2. c \in [op : {"enter", "missions"}, member : Player, source : Games!Source, points : Nat,
               todo : SUBSET Mission]
    BY <2>1, GamesRequestTyped DEF GamesInv
  <2>. PICK t : t = [c EXCEPT !.todo = c.todo \ {q}]
    OBVIOUS
  <2>3. /\ t \in [op : {"enter", "missions"}, member : Player, source : Games!Source, points :
            Nat,
                  todo : SUBSET Mission]
        /\ t.op = "missions"
    BY <2>1, <2>2
  <2>4. t \in GamesTxn /\ Started(t) /\ Fits(t)
    BY <2>3 DEF GamesTxn, Started, Fits
  <2>5. Games!Continue(w, t) /\ UNCHANGED <<played, progress, entries, completions, session>>
    BY <1>12 DEF Games!PassOver, Games!Tables, Games!Plays, Games!Points
  <2>6. QED
    BY <2>1, <2>4, <2>5, ReadingGame
<1>13. ASSUME NEW w \in Worker, NEW q \in Mission, Games!ReadMission(w, q)
       PROVE  GamesInv'
  <2>. PICK c : c = txn[w]
    OBVIOUS
  <2>1. c.op = "missions" /\ ~progress[c.member][q].completed
    BY <1>13 DEF Games!ReadMission
  <2>2. c \in [op : {"enter", "missions"}, member : Player, source : Games!Source, points : Nat,
               todo : SUBSET Mission]
    BY <2>1, GamesRequestTyped DEF GamesInv
  <2>3. PICK n : n = progress[c.member][q].steps + 1
    OBVIOUS
  <2>4. n \in Nat
    <3>1. progress[c.member][q] \in MissionLine
      BY <2>2 DEF GamesInv, GamesTypeOK
    <3>2. QED
      BY <2>3, <3>1 DEF MissionLine
  <2>. PICK t : t = [op |-> "progress", member |-> c.member, mission |-> q, steps |-> n,
                     todo |-> c.todo \ {q}]
    OBVIOUS
  <2>5. t \in GamesTxn
    BY <2>2, <2>4 DEF GamesTxn
  <2>6. Started(t) /\ Fits(t)
    BY <2>1 DEF Started, Fits
  <2>7. Games!Continue(w, t) /\ UNCHANGED <<played, progress, entries, completions, session>>
    BY <1>13, <2>3 DEF Games!ReadMission, Games!Tables, Games!Plays, Games!Points
  <2>8. QED
    BY <2>1, <2>5, <2>6, <2>7, ReadingGame
<1>14. ASSUME NEW w \in Worker, Games!WriteProgress(w)
       PROVE  GamesInv'
  BY <1>14, WriteProgressKeeps
<1>15. ASSUME NEW w \in Worker, Games!Answer(w)
       PROVE  GamesInv'
  <2>1. txn[w].op # "idle" /\ Games!Done(w)
    BY <1>15 DEF Games!Answer
  <2>2. UNCHANGED <<played, progress, entries, completions, session>>
    BY <1>15 DEF Games!Answer, Games!Tables, Games!Plays, Games!Points
  <2>3. QED
    BY <2>1, <2>2, EndedGame DEF GamesInv, GamesTypeOK
<1>16. ASSUME UNCHANGED Games!vars
       PROVE  GamesInv'
  BY <1>16
  DEF Games!vars, GamesInv, GamesTypeOK, Alone, OthersIdle, Started, Fits, EarnedBy, CompletedBy
<1>17. QED
  BY <1>1, <1>2, <1>3, <1>4, <1>5, <1>6, <1>7, <1>8, <1>9, <1>10, <1>11, <1>12, <1>13,
     <1>14, <1>15, <1>16 DEF Games!Next

\* One check-in a day, each award once, each mission completed once, when requests do not
\* overlap (member-app.service.ts: the entry, or the progress, is read before it is written).
THEOREM EarnedOnceHolds == Games!Spec => []EarnedOnce
<1>1. GamesInv => EarnedOnce
  BY GamesSets DEF GamesInv, EarnedBy, CompletedBy, Games!EarnedOnce, EarnedOnce
<1>2. Games!Init => GamesInv
  BY InitGames, GamesOK
<1>3. GamesInv /\ [Games!Next]_Games!vars => GamesInv'
  BY NextGames, GamesOK
<1>4. QED
  BY <1>1, <1>2, <1>3, PTL DEF Games!Spec

\* Games do not pay more than the day's maximum, when requests do not overlap.
THEOREM CapHolds == Games!Spec => []DailyCap
<1>1. GamesInv => DailyCap
  BY DEF GamesInv, EarnedBy, Games!DailyCap, DailyCap
<1>2. Games!Init => GamesInv
  BY InitGames, GamesOK
<1>3. GamesInv /\ [Games!Next]_Games!vars => GamesInv'
  BY NextGames, GamesOK
<1>4. QED
  BY <1>1, <1>2, <1>3, PTL DEF Games!Spec
-----------------------------------------------------------------------------
(* The points of games and missions, one by one.                           *)

\* An instance has its own copy of the sums.
LEMMA GamesSums == \A g : Games!SumFunction(g) = SumFunction(g)
BY DEF Games!SumFunction, SumFunction, Games!SumFunctionOnSet, SumFunctionOnSet,
       Games!FoldFunctionOnSet, FoldFunctionOnSet, Games!MapThenFoldSet, MapThenFoldSet

Kind == {"game", "mission"}

\* What is entered or was dropped beyond what was earned, and what no request owes.
Beyond(m, k) ==
    entries[m][k] + dropped[m][k] - (IF k = "game" THEN played[m] ELSE completions[m])

EarningsInv ==
    /\ GamesInv
    /\ dropped \in [Player -> [Kind -> Nat]]
    /\ \A m \in Player : \A k \in Kind : Beyond(m, k) + Games!Pending(m, k) = 0

LEMMA DueTyped ==
    /\ \A r \in GamesTxn : \A m, k : Games!Due(r, m, k) \in Int
    /\ \A r, m, k : r.op # "enter" \/ r.source # k => Games!Due(r, m, k) = 0
<1>1. ASSUME NEW r \in GamesTxn, NEW m, NEW k
      PROVE  Games!Due(r, m, k) \in Int
  <2>1. r.op = "enter" => r.points \in Nat
    BY <1>1 DEF GamesTxn, Games!Idle
  <2>2. QED
    BY <2>1 DEF Games!Due
<1>2. \A r, m, k : r.op # "enter" \/ r.source # k => Games!Due(r, m, k) = 0
  BY DEF Games!Due
<1>3. QED
  BY <1>1, <1>2

\* What is pending changes by what one request no longer owes and now owes.
LEMMA PendingStep ==
    ASSUME GamesInv, GamesInv', NEW w \in Worker, OthersStay(w), NEW m, NEW k
    PROVE  /\ Games!Pending(m, k)' =
                  Games!Pending(m, k) - Games!Due(txn[w], m, k) + Games!Due(txn'[w], m, k)
           /\ Games!Pending(m, k) \in Int
<1>1. txn \in [Worker -> GamesTxn] /\ txn' \in [Worker -> GamesTxn]
  BY DEF GamesInv, GamesTypeOK
<1>. DEFINE g == [v \in Worker |-> Games!Due(txn[v], m, k)]
            h == [v \in Worker |-> Games!Due(txn'[v], m, k)]
<1>2. g \in [Worker -> Int] /\ h \in [Worker -> Int]
  BY <1>1, DueTyped
<1>3. \A v \in Worker \ {w} : h[v] = g[v]
  BY DEF OthersStay
<1>4. g[w] = Games!Due(txn[w], m, k) /\ h[w] = Games!Due(txn'[w], m, k)
  OBVIOUS
<1>5. Games!Pending(m, k) = SumFunction(g) /\ Games!Pending(m, k)' = SumFunction(h)
  BY GamesSums DEF Games!Pending
<1>6. IsFiniteSet(Worker)
  BY ComponentsOK
<1>. HIDE DEF g, h
<1>7. QED
  BY <1>2, <1>3, <1>4, <1>5, <1>6, SumTable

\* A step of w explains what it adds by what w owes.
LEMMA EarningsStep ==
    ASSUME EarningsInv, GamesInv', NEW w \in Worker, OthersStay(w),
           dropped' \in [Player -> [Kind -> Nat]],
           \A m \in Player : \A k \in Kind :
              Beyond(m, k)' + Games!Due(txn'[w], m, k) =
                  Beyond(m, k) + Games!Due(txn[w], m, k)
    PROVE  EarningsInv'
<1>1. ASSUME NEW m \in Player, NEW k \in Kind
      PROVE  Beyond(m, k)' + Games!Pending(m, k)' = 0
  <2>1. k \in Games!Source
    BY DEF Kind, Games!Source
  <2>2. /\ entries[m][k] \in Nat /\ dropped[m][k] \in Nat /\ played[m] \in Nat
        /\ completions[m] \in Nat
    BY <2>1 DEF EarningsInv, GamesInv, GamesTypeOK
  <2>3. /\ entries'[m][k] \in Nat /\ dropped'[m][k] \in Nat /\ played'[m] \in Nat
        /\ completions'[m] \in Nat
    BY <2>1 DEF GamesInv, GamesTypeOK
  <2>4. Beyond(m, k) \in Int /\ Beyond(m, k)' \in Int
    BY <2>2, <2>3 DEF Beyond
  <2>5. /\ Games!Due(txn[w], m, k) \in Int /\ Games!Due(txn'[w], m, k) \in Int
    BY DueTyped DEF EarningsInv, GamesInv, GamesTypeOK
  <2>6. /\ Games!Pending(m, k)' =
               Games!Pending(m, k) - Games!Due(txn[w], m, k) + Games!Due(txn'[w], m, k)
        /\ Games!Pending(m, k) \in Int
    BY PendingStep DEF EarningsInv
  <2>7. Beyond(m, k) + Games!Pending(m, k) = 0
    BY DEF EarningsInv
  <2>8. Beyond(m, k)' + Games!Due(txn'[w], m, k) = Beyond(m, k) + Games!Due(txn[w], m, k)
    OBVIOUS
  <2>9. QED
    BY <2>4, <2>5, <2>6, <2>7, <2>8
<1>2. QED
  BY <1>1 DEF EarningsInv

\* A step that earns nothing, of a request that owes nothing before and after.
LEMMA NothingEarned ==
    ASSUME EarningsInv, GamesInv', NEW w \in Worker, OthersStay(w),
           UNCHANGED <<played, entries, completions, dropped>>,
           txn[w].op # "enter", txn'[w].op # "enter" \/ txn'[w].source \notin Kind
    PROVE  EarningsInv'
<1>1. ASSUME NEW m \in Player, NEW k \in Kind
      PROVE  /\ Beyond(m, k)' = Beyond(m, k)
             /\ Games!Due(txn'[w], m, k) = 0 /\ Games!Due(txn[w], m, k) = 0
  BY DueTyped DEF Beyond
<1>2. dropped' \in [Player -> [Kind -> Nat]]
  BY DEF EarningsInv
<1>3. QED
  BY <1>1, <1>2, EarningsStep

LEMMA InitEarnings == ASSUME Games!ConstantsOK PROVE Games!Init => EarningsInv
<1>. SUFFICES ASSUME Games!Init PROVE EarningsInv
  OBVIOUS
<1>1. GamesInv
  BY InitGames
<1>2. dropped \in [Player -> [Kind -> Nat]]
  BY DEF Games!Init, Kind
<1>3. ASSUME NEW m \in Player, NEW k \in Kind
      PROVE  Beyond(m, k) + Games!Pending(m, k) = 0
  <2>1. k \in Games!Source
    BY DEF Kind, Games!Source
  <2>2. Beyond(m, k) = 0
    BY <2>1 DEF Games!Init, Beyond, Kind
  <2>. DEFINE g == [v \in Worker |-> Games!Due(txn[v], m, k)]
  <2>3. \A v \in Worker : g[v] = 0
    BY DueTyped DEF Games!Init, Games!NoRequests, Games!Idle
  <2>4. Games!Pending(m, k) = SumFunctionOnSet(g, Worker)
    BY GamesSums DEF Games!Pending, SumFunction
  <2>5. IsFiniteSet(Worker)
    BY ComponentsOK
  <2>. HIDE DEF g
  <2>6. Games!Pending(m, k) = 0
    BY <2>3, <2>4, <2>5, SumZero
  <2>7. QED
    BY <2>2, <2>6
<1>4. QED
  BY <1>1, <1>2, <1>3 DEF EarningsInv


\* A play brings points that its request then owes.
LEMMA PlayEarned ==
    ASSUME EarningsInv, GamesInv', NEW w \in Worker, NEW m \in Player, NEW g, NEW p \in Nat,
           Games!AddPlay(m, g, p), NEW todo, txn[w].op \notin {"idle", "enter"},
           Games!Continue(w, Games!ToEnter(m, "game", p, todo)), UNCHANGED Games!Points
    PROVE  EarningsInv'
<1>. PICK t : t = Games!ToEnter(m, "game", p, todo)
  OBVIOUS
<1>1. /\ t.op = IF p > 0 THEN "enter" ELSE "missions"
      /\ t.source = "game" /\ t.member = m /\ t.points = p
  BY DEF Games!ToEnter
<1>2. txn'[w] = t /\ OthersStay(w)
  BY OwnSteps, GamesRequests DEF EarningsInv, GamesInv, GamesTypeOK
<1>3. /\ played[m] \in Nat /\ played' = [played EXCEPT ![m] = played[m] + p]
      /\ played \in [Player -> Nat]
  BY DEF Games!AddPlay, EarningsInv, GamesInv, GamesTypeOK
<1>4. dropped' \in [Player -> [Kind -> Nat]]
  BY DEF Games!Points, EarningsInv
<1>5. ASSUME NEW n \in Player, NEW k \in Kind
      PROVE  Beyond(n, k)' + Games!Due(txn'[w], n, k) =
                 Beyond(n, k) + Games!Due(txn[w], n, k)
  <2>1. Games!Due(txn[w], n, k) = 0
    BY DueTyped
  <2>2. Games!Due(t, n, k) = IF n = m /\ k = "game" THEN p ELSE 0
    BY <1>1 DEF Games!Due
  <2>3. k \in Games!Source
    BY DEF Kind, Games!Source
  <2>4. /\ entries[n][k] \in Nat /\ dropped[n][k] \in Nat /\ played[n] \in Nat
        /\ completions[n] \in Nat
    BY <2>3 DEF EarningsInv, GamesInv, GamesTypeOK
  <2>5. /\ entries' = entries /\ dropped' = dropped /\ completions' = completions
    BY DEF Games!Points
  <2>6. played'[n] = IF n = m THEN played[n] + p ELSE played[n]
    BY <1>3
  <2>7. CASE k = "game"
    <3>1. /\ Beyond(n, k) = entries[n][k] + dropped[n][k] - played[n]
          /\ Beyond(n, k)' = entries[n][k] + dropped[n][k] - played'[n]
      BY <2>5, <2>7 DEF Beyond
    <3>2. QED
      BY <1>2, <2>1, <2>2, <2>4, <2>6, <2>7, <3>1
  <2>8. CASE k # "game"
    <3>1. Beyond(n, k)' = Beyond(n, k)
      BY <2>5, <2>8 DEF Beyond
    <3>2. QED
      BY <1>2, <2>1, <2>2, <2>8, <3>1
  <2>9. QED
    BY <2>7, <2>8
<1>6. QED
  BY <1>2, <1>4, <1>5, EarningsStep

\* A mission completed brings points that its request then owes.
LEMMA MissionEarned ==
    ASSUME Games!ConstantsOK, EarningsInv, GamesInv', NEW w \in Worker, Games!WriteProgress(w)
    PROVE  EarningsInv'
<1>. PICK c : c = txn[w]
  OBVIOUS
<1>1. c.op = "progress"
  BY DEF Games!WriteProgress
<1>2. c.member \in Player
  <2>1. c \in [op : {"progress"}, member : Player, mission : Mission, steps : Nat,
               todo : SUBSET Mission]
    BY <1>1, GamesRequestTyped DEF EarningsInv, GamesInv
  <2>2. QED
    BY <2>1
<1>3. PICK p : p = IF c.steps >= Target THEN MissionReward ELSE 0
  OBVIOUS
<1>4. p \in Nat
  BY <1>3, GamesConstants
<1>. PICK t : t = Games!ToEnter(c.member, "mission", p, c.todo)
  OBVIOUS
<1>5. /\ t.op = IF p > 0 THEN "enter" ELSE "missions"
      /\ t.source = "mission" /\ t.member = c.member /\ t.points = p
  BY DEF Games!ToEnter
<1>6. Games!Continue(w, t)
  BY <1>3 DEF Games!WriteProgress
<1>7. txn'[w] = t /\ OthersStay(w)
  BY <1>1, <1>6, OwnSteps, GamesRequests DEF EarningsInv, GamesInv, GamesTypeOK
<1>8. completions \in [Player -> Nat]
  BY DEF EarningsInv, GamesInv, GamesTypeOK
<1>9. \A n \in Player : completions'[n] = completions[n] + IF n = c.member THEN p ELSE 0
  <2>1. CASE c.steps >= Target
    <3>1. completions' = [completions EXCEPT ![c.member] = completions[c.member] + MissionReward]
      BY <2>1 DEF Games!WriteProgress
    <3>2. QED
      BY <1>2, <1>3, <1>8, <2>1, <3>1
  <2>2. CASE ~(c.steps >= Target)
    <3>1. completions' = completions
      BY <2>2 DEF Games!WriteProgress
    <3>2. QED
      BY <1>3, <1>8, <2>2, <3>1
  <2>3. QED
    BY <2>1, <2>2
<1>10. entries' = entries /\ dropped' = dropped /\ played' = played
  BY DEF Games!WriteProgress, Games!Plays
<1>11. dropped' \in [Player -> [Kind -> Nat]]
  BY <1>10 DEF EarningsInv
<1>12. ASSUME NEW n \in Player, NEW k \in Kind
       PROVE  Beyond(n, k)' + Games!Due(txn'[w], n, k) =
                  Beyond(n, k) + Games!Due(txn[w], n, k)
  <2>1. Games!Due(txn[w], n, k) = 0
    BY <1>1, DueTyped
  <2>2. Games!Due(t, n, k) = IF n = c.member /\ k = "mission" THEN p ELSE 0
    BY <1>4, <1>5 DEF Games!Due
  <2>3. k \in Games!Source
    BY DEF Kind, Games!Source
  <2>4. entries[n][k] \in Nat /\ dropped[n][k] \in Nat /\ completions[n] \in Nat
    BY <2>3 DEF EarningsInv, GamesInv, GamesTypeOK
  <2>5. CASE k = "mission"
    <3>1. /\ Beyond(n, k) = entries[n][k] + dropped[n][k] - completions[n]
          /\ Beyond(n, k)' = entries[n][k] + dropped[n][k] - completions'[n]
      BY <1>10, <2>5 DEF Beyond
    <3>2. QED
      BY <1>4, <1>7, <1>9, <2>1, <2>2, <2>4, <2>5, <3>1
  <2>6. CASE k = "game"
    <3>1. Beyond(n, k)' = Beyond(n, k)
      BY <1>10, <2>6 DEF Beyond
    <3>2. QED
      BY <1>7, <2>1, <2>2, <2>6, <3>1
  <2>7. QED
    BY <2>5, <2>6 DEF Kind
<1>13. QED
  BY <1>7, <1>11, <1>12, EarningsStep

\* The entry is what the request owed.
LEMMA PointsEntered ==
    ASSUME EarningsInv, GamesInv', NEW w \in Worker, Games!EnterPoints(w)
    PROVE  EarningsInv'
<1>. PICK c : c = txn[w]
  OBVIOUS
<1>1. c.op = "enter"
  BY DEF Games!EnterPoints
<1>2. c \in [op : {"enter", "missions"}, member : Player, source : Games!Source, points : Nat,
             todo : SUBSET Mission]
  BY <1>1, GamesRequestTyped DEF EarningsInv, GamesInv
<1>. PICK t : t = [c EXCEPT !.op = "missions", !.points = 0]
  OBVIOUS
<1>3. t.op = "missions"
  BY <1>2
<1>4. Games!Continue(w, t)
  BY DEF Games!EnterPoints
<1>5. txn'[w] = t /\ OthersStay(w)
  BY <1>1, <1>4, OwnSteps, GamesRequests DEF EarningsInv, GamesInv, GamesTypeOK
<1>6. /\ entries' = [entries EXCEPT ![c.member][c.source]
          = entries[c.member][c.source] + c.points]
      /\ UNCHANGED <<played, completions, dropped>>
  BY DEF Games!EnterPoints, Games!Plays
<1>7. entries \in [Player -> [Games!Source -> Nat]]
  BY DEF EarningsInv, GamesInv, GamesTypeOK
<1>8. ASSUME NEW n \in Player, NEW k \in Kind
      PROVE  Beyond(n, k)' + Games!Due(txn'[w], n, k) =
                 Beyond(n, k) + Games!Due(txn[w], n, k)
  <2>1. Games!Due(txn'[w], n, k) = 0
    BY <1>3, <1>5, DueTyped
  <2>2. PICK d \in Nat : d = IF n = c.member /\ k = c.source THEN c.points ELSE 0
    BY <1>2
  <2>3. Games!Due(c, n, k) = d
    BY <1>1, <2>2 DEF Games!Due
  <2>4. k \in Games!Source
    BY DEF Kind, Games!Source
  <2>5. entries'[n][k] = entries[n][k] + d
    BY <1>2, <1>6, <1>7, <2>2, <2>4
  <2>6. /\ entries[n][k] \in Nat /\ dropped[n][k] \in Nat /\ played[n] \in Nat
        /\ completions[n] \in Nat
    BY <2>4 DEF EarningsInv, GamesInv, GamesTypeOK
  <2>7. PICK e \in Nat : e = IF k = "game" THEN played[n] ELSE completions[n]
    BY <2>6
  <2>8. /\ Beyond(n, k) = entries[n][k] + dropped[n][k] - e
        /\ Beyond(n, k)' = entries'[n][k] + dropped[n][k] - e
    BY <1>6, <2>7 DEF Beyond
  <2>9. QED
    BY <2>1, <2>3, <2>5, <2>6, <2>8
<1>9. dropped' \in [Player -> [Kind -> Nat]]
  BY <1>6 DEF EarningsInv
<1>10. QED
  BY <1>5, <1>8, <1>9, EarningsStep

\* What the server was about to enter when it was lost is dropped.
LEMMA PointsDropped ==
    ASSUME Games!ConstantsOK, EarningsInv, GamesInv', NEW w \in Worker, Games!Abort(w)
    PROVE  EarningsInv'
<1>. PICK c : c = txn[w]
  OBVIOUS
<1>1. c \in GamesTxn /\ c # Games!Idle
  BY DEF Games!Abort, EarningsInv, GamesInv, GamesTypeOK
<1>2. c.op # "idle"
  BY <1>1 DEF GamesTxn
<1>3. txn'[w].op = "idle" /\ OthersStay(w)
  BY <1>2, Steps, GamesRequests DEF Games!Abort, EarningsInv, GamesInv, GamesTypeOK
<1>4. UNCHANGED <<played, completions, entries>>
  BY DEF Games!Abort, Games!Plays
<1>5. dropped \in [Player -> [Kind -> Nat]]
  BY DEF EarningsInv
<1>6. CASE c.op = "enter" /\ c.source \notin Award
  <2>1. c \in [op : {"enter", "missions"}, member : Player, source : Games!Source,
               points : Nat, todo : SUBSET Mission]
    BY <1>6, GamesRequestTyped DEF EarningsInv, GamesInv
  <2>2. c.source \in Kind
    BY <1>6, <2>1 DEF Games!Source, Kind
  <2>3. dropped' = [dropped EXCEPT ![c.member][c.source]
            = dropped[c.member][c.source] + c.points]
    BY <1>6 DEF Games!Abort
  <2>4. dropped' \in [Player -> [Kind -> Nat]]
    BY <1>5, <2>1, <2>2, <2>3
  <2>5. ASSUME NEW n \in Player, NEW k \in Kind
        PROVE  Beyond(n, k)' + Games!Due(txn'[w], n, k) =
                   Beyond(n, k) + Games!Due(txn[w], n, k)
    <3>1. Games!Due(txn'[w], n, k) = 0
      BY <1>3, DueTyped
    <3>2. PICK d \in Nat : d = IF n = c.member /\ k = c.source THEN c.points ELSE 0
      BY <2>1
    <3>3. Games!Due(c, n, k) = d
      BY <1>6, <3>2 DEF Games!Due
    <3>4. dropped'[n][k] = dropped[n][k] + d
      BY <1>5, <2>1, <2>2, <2>3, <3>2
    <3>5. k \in Games!Source
      BY DEF Kind, Games!Source
    <3>6. /\ entries[n][k] \in Nat /\ dropped[n][k] \in Nat /\ played[n] \in Nat
          /\ completions[n] \in Nat
      BY <3>5 DEF EarningsInv, GamesInv, GamesTypeOK
    <3>7. PICK e \in Nat : e = IF k = "game" THEN played[n] ELSE completions[n]
      BY <3>6
    <3>8. /\ Beyond(n, k) = entries[n][k] + dropped[n][k] - e
          /\ Beyond(n, k)' = entries[n][k] + dropped'[n][k] - e
      BY <1>4, <3>7 DEF Beyond
    <3>9. QED
      BY <3>1, <3>3, <3>4, <3>6, <3>8
  <2>6. QED
    BY <1>3, <2>4, <2>5, EarningsStep
<1>7. CASE ~(c.op = "enter" /\ c.source \notin Award)
  <2>1. dropped' = dropped
    BY <1>7 DEF Games!Abort
  <2>2. ASSUME NEW n \in Player, NEW k \in Kind
        PROVE  Beyond(n, k)' + Games!Due(txn'[w], n, k) =
                   Beyond(n, k) + Games!Due(txn[w], n, k)
    <3>1. k \notin Award
      BY GamesConstants DEF Kind
    <3>2. Games!Due(txn'[w], n, k) = 0 /\ Games!Due(txn[w], n, k) = 0
      BY <1>3, <1>7, <3>1, DueTyped
    <3>3. Beyond(n, k)' = Beyond(n, k)
      BY <1>4, <2>1 DEF Beyond
    <3>4. QED
      BY <3>2, <3>3
  <2>3. dropped' \in [Player -> [Kind -> Nat]]
    BY <1>5, <2>1
  <2>4. QED
    BY <1>3, <2>2, <2>3, EarningsStep
<1>8. QED
  BY <1>6, <1>7


LEMMA NextEarnings ==
    ASSUME Games!ConstantsOK, EarningsInv, [Games!Next]_Games!vars
    PROVE  EarningsInv'
<1>. GamesInv /\ GamesTypeOK /\ txn \in [Worker -> GamesTxn] /\ Alone
  BY DEF EarningsInv, GamesInv, GamesTypeOK
<1>1. GamesInv'
  BY NextGames
<1>2. ASSUME NEW w \in Worker, Games!Abort(w)
      PROVE  EarningsInv'
  BY <1>1, <1>2, PointsDropped
<1>3. ASSUME NEW w \in Worker, Games!EnterPoints(w)
      PROVE  EarningsInv'
  BY <1>1, <1>3, PointsEntered
<1>4. ASSUME NEW w \in Worker, NEW m \in Player, NEW source \in Award,
             Games!ReadAward(w, m, source)
      PROVE  EarningsInv'
  <2>1. PICK t : /\ Games!Begin(w, t) /\ t.source = source
                 /\ UNCHANGED <<played, entries, completions, dropped>>
    BY <1>4 DEF Games!ReadAward, Games!ToEnter, Games!Tables, Games!Plays, Games!Points
  <2>2. txn[w].op = "idle" /\ txn'[w] = t /\ OthersStay(w)
    BY <2>1, Steps, GamesRequests
  <2>3. source \notin Kind
    BY GamesConstants DEF Kind
  <2>4. QED
    BY <1>1, <2>1, <2>2, <2>3, NothingEarned
<1>5. ASSUME NEW w \in Worker, NEW m \in Player, NEW g \in Game, Games!ReadPlay(w, m, g)
      PROVE  EarningsInv'
  <2>1. PICK p : Games!Begin(w, [op |-> "play", member |-> m, game |-> g, points |-> p])
    BY <1>5 DEF Games!ReadPlay
  <2>2. txn[w].op = "idle" /\ txn'[w].op = "play" /\ OthersStay(w)
    BY <2>1, Steps, GamesRequests
  <2>3. UNCHANGED <<played, entries, completions, dropped>>
    BY <1>5 DEF Games!ReadPlay, Games!Tables, Games!Plays, Games!Points
  <2>4. QED
    BY <1>1, <2>2, <2>3, NothingEarned
<1>6. ASSUME NEW w \in Worker, NEW m \in Player, NEW g \in Game, Games!ReadStart(w, m, g)
      PROVE  EarningsInv'
  <2>1. txn[w].op = "idle" /\ txn'[w].op = "start" /\ OthersStay(w)
    BY <1>6, Steps, GamesRequests DEF Games!ReadStart
  <2>2. UNCHANGED <<played, entries, completions, dropped>>
    BY <1>6 DEF Games!ReadStart, Games!Tables, Games!Plays, Games!Points
  <2>3. QED
    BY <1>1, <2>1, <2>2, NothingEarned
<1>7. ASSUME NEW w \in Worker, Games!CreatePlay(w)
      PROVE  EarningsInv'
  <2>. PICK c : c = txn[w]
    OBVIOUS
  <2>1. c.op = "play"
    BY <1>7 DEF Games!CreatePlay
  <2>2. c \in [op : {"play"}, member : Player, game : Game, points : Nat]
    BY <2>1, GamesRequestTyped
  <2>3. PICK todo : /\ Games!Continue(w, Games!ToEnter(c.member, "game", c.points, todo))
                    /\ Games!AddPlay(c.member, c.game, c.points) /\ UNCHANGED Games!Points
    BY <1>7 DEF Games!CreatePlay
  <2>4. QED
    BY <1>1, <2>1, <2>2, <2>3, PlayEarned
<1>8. ASSUME NEW w \in Worker, Games!CancelStarted(w)
      PROVE  EarningsInv'
  <2>1. txn[w].op = "start"
    BY <1>8 DEF Games!CancelStarted
  <2>2. txn[w] \in [op : {"start", "create"}, member : Player, game : Game]
    BY <2>1, GamesRequestTyped
  <2>3. Games!Continue(w, [txn[w] EXCEPT !.op = "create"])
    BY <1>8 DEF Games!CancelStarted
  <2>4. txn'[w].op = "create" /\ OthersStay(w)
    BY <2>2, <2>3, Steps, GamesRequests
  <2>5. UNCHANGED <<played, entries, completions, dropped>>
    BY <1>8 DEF Games!CancelStarted, Games!Points
  <2>6. QED
    BY <1>1, <2>1, <2>4, <2>5, NothingEarned
<1>9. ASSUME NEW w \in Worker, NEW s \in Session, Games!CreateSession(w, s)
      PROVE  EarningsInv'
  <2>1. txn[w].op = "create" /\ txn'[w].op = "idle" /\ OthersStay(w)
    BY <1>9, Steps, GamesRequests DEF Games!CreateSession
  <2>2. UNCHANGED <<played, entries, completions, dropped>>
    BY <1>9 DEF Games!CreateSession, Games!Points
  <2>3. QED
    BY <1>1, <2>1, <2>2, NothingEarned
<1>10. ASSUME NEW w \in Worker, NEW s \in Session, Games!ReadFinish(w, s)
       PROVE  EarningsInv'
  <2>1. PICK t : t.op \in {"finish", "expire"} /\ Games!Begin(w, t)
    BY <1>10 DEF Games!ReadFinish
  <2>2. txn[w].op = "idle" /\ txn'[w].op # "enter" /\ OthersStay(w)
    BY <2>1, Steps, GamesRequests
  <2>3. UNCHANGED <<played, entries, completions, dropped>>
    BY <1>10 DEF Games!ReadFinish, Games!Tables, Games!Plays, Games!Points
  <2>4. QED
    BY <1>1, <2>2, <2>3, NothingEarned
<1>11. ASSUME NEW w \in Worker, Games!CommitFinish(w)
       PROVE  EarningsInv'
  <2>. PICK c : c = txn[w]
    OBVIOUS
  <2>1. c.op = "finish"
    BY <1>11 DEF Games!CommitFinish
  <2>2. c \in [op : {"finish"}, session : Session, points : Nat]
    BY <2>1, GamesRequestTyped
  <2>3. session[c.session].member \in Player
    BY <2>1 DEF GamesInv, Started, SessionLine
  <2>4. /\ Games!AddPlay(session[c.session].member, session[c.session].game, c.points)
        /\ Games!Continue(w,
               Games!ToEnter(session[c.session].member, "game", c.points, OnPlay))
        /\ UNCHANGED Games!Points
    BY <1>11 DEF Games!CommitFinish
  <2>5. QED
    BY <1>1, <2>1, <2>2, <2>3, <2>4, PlayEarned
<1>12. ASSUME NEW w \in Worker, Games!CommitExpire(w)
       PROVE  EarningsInv'
  <2>1. txn[w].op = "expire" /\ txn'[w].op = "idle" /\ OthersStay(w)
    BY <1>12, Steps, GamesRequests DEF Games!CommitExpire
  <2>2. UNCHANGED <<played, entries, completions, dropped>>
    BY <1>12 DEF Games!CommitExpire, Games!Points
  <2>3. QED
    BY <1>1, <2>1, <2>2, NothingEarned
<1>13. ASSUME NEW w \in Worker, NEW q \in Mission, Games!PassOver(w, q)
       PROVE  EarningsInv'
  <2>1. txn[w].op = "missions"
    BY <1>13 DEF Games!PassOver
  <2>2. txn[w] \in [op : {"enter", "missions"}, member : Player, source : Games!Source,
                    points : Nat, todo : SUBSET Mission]
    BY <2>1, GamesRequestTyped
  <2>3. Games!Continue(w, [txn[w] EXCEPT !.todo = txn[w].todo \ {q}])
    BY <1>13 DEF Games!PassOver
  <2>4. txn'[w].op = "missions" /\ OthersStay(w)
    BY <2>1, <2>2, <2>3, Steps, GamesRequests
  <2>5. UNCHANGED <<played, entries, completions, dropped>>
    BY <1>13 DEF Games!PassOver, Games!Tables, Games!Plays, Games!Points
  <2>6. QED
    BY <1>1, <2>1, <2>4, <2>5, NothingEarned
<1>14. ASSUME NEW w \in Worker, NEW q \in Mission, Games!ReadMission(w, q)
       PROVE  EarningsInv'
  <2>1. txn[w].op = "missions" /\ \E t : t.op = "progress" /\ Games!Continue(w, t)
    BY <1>14 DEF Games!ReadMission
  <2>2. txn'[w].op = "progress" /\ OthersStay(w)
    BY <2>1, Steps, GamesRequests
  <2>3. UNCHANGED <<played, entries, completions, dropped>>
    BY <1>14 DEF Games!ReadMission, Games!Tables, Games!Plays, Games!Points
  <2>4. QED
    BY <1>1, <2>1, <2>2, <2>3, NothingEarned
<1>15. ASSUME NEW w \in Worker, Games!WriteProgress(w)
       PROVE  EarningsInv'
  BY <1>1, <1>15, MissionEarned
<1>16. ASSUME NEW w \in Worker, Games!Answer(w)
       PROVE  EarningsInv'
  <2>1. txn[w].op = "missions" /\ txn'[w].op = "idle" /\ OthersStay(w)
    BY <1>16, Steps, GamesRequests DEF Games!Answer
  <2>2. UNCHANGED <<played, entries, completions, dropped>>
    BY <1>16 DEF Games!Answer, Games!Tables, Games!Plays, Games!Points
  <2>3. QED
    BY <1>1, <2>1, <2>2, NothingEarned
<1>17. ASSUME UNCHANGED Games!vars
       PROVE  EarningsInv'
  <2>1. UNCHANGED <<played, entries, completions, dropped, txn>>
    BY <1>17 DEF Games!vars
  <2>2. \A m, k : /\ Beyond(m, k)' = Beyond(m, k)
                  /\ Games!Pending(m, k)' = Games!Pending(m, k)
    BY <2>1 DEF Beyond, Games!Pending
  <2>3. QED
    BY <1>1, <2>1, <2>2 DEF EarningsInv
<1>18. QED
  BY <1>2, <1>3, <1>4, <1>5, <1>6, <1>7, <1>8, <1>9, <1>10, <1>11, <1>12, <1>13, <1>14,
     <1>15, <1>16, <1>17 DEF Games!Next

\* Whatever requests overlap, and wherever the server is lost: the points of every play and
\* of every mission completed are entered in the history once, are still to be entered by
\* the request that earned them, or were dropped with it.
THEOREM EarningsAreExplained == Games!Spec => []EarningsExplained
<1>1. EarningsInv => EarningsExplained
  <2>. SUFFICES ASSUME EarningsInv, NEW m \in Player
                PROVE  /\ entries[m]["game"] + Games!Pending(m, "game") + dropped[m]["game"]
                              = played[m]
                       /\ entries[m]["mission"] + Games!Pending(m, "mission")
                              + dropped[m]["mission"] = completions[m]
    BY DEF EarningsExplained, Games!EarningsExplained
  <2>1. "game" \in Kind /\ "mission" \in Kind
    BY DEF Kind
  <2>2. /\ Beyond(m, "game") + Games!Pending(m, "game") = 0
        /\ Beyond(m, "mission") + Games!Pending(m, "mission") = 0
    BY <2>1 DEF EarningsInv
  <2>3. \A k \in Kind : Games!Pending(m, k) \in Int
    <3>1. ASSUME NEW k \in Kind
          PROVE  Games!Pending(m, k) \in Int
      <4>. DEFINE g == [v \in Worker |-> Games!Due(txn[v], m, k)]
      <4>1. \A v \in Worker : g[v] \in Int
        BY DueTyped DEF EarningsInv, GamesInv, GamesTypeOK
      <4>2. Games!Pending(m, k) = SumFunctionOnSet(g, Worker)
        BY GamesSums DEF Games!Pending, SumFunction
      <4>3. IsFiniteSet(Worker)
        BY ComponentsOK
      <4>. HIDE DEF g
      <4>4. QED
        BY <4>1, <4>2, <4>3, SumType
    <3>2. QED
      BY <3>1
  <2>4. /\ entries[m]["game"] \in Nat /\ entries[m]["mission"] \in Nat
        /\ dropped[m]["game"] \in Nat /\ dropped[m]["mission"] \in Nat
        /\ played[m] \in Nat /\ completions[m] \in Nat
    BY <2>1 DEF EarningsInv, GamesInv, GamesTypeOK, Games!Source
  <2>5. /\ Beyond(m, "game") = entries[m]["game"] + dropped[m]["game"] - played[m]
        /\ Beyond(m, "mission") =
               entries[m]["mission"] + dropped[m]["mission"] - completions[m]
    BY DEF Beyond
  <2>6. Games!Pending(m, "game") \in Int /\ Games!Pending(m, "mission") \in Int
    BY <2>1, <2>3
  <2>7. \A e, d, p, t : e \in Nat /\ d \in Nat /\ p \in Int /\ t \in Nat
            => (e + d - t + p = 0 => e + p + d = t)
    OBVIOUS
  <2>8. QED
    BY <2>2, <2>4, <2>5, <2>6, <2>7
<1>2. Games!Init => EarningsInv
  BY InitEarnings, GamesOK
<1>3. EarningsInv /\ [Games!Next]_Games!vars => EarningsInv'
  BY NextEarnings, GamesOK
<1>4. QED
  BY <1>1, <1>2, <1>3, PTL DEF Games!Spec
-----------------------------------------------------------------------------
(* Notices: one for each condition and event, as long as no sync outlives  *)
(* its lock.                                                               *)

Syncs == {w \in Worker : Board!Syncing(w)}
Kept == Board!Open \ reopened

\* A write is of a notice that is there, and so are the notices a sync has read.
Known(w) ==
    LET t == txn[w] IN
    /\ t.op = "write" => t.notice \in Board!Rows
    /\ t.op = "sync" /\ t.step \in {"read", "raise"} => t.open \subseteq Board!Rows

\* What a sync is about to raise has no open notice, what it is about to file has none.
Ahead(w) ==
    LET t == txn[w] IN
    /\ t.op = "sync" /\ t.step = "read" /\ "open" \notin t.left => Kept \subseteq t.open
    /\ t.op = "sync" /\ t.step = "raise" => \A n \in Kept : notice[n].key \notin t.todo
    /\ t.op = "sync" /\ t.step = "file" => \A n \in Board!Rows : notice[n].key \notin t.todo

\* The lock lets in one sync at a time, which is why what it has read stands.
SyncedAlone ==
    /\ \A w \in Syncs : lock
    /\ \A v, w \in Syncs : v = w
    /\ \A w \in Worker : Ahead(w)

OneOpen == \A n, m \in Kept : notice[n].key = notice[m].key => n = m
OneEver ==
    \A n, m \in Board!Rows : notice[n].key \in Event /\ notice[n].key = notice[m].key => n = m

NoticesInv ==
    /\ Board!TypeOK
    /\ \A w \in Worker : Known(w)
    /\ ~lapsed => SyncedAlone /\ OneOpen /\ OneEver

\* No notice is made, no key changes, and one that is opened is remembered.
Tidy ==
    /\ Board!Rows' = Board!Rows
    /\ \A n \in Board!Rows : notice'[n].key = notice[n].key
    /\ Kept' \subseteq Kept

WriteTxn == [op : {"write"}, notice : Notice, status : Board!Status]
AskedTxn == [op : {"sync"}, step : {"asked"}, server : Server]
ReadTxn ==
    [op : {"sync"}, step : {"read"}, left : SUBSET {"open", "holds"},
     open : SUBSET Notice, holds : SUBSET (Condition \cup Event)]
RaiseTxn ==
    [op : {"sync"}, step : {"raise"}, todo : SUBSET Condition,
     open : SUBSET Notice, holds : SUBSET (Condition \cup Event)]
CloseTxn == [op : {"sync"}, step : {"close"}, holds : SUBSET (Condition \cup Event)]
FileTxn == [op : {"sync"}, step : {"file"}, todo : SUBSET Event]

LEMMA NoticeRequestTyped ==
    ASSUME Board!TypeOK, NEW w \in Worker
    PROVE  /\ txn[w].op = "write" => txn[w] \in WriteTxn
           /\ txn[w].op = "sync" /\ txn[w].step = "asked" => txn[w] \in AskedTxn
           /\ txn[w].op = "sync" /\ txn[w].step = "read" => txn[w] \in ReadTxn
           /\ txn[w].op = "sync" /\ txn[w].step = "raise" => txn[w] \in RaiseTxn
           /\ txn[w].op = "sync" /\ txn[w].step = "close" => txn[w] \in CloseTxn
           /\ txn[w].op = "sync" /\ txn[w].step = "file" => txn[w] \in FileTxn
BY DEF Board!TypeOK, Board!Txn, Board!Idle, WriteTxn, AskedTxn, ReadTxn, RaiseTxn, CloseTxn,
       FileTxn

LEMMA TxnNamed == Board!Txn = {Board!Idle} \cup WriteTxn \cup AskedTxn \cup ReadTxn \cup RaiseTxn
                        \cup CloseTxn \cup FileTxn
BY DEF Board!Txn, WriteTxn, AskedTxn, ReadTxn, RaiseTxn, CloseTxn, FileTxn

KeptRow == [status : Board!Status, key : Condition \cup Event]

\* Rows and open notices, by their status.
LEMMA NoticeTyped ==
    ASSUME Board!TypeOK
    PROVE  /\ \A n \in Board!Rows : n \in Notice /\ notice[n] \in KeptRow
           /\ Board!Open \subseteq Board!Rows
<1>1. notice \in [Notice -> Board!NoticeRow]
  BY DEF Board!TypeOK
<1>2. \A n \in Board!Rows : n \in Notice /\ notice[n] \in KeptRow
  BY <1>1 DEF Board!Rows, Board!NoticeRow, KeptRow
<1>3. Board!Open \subseteq Board!Rows
  BY DEF Board!Open, Board!Rows, Board!NoNotice, Board!OpenStatus
<1>4. QED
  BY <1>2, <1>3

\* Steps of w that make no notice: what the others are about to do is as good as it was.
LEMMA TidyStep ==
    ASSUME NoticesInv, Board!TypeOK', Tidy, ~lapsed' => ~lapsed,
           NEW w \in Worker, \A v \in Worker \ {w} : txn'[v] = txn[v],
           Known(w)', ~lapsed' => Ahead(w)',
           ~lapsed' => /\ Board!Syncing(w)' => lock' /\ (Board!Syncing(w) \/ Syncs = {})
                       /\ \A v \in Syncs \ {w} : lock'
    PROVE  NoticesInv'
<1>. Board!TypeOK /\ Board!TypeOK'
  BY DEF NoticesInv
<1>1. \A v \in Worker : Known(v)'
  <2>1. ASSUME NEW v \in Worker \ {w}
        PROVE  Known(v)'
    BY <2>1 DEF NoticesInv, Known, Tidy
  <2>2. QED
    BY <2>1
<1>2. ASSUME ~lapsed'
      PROVE  SyncedAlone' /\ OneOpen' /\ OneEver'
  <2>0. SyncedAlone /\ OneOpen /\ OneEver
    BY <1>2 DEF NoticesInv
  <2>1. Kept \subseteq Board!Rows /\ Kept' \subseteq Kept
    BY NoticeTyped DEF Kept, Tidy
  <2>2. OneOpen'
    BY <2>0, <2>1 DEF OneOpen, Tidy
  <2>3. OneEver'
    BY <2>0 DEF OneEver, Tidy
  <2>4. ASSUME NEW v \in Worker
        PROVE  Ahead(v)'
    <3>1. CASE v = w
      BY <1>2, <3>1
    <3>2. CASE v # w
      <4>1. txn'[v] = txn[v] /\ Ahead(v)
        BY <2>0, <3>2 DEF SyncedAlone
      <4>2. QED
        BY <2>1, <4>1 DEF Ahead, Tidy
    <3>3. QED
      BY <3>1, <3>2
  <2>5. \A v \in Worker \ {w} : v \in Syncs' <=> v \in Syncs
    BY DEF Syncs, Board!Syncing
  <2>6. \A v \in Syncs' : lock'
    BY <1>2, <2>5 DEF Syncs
  <2>7. \A u, v \in Syncs' : u = v
    BY <1>2, <2>0, <2>5 DEF SyncedAlone, Syncs
  <2>8. QED
    BY <2>2, <2>3, <2>4, <2>6, <2>7 DEF SyncedAlone
<1>3. QED
  BY <1>1, <1>2 DEF NoticesInv

LEMMA NoticeTxnStep ==
    ASSUME Board!TypeOK, NEW w \in Worker, NEW t \in Board!Txn,
           Board!Begin(w, t) \/ Board!Continue(w, t)
    PROVE  /\ txn' \in [Worker -> Board!Txn] /\ overlapped' \in BOOLEAN
           /\ txn'[w] = t /\ \A v \in Worker \ {w} : txn'[v] = txn[v]
<1>1. txn' = [txn EXCEPT ![w] = t]
  BY DEF Board!Begin, Board!Continue
<1>2. overlapped' \in BOOLEAN
  BY DEF Board!TypeOK, Board!Begin, Board!Continue, Board!Overlap
<1>3. QED
  BY <1>1, <1>2 DEF Board!TypeOK

LEMMA CreateTyped ==
    ASSUME Board!TypeOK, NEW k \in Condition \cup Event, Board!Create(k)
    PROVE  \E n \in Notice \ Board!Rows :
              /\ notice' = [notice EXCEPT ![n] = [status |-> "UNREAD", key |-> k]]
              /\ notice' \in [Notice -> Board!NoticeRow]
<1>1. PICK n : n = CHOOSE m \in Notice \ Board!Rows : TRUE
  OBVIOUS
<1>2. /\ n \in Notice \ Board!Rows
      /\ notice' = [notice EXCEPT ![n] = [status |-> "UNREAD", key |-> k]]
  BY <1>1 DEF Board!Create
<1>3. [status |-> "UNREAD", key |-> k] \in Board!NoticeRow
  BY DEF Board!NoticeRow, Board!Status, Board!OpenStatus
<1>4. QED
  BY <1>2, <1>3 DEF Board!TypeOK

LEMMA NextNoticesTyped ==
    ASSUME Board!ConstantsOK, Board!TypeOK, \A w \in Worker : Known(w), [Board!Next]_Board!vars
    PROVE  Board!TypeOK'
<1>1. ASSUME NEW k \in Condition \cup Event, Board!Change(k)
      PROVE  Board!TypeOK'
  BY <1>1 DEF Board!ConstantsOK, Board!Change, Board!Move, Board!TypeOK
<1>2. ASSUME NEW s \in Server, Board!ExpireCache(s)
      PROVE  Board!TypeOK'
  BY <1>2 DEF Board!ExpireCache, Board!TypeOK
<1>3. ASSUME Board!ExpireLock
      PROVE  Board!TypeOK'
  BY <1>3 DEF Board!ExpireLock, Board!TypeOK
<1>4. ASSUME NEW w \in Worker, NEW n \in Notice, Board!ReadWrite(w, n)
      PROVE  Board!TypeOK'
  <2>1. notice[n].status \in Board!Status
    BY <1>4, NoticeTyped DEF Board!ReadWrite, KeptRow
  <2>2. PICK s \in {IF notice[n].status = "UNREAD" THEN "READ" ELSE notice[n].status,
                    "IN_REVIEW", "RESOLVED", "ARCHIVED"} :
            Board!Begin(w, [op |-> "write", notice |-> n, status |-> s])
    BY <1>4 DEF Board!ReadWrite
  <2>3. s \in Board!Status
    BY <2>1, <2>2 DEF Board!Status, Board!OpenStatus
  <2>4. [op |-> "write", notice |-> n, status |-> s] \in Board!Txn
    BY <2>3 DEF Board!Txn
  <2>5. QED
    BY <1>4, <2>2, <2>4, NoticeTxnStep
    DEF Board!ConstantsOK, Board!ReadWrite, Board!Move, Board!TypeOK
<1>5. ASSUME NEW w \in Worker, Board!MarkAllRead(w)
      PROVE  Board!TypeOK'
  <2>1. ASSUME NEW n \in Notice, notice[n].status = "UNREAD"
        PROVE  [status |-> "READ", key |-> notice[n].key] \in Board!NoticeRow
    <3>1. n \in Board!Rows
      BY <2>1 DEF Board!Rows, Board!NoNotice
    <3>2. QED
      BY <3>1, NoticeTyped DEF Board!NoticeRow, Board!Status, Board!OpenStatus, KeptRow
  <2>2. notice' \in [Notice -> Board!NoticeRow]
    BY <1>5, <2>1 DEF Board!MarkAllRead, Board!TypeOK
  <2>3. QED
    BY <1>5, <2>2
    DEF Board!ConstantsOK, Board!MarkAllRead, Board!Move, Board!AtOnce, Board!Overlap,
        Board!TypeOK
<1>6. ASSUME NEW w \in Worker, Board!Abort(w)
      PROVE  Board!TypeOK'
  <2>1. Board!Idle \in Board!Txn /\ Board!Continue(w, Board!Idle)
    BY <1>6 DEF Board!Txn, Board!Abort, Board!Done
  <2>2. QED
    BY <1>6, <2>1, NoticeTxnStep DEF Board!ConstantsOK, Board!Abort, Board!TypeOK
<1>7. ASSUME NEW w \in Worker, NEW s \in Server, Board!ReadSync(w, s)
      PROVE  Board!TypeOK'
  <2>1. [op |-> "sync", step |-> "asked", server |-> s] \in Board!Txn
    BY DEF Board!Txn
  <2>2. QED
    BY <1>7, <2>1, NoticeTxnStep DEF Board!ReadSync, Board!TypeOK
<1>8. ASSUME NEW w \in Worker, Board!CommitWrite(w)
      PROVE  Board!TypeOK'
  <2>. PICK c : c = txn[w]
    OBVIOUS
  <2>1. c.op = "write" /\ c.notice \in Board!Rows
    BY <1>8 DEF Board!CommitWrite, Known
  <2>2. c.notice \in Notice /\ c.status \in Board!Status
    BY <2>1, NoticeRequestTyped DEF WriteTxn
  <2>3. notice[c.notice].key \in Condition \cup Event
    BY <2>1, NoticeTyped DEF KeptRow
  <2>4. [status |-> c.status, key |-> notice[c.notice].key] \in Board!NoticeRow
    BY <2>2, <2>3 DEF Board!NoticeRow
  <2>5. notice' = [notice EXCEPT ![c.notice] =
                     [status |-> c.status, key |-> notice[c.notice].key]]
    BY <1>8 DEF Board!CommitWrite
  <2>6. notice' \in [Notice -> Board!NoticeRow]
    BY <2>4, <2>5 DEF Board!TypeOK
  <2>7. Board!Idle \in Board!Txn /\ Board!Continue(w, Board!Idle)
    BY <1>8 DEF Board!Txn, Board!CommitWrite, Board!Done
  <2>8. reopened' \subseteq Notice
    BY <1>8, <2>2 DEF Board!CommitWrite, Board!TypeOK
  <2>9. QED
    BY <1>8, <2>6, <2>7, <2>8, NoticeTxnStep DEF Board!CommitWrite, Board!TypeOK
<1>9. ASSUME NEW w \in Worker, Board!NotAcquired(w)
      PROVE  Board!TypeOK'
  <2>1. Board!Idle \in Board!Txn /\ Board!Continue(w, Board!Idle)
    BY <1>9 DEF Board!Txn, Board!NotAcquired, Board!Done
  <2>2. QED
    BY <1>9, <2>1, NoticeTxnStep DEF Board!NotAcquired, Board!TypeOK
<1>10. ASSUME NEW w \in Worker, Board!Acquire(w)
       PROVE  Board!TypeOK'
  <2>. PICK t : t = [op |-> "sync", step |-> "read", left |-> {"open", "holds"},
                     open |-> {}, holds |-> {}]
    OBVIOUS
  <2>1. t \in Board!Txn
    BY DEF Board!Txn
  <2>2. Board!Continue(w, t)
    BY <1>10 DEF Board!Acquire
  <2>3. txn[w].server \in Server
    BY <1>10, NoticeRequestTyped DEF Board!Acquire, AskedTxn
  <2>4. QED
    BY <1>10, <2>1, <2>2, <2>3, NoticeTxnStep DEF Board!Acquire, Board!TypeOK
<1>11. ASSUME NEW w \in Worker, NEW part \in {"open", "holds"}, Board!Read(w, part)
       PROVE  Board!TypeOK'
  <2>. PICK c : c = txn[w]
    OBVIOUS
  <2>1. c \in ReadTxn
    BY <1>11, NoticeRequestTyped DEF Board!Read
  <2>2. PICK read : read = IF part = "open"
                           THEN [c EXCEPT !.left = c.left \ {part}, !.open = Board!OpenNotices]
                           ELSE [c EXCEPT !.left = c.left \ {part}, !.holds = holds]
    OBVIOUS
  <2>3. Board!OpenNotices \subseteq Notice /\ holds \subseteq Condition \cup Event
    BY DEF Board!OpenNotices, Board!Open, Board!TypeOK
  <2>4. read \in ReadTxn
    BY <2>1, <2>2, <2>3 DEF ReadTxn
  <2>5. PICK t : t = IF read.left # {} THEN read
                     ELSE [op |-> "sync", step |-> "raise", open |-> read.open,
                           holds |-> read.holds,
                           todo |-> (read.holds \cap Condition) \ Board!KeysOf(read.open)]
    OBVIOUS
  <2>6. t \in Board!Txn
    <3>1. CASE read.left # {}
      BY <2>4, <2>5, <3>1, TxnNamed
    <3>2. CASE read.left = {}
      <4>1. t \in RaiseTxn
        BY <2>4, <2>5, <3>2 DEF ReadTxn, RaiseTxn
      <4>2. QED
        BY <4>1, TxnNamed
    <3>3. QED
      BY <3>1, <3>2
  <2>7. Board!Continue(w, t)
    BY <1>11, <2>2, <2>5 DEF Board!Read
  <2>8. QED
    BY <1>11, <2>6, <2>7, NoticeTxnStep DEF Board!Read, Board!TypeOK
<1>12. ASSUME NEW w \in Worker, Board!Raise(w)
       PROVE  Board!TypeOK'
  <2>. PICK c : c = txn[w]
    OBVIOUS
  <2>1. c \in RaiseTxn
    BY <1>12, NoticeRequestTyped DEF Board!Raise
  <2>2. PICK k \in c.todo : Board!Create(k) /\ Board!Continue(w, [c EXCEPT !.todo = c.todo \ {k}])
    BY <1>12 DEF Board!Raise
  <2>. PICK t : t = [c EXCEPT !.todo = c.todo \ {k}]
    OBVIOUS
  <2>3. t \in RaiseTxn /\ k \in Condition \cup Event
    BY <2>1, <2>2 DEF RaiseTxn
  <2>4. t \in Board!Txn /\ notice' \in [Notice -> Board!NoticeRow]
    BY <2>2, <2>3, TxnNamed, CreateTyped
  <2>5. QED
    BY <1>12, <2>2, <2>4, NoticeTxnStep DEF Board!Raise, Board!TypeOK
<1>13. ASSUME NEW w \in Worker, Board!Resolve(w)
       PROVE  Board!TypeOK'
  <2>. PICK c : c = txn[w]
    OBVIOUS
  <2>1. c \in RaiseTxn /\ c.open \subseteq Board!Rows
    BY <1>13, NoticeRequestTyped DEF Board!Resolve, Known
  <2>. PICK t : t = [op |-> "sync", step |-> "close", holds |-> c.holds]
    OBVIOUS
  <2>2. t \in Board!Txn
    BY <2>1 DEF RaiseTxn, Board!Txn
  <2>3. Board!Continue(w, t)
    BY <1>13 DEF Board!Resolve
  <2>4. ASSUME NEW n \in Board!Stale(c.open, c.holds)
        PROVE  [status |-> "RESOLVED", key |-> notice[n].key] \in Board!NoticeRow
    <3>1. n \in Board!Rows
      BY <2>1, <2>4 DEF Board!Stale
    <3>2. QED
      BY <3>1, NoticeTyped DEF Board!NoticeRow, Board!Status, KeptRow
  <2>5. notice' \in [Notice -> Board!NoticeRow]
    BY <1>13, <2>4 DEF Board!Resolve, Board!TypeOK
  <2>6. QED
    BY <1>13, <2>2, <2>3, <2>5, NoticeTxnStep DEF Board!Resolve, Board!TypeOK
<1>14. ASSUME NEW w \in Worker, Board!ReadExisting(w)
       PROVE  Board!TypeOK'
  <2>. PICK c : c = txn[w]
    OBVIOUS
  <2>1. c \in CloseTxn
    BY <1>14, NoticeRequestTyped DEF Board!ReadExisting
  <2>. PICK t : t = [op |-> "sync", step |-> "file",
                     todo |-> (c.holds \cap Event) \ Board!Existing]
    OBVIOUS
  <2>2. t \in Board!Txn
    BY DEF Board!Txn
  <2>3. Board!Continue(w, t)
    BY <1>14 DEF Board!ReadExisting
  <2>4. QED
    BY <1>14, <2>2, <2>3, NoticeTxnStep DEF Board!ReadExisting, Board!TypeOK
<1>15. ASSUME NEW w \in Worker, Board!File(w)
       PROVE  Board!TypeOK'
  <2>. PICK c : c = txn[w]
    OBVIOUS
  <2>1. c \in FileTxn
    BY <1>15, NoticeRequestTyped DEF Board!File
  <2>2. PICK k \in c.todo : Board!Create(k) /\ Board!Continue(w, [c EXCEPT !.todo = c.todo \ {k}])
    BY <1>15 DEF Board!File
  <2>. PICK t : t = [c EXCEPT !.todo = c.todo \ {k}]
    OBVIOUS
  <2>3. t \in FileTxn /\ k \in Condition \cup Event
    BY <2>1, <2>2 DEF FileTxn
  <2>4. t \in Board!Txn /\ notice' \in [Notice -> Board!NoticeRow]
    BY <2>2, <2>3, TxnNamed, CreateTyped
  <2>5. QED
    BY <1>15, <2>2, <2>4, NoticeTxnStep DEF Board!File, Board!TypeOK
<1>16. ASSUME NEW w \in Worker, Board!EndSync(w)
       PROVE  Board!TypeOK'
  <2>1. Board!Idle \in Board!Txn /\ Board!Continue(w, Board!Idle)
    BY <1>16 DEF Board!Txn, Board!EndSync, Board!Done
  <2>2. QED
    BY <1>16, <2>1, NoticeTxnStep DEF Board!EndSync, Board!TypeOK
<1>17. ASSUME UNCHANGED Board!vars
       PROVE  Board!TypeOK'
  BY <1>17 DEF Board!vars, Board!TypeOK
<1>18. QED
  BY <1>1, <1>2, <1>3, <1>4, <1>5, <1>6, <1>7, <1>8, <1>9, <1>10, <1>11, <1>12, <1>13,
     <1>14, <1>15, <1>16, <1>17 DEF Board!Next, Board!Step

\* What a sync makes is the only one of its kind: nobody else makes notices meanwhile.
LEMMA CreateStep ==
    ASSUME NoticesInv, Board!TypeOK', NEW w \in Worker, Board!Syncing(w),
           NEW k, NEW n \in Notice \ Board!Rows,
           notice' = [notice EXCEPT ![n] = [status |-> "UNREAD", key |-> k]],
           UNCHANGED <<lock, lapsed, reopened>>,
           \A v \in Worker \ {w} : txn'[v] = txn[v], Board!Syncing(w)', Known(w)',
           ~lapsed => /\ \A m \in Kept : notice[m].key # k
                      /\ k \in Event => \A m \in Board!Rows : notice[m].key # k,
           ~lapsed => Ahead(w)'
    PROVE  NoticesInv'
<1>. Board!TypeOK /\ Board!TypeOK'
  BY DEF NoticesInv
<1>1. /\ notice'[n] = [status |-> "UNREAD", key |-> k]
      /\ \A m \in Notice \ {n} : notice'[m] = notice[m]
  BY DEF Board!TypeOK
<1>2. /\ n \in Notice /\ n \notin Board!Rows /\ n \notin Board!Open
      /\ Board!Open \subseteq Board!Rows
  BY NoticeTyped DEF KeptRow
<1>3. Board!Rows' = Board!Rows \cup {n}
  BY <1>1, <1>2 DEF Board!Rows, Board!NoNotice
<1>4. Kept' \subseteq Kept \cup {n}
  BY <1>1, <1>2 DEF Kept, Board!Open
<1>5. notice'[n].key = k /\ \A m \in Board!Rows : notice'[m].key = notice[m].key
  BY <1>1, <1>2
<1>6. ASSUME NEW v \in Worker
      PROVE  Known(v)'
  <2>1. CASE v = w
    BY <2>1
  <2>2. CASE v # w
    BY <1>3, <2>2 DEF NoticesInv, Known
  <2>3. QED
    BY <2>1, <2>2
<1>7. ASSUME ~lapsed'
      PROVE  SyncedAlone' /\ OneOpen' /\ OneEver'
  <2>1. SyncedAlone /\ OneOpen /\ OneEver /\ ~lapsed
    BY <1>7 DEF NoticesInv
  <2>2. Syncs = {w} /\ lock
    BY <2>1 DEF SyncedAlone, Syncs
  <2>3. OneOpen'
    <3>1. Kept \subseteq Board!Rows
      BY <1>2 DEF Kept
    <3>2. QED
      BY <1>4, <1>5, <2>1, <3>1 DEF OneOpen
  <2>4. OneEver'
    BY <1>3, <1>5, <2>1 DEF OneEver
  <2>5. ASSUME NEW v \in Worker \ {w}
        PROVE  ~Board!Syncing(v)' /\ Ahead(v)'
    <3>1. ~Board!Syncing(v) /\ txn'[v] = txn[v]
      BY <2>2 DEF Syncs
    <3>2. QED
      BY <3>1 DEF Board!Syncing, Ahead
  <2>6. Syncs' = {w}
    BY <2>5 DEF Syncs
  <2>7. QED
    BY <2>1, <2>2, <2>3, <2>4, <2>5, <2>6 DEF SyncedAlone
<1>8. QED
  BY <1>6, <1>7 DEF NoticesInv

\* A step that touches no notice.
LEMMA ReadingNotices ==
    ASSUME NoticesInv, Board!TypeOK', NEW w \in Worker, UNCHANGED <<notice, lapsed, reopened>>,
           \A v \in Worker \ {w} : txn'[v] = txn[v],
           Known(w)', ~lapsed => Ahead(w)',
           lock' = lock \/ (Syncs = {} /\ lock'),
           Board!Syncing(w)' => (lock' /\ (Board!Syncing(w) \/ Syncs = {})) \/ lapsed
    PROVE  NoticesInv'
<1>1. Board!Rows' = Board!Rows /\ Kept' = Kept /\ Tidy
  BY DEF Board!Rows, Kept, Board!Open, Tidy
<1>2. ~lapsed => \A v \in Syncs : lock
  BY DEF NoticesInv, SyncedAlone
<1>3. QED
  BY <1>1, <1>2, TidyStep

\* What markAllRead and resolve do to a notice.
Restated(n, s) ==
    /\ n \in Board!Rows
    /\ notice'[n] = [status |-> s, key |-> notice[n].key]
    /\ s \in Board!OpenStatus => notice[n].status \in Board!OpenStatus

LEMMA RestatedStep ==
    ASSUME Board!TypeOK, NEW s \in Board!Status,
           \A n \in Notice : Restated(n, s) \/ notice'[n] = notice[n]
    PROVE  /\ Board!Rows' = Board!Rows
           /\ \A n \in Board!Rows : notice'[n].key = notice[n].key
           /\ Board!Open' \subseteq Board!Open
<1>1. ASSUME NEW n \in Notice, Restated(n, s)
      PROVE  /\ n \in Board!Rows /\ n \in Board!Rows' /\ notice'[n].key = notice[n].key
             /\ notice'[n].status \in Board!OpenStatus => notice[n].status \in Board!OpenStatus
  <2>1. n \in Board!Rows /\ notice'[n] = [status |-> s, key |-> notice[n].key]
    BY <1>1 DEF Restated
  <2>2. notice'[n].status = s /\ notice'[n].key = notice[n].key /\ s # "NONE"
    BY <2>1 DEF Board!Status, Board!OpenStatus
  <2>3. notice'[n] # Board!NoNotice
    BY <2>2 DEF Board!NoNotice
  <2>4. QED
    BY <1>1, <2>1, <2>2, <2>3 DEF Board!Rows, Restated
<1>2. Board!Rows' = Board!Rows
  BY <1>1 DEF Board!Rows
<1>3. \A n \in Board!Rows : notice'[n].key = notice[n].key
  BY <1>1 DEF Board!Rows
<1>4. Board!Open' \subseteq Board!Open
  BY <1>1 DEF Board!Open
<1>5. QED
  BY <1>2, <1>3, <1>4

LEMMA NextNotices ==
    ASSUME Board!ConstantsOK, NoticesInv, [Board!Next]_Board!vars
    PROVE  NoticesInv'
<1>. Board!TypeOK /\ Board!TypeOK' /\ \A w \in Worker : Known(w)
  BY NextNoticesTyped DEF NoticesInv
<1>1. ASSUME UNCHANGED <<notice, lock, lapsed, reopened, txn>>
      PROVE  NoticesInv'
  BY <1>1
  DEF NoticesInv, Known, SyncedAlone, Ahead, Kept, Board!Open, Board!Rows, Syncs, Board!Syncing,
      OneOpen, OneEver
<1>2. ASSUME Board!ExpireLock
      PROVE  NoticesInv'
  <2>1. UNCHANGED <<notice, reopened, txn>> /\ (~lapsed' => ~lapsed /\ Syncs = {})
    BY <1>2 DEF Board!ExpireLock, Syncs
  <2>2. \A w \in Worker : Known(w)'
    BY <2>1 DEF Known, Board!Rows
  <2>3. ~lapsed' => SyncedAlone' /\ OneOpen' /\ OneEver'
    BY <2>1
    DEF NoticesInv, SyncedAlone, Ahead, Kept, Board!Open, Board!Rows, Syncs, Board!Syncing,
        OneOpen, OneEver
  <2>4. QED
    BY <2>2, <2>3 DEF NoticesInv
<1>3. ASSUME NEW w \in Worker, NEW n \in Notice, Board!ReadWrite(w, n)
      PROVE  NoticesInv'
  <2>1. PICK s : Board!Begin(w, [op |-> "write", notice |-> n, status |-> s])
    BY <1>3 DEF Board!ReadWrite
  <2>2. txn'[w] = [op |-> "write", notice |-> n, status |-> s]
        /\ \A v \in Worker \ {w} : txn'[v] = txn[v]
    BY <2>1 DEF Board!Begin, Board!TypeOK
  <2>3. n \in Board!Rows /\ UNCHANGED <<notice, lock, lapsed, reopened>>
    BY <1>3 DEF Board!ReadWrite
  <2>4. Known(w)' /\ Ahead(w)' /\ ~Board!Syncing(w)'
    BY <2>2, <2>3 DEF Known, Ahead, Board!Syncing, Board!Rows
  <2>5. QED
    BY <2>2, <2>3, <2>4, ReadingNotices
<1>4. ASSUME NEW w \in Worker, Board!MarkAllRead(w)
      PROVE  NoticesInv'
  <2>1. \A n \in Notice : notice'[n] =
            IF notice[n].status = "UNREAD"
            THEN [status |-> "READ", key |-> notice[n].key] ELSE notice[n]
    BY <1>4 DEF Board!MarkAllRead
  <2>2. ASSUME NEW n \in Notice
        PROVE  Restated(n, "READ") \/ notice'[n] = notice[n]
    <3>1. CASE notice[n].status = "UNREAD"
      <4>1. notice'[n] = [status |-> "READ", key |-> notice[n].key]
        BY <2>1, <3>1
      <4>2. n \in Board!Rows /\ "READ" \in Board!Status
        BY <3>1 DEF Board!Rows, Board!NoNotice, Board!Status, Board!OpenStatus
      <4>3. QED
        BY <3>1, <4>1, <4>2 DEF Restated, Board!OpenStatus
    <3>2. CASE notice[n].status # "UNREAD"
      BY <2>1, <3>2
    <3>3. QED
      BY <3>1, <3>2
  <2>3. "READ" \in Board!Status
    BY DEF Board!Status, Board!OpenStatus
  <2>4. /\ Board!Rows' = Board!Rows /\ \A n \in Board!Rows : notice'[n].key = notice[n].key
        /\ Board!Open' \subseteq Board!Open
    BY <2>2, <2>3, RestatedStep
  <2>5. UNCHANGED <<lock, lapsed, reopened, txn>>
    BY <1>4 DEF Board!MarkAllRead, Board!AtOnce
  <2>6. Tidy
    BY <2>4, <2>5 DEF Tidy, Kept
  <2>7. Known(w)'
    BY <2>4, <2>5 DEF Known
  <2>8. ~lapsed => Ahead(w)'
    <3>1. ASSUME ~lapsed
          PROVE  Ahead(w)
      BY <3>1 DEF NoticesInv, SyncedAlone
    <3>2. Kept \subseteq Board!Rows
      BY NoticeTyped DEF Kept, KeptRow
    <3>3. QED
      BY <2>5, <2>6, <3>1, <3>2 DEF Ahead, Tidy
  <2>9. ~lapsed => \A v \in Syncs : lock
    BY DEF NoticesInv, SyncedAlone
  <2>10. Board!Syncing(w)' <=> Board!Syncing(w)
    BY <2>5 DEF Board!Syncing
  <2>11. Board!Syncing(w) <=> w \in Syncs
    BY DEF Syncs
  <2>12. QED
    BY <2>5, <2>6, <2>7, <2>8, <2>9, <2>10, <2>11, TidyStep
<1>5. ASSUME NEW w \in Worker, Board!Done(w), UNCHANGED <<notice, lock, lapsed, reopened>>
      PROVE  NoticesInv'
  <2>1. txn'[w] = Board!Idle /\ \A v \in Worker \ {w} : txn'[v] = txn[v]
    BY <1>5 DEF Board!Done, Board!Continue, Board!TypeOK
  <2>2. Known(w)' /\ Ahead(w)' /\ ~Board!Syncing(w)'
    BY <2>1 DEF Known, Ahead, Board!Syncing, Board!Idle
  <2>3. QED
    BY <1>5, <2>1, <2>2, ReadingNotices
<1>6. ASSUME NEW w \in Worker, NEW s \in Server, Board!ReadSync(w, s)
      PROVE  NoticesInv'
  <2>1. txn'[w] = [op |-> "sync", step |-> "asked", server |-> s]
        /\ \A v \in Worker \ {w} : txn'[v] = txn[v]
    BY <1>6 DEF Board!ReadSync, Board!Begin, Board!TypeOK
  <2>2. Known(w)' /\ Ahead(w)' /\ ~Board!Syncing(w)'
    BY <2>1 DEF Known, Ahead, Board!Syncing
  <2>3. QED
    BY <1>6, <2>1, <2>2, ReadingNotices DEF Board!ReadSync
<1>7. ASSUME NEW w \in Worker, Board!CommitWrite(w)
      PROVE  NoticesInv'
  <2>. PICK c : c = txn[w]
    OBVIOUS
  <2>1. c.op = "write" /\ c.notice \in Board!Rows
    BY <1>7 DEF Board!CommitWrite, Known
  <2>2. PICK n : n = c.notice
    OBVIOUS
  <2>3. n \in Board!Rows /\ n \in Notice /\ c.status \in Board!Status
    BY <2>1, <2>2, NoticeRequestTyped, NoticeTyped DEF WriteTxn, KeptRow
  <2>4. /\ notice'[n] = [status |-> c.status, key |-> notice[n].key]
        /\ \A m \in Notice \ {n} : notice'[m] = notice[m]
    BY <1>7, <2>2, <2>3 DEF Board!CommitWrite, Board!TypeOK
  <2>5. Board!Rows' = Board!Rows /\ \A m \in Board!Rows : notice'[m].key = notice[m].key
    BY <2>3, <2>4 DEF Board!Rows, Board!NoNotice, Board!Status, Board!OpenStatus
  <2>6. reopened' = IF n \notin Board!Open /\ c.status \in Board!OpenStatus
                  THEN reopened \cup {n} ELSE reopened
    BY <1>7, <2>2 DEF Board!CommitWrite
  <2>7. Kept' \subseteq Kept
    BY <2>3, <2>4, <2>6 DEF Kept, Board!Open
  <2>8. /\ txn'[w] = Board!Idle /\ \A v \in Worker \ {w} : txn'[v] = txn[v]
        /\ UNCHANGED <<lock, lapsed>>
    BY <1>7 DEF Board!CommitWrite, Board!Done, Board!Continue, Board!TypeOK
  <2>9. Known(w)' /\ Ahead(w)' /\ ~Board!Syncing(w)'
    BY <2>8 DEF Known, Ahead, Board!Syncing, Board!Idle
  <2>10. ~lapsed => \A v \in Syncs : lock
    BY DEF NoticesInv, SyncedAlone
  <2>11. QED
    BY <2>5, <2>7, <2>8, <2>9, <2>10, TidyStep DEF Tidy
<1>8. ASSUME NEW w \in Worker, Board!Acquire(w)
      PROVE  NoticesInv'
  <2>1. /\ txn'[w] = [op |-> "sync", step |-> "read", left |-> {"open", "holds"},
                      open |-> {}, holds |-> {}]
        /\ \A v \in Worker \ {w} : txn'[v] = txn[v]
    BY <1>8 DEF Board!Acquire, Board!Continue, Board!TypeOK
  <2>2. Known(w)' /\ Ahead(w)'
    BY <2>1 DEF Known, Ahead
  <2>3. ~lock /\ lock' /\ UNCHANGED <<notice, lapsed, reopened>>
    BY <1>8 DEF Board!Acquire
  <2>4. ~lapsed => Syncs = {}
    BY <2>3 DEF NoticesInv, SyncedAlone
  <2>5. Tidy
    BY <2>3 DEF Tidy, Board!Rows, Kept, Board!Open
  <2>6. QED
    BY <2>1, <2>2, <2>3, <2>4, <2>5, TidyStep
<1>9. ASSUME NEW w \in Worker, NEW t, Board!Continue(w, t), Board!Syncing(w),
             UNCHANGED <<notice, lock, lapsed, reopened>>, Known(w)', ~lapsed => Ahead(w)'
      PROVE  NoticesInv'
  <2>1. \A v \in Worker \ {w} : txn'[v] = txn[v]
    BY <1>9 DEF Board!Continue
  <2>2. ~lapsed => lock
    BY <1>9 DEF NoticesInv, SyncedAlone, Syncs
  <2>3. QED
    BY <1>9, <2>1, <2>2, ReadingNotices
<1>10. ASSUME NEW w \in Worker, NEW part \in {"open", "holds"}, Board!Read(w, part)
       PROVE  NoticesInv'
  <2>. PICK c : c = txn[w]
    OBVIOUS
  <2>1. c \in ReadTxn /\ Board!Syncing(w)
    BY <1>10, NoticeRequestTyped DEF Board!Read, Board!Syncing
  <2>2. PICK read : read = IF part = "open"
                           THEN [c EXCEPT !.left = c.left \ {part}, !.open = Board!OpenNotices]
                           ELSE [c EXCEPT !.left = c.left \ {part}, !.holds = holds]
    OBVIOUS
  <2>3. PICK t : t = IF read.left # {} THEN read
                     ELSE [op |-> "sync", step |-> "raise", open |-> read.open,
                           holds |-> read.holds,
                           todo |-> (read.holds \cap Condition) \ Board!KeysOf(read.open)]
    OBVIOUS
  <2>4. Board!Continue(w, t)
    BY <1>10, <2>2, <2>3 DEF Board!Read
  <2>5. UNCHANGED <<notice, lock, lapsed, reopened>> /\ txn'[w] = t
    BY <1>10, <2>4 DEF Board!Read, Board!Continue, Board!TypeOK
  <2>6. /\ read.op = "sync" /\ read.step = "read" /\ read.left = c.left \ {part}
        /\ read.open = IF part = "open" THEN Board!Open ELSE c.open
    BY <2>1, <2>2 DEF ReadTxn, Board!OpenNotices
  <2>7. /\ c.op = "sync" /\ c.step = "read"
        /\ c.open \subseteq Board!Rows /\ Board!Open \subseteq Board!Rows
    BY <2>1, NoticeTyped DEF ReadTxn, Known, KeptRow
  <2>8. read.open \subseteq Board!Rows
    BY <2>6, <2>7
  <2>9. ASSUME ~lapsed
        PROVE  "open" \notin read.left => Kept \subseteq read.open
    <3>1. "open" \notin c.left => Kept \subseteq c.open
      BY <2>7, <2>9 DEF NoticesInv, SyncedAlone, Ahead
    <3>2. QED
      BY <2>6, <3>1 DEF Kept
  <2>10. Board!Rows' = Board!Rows /\ Kept' = Kept
    BY <2>5 DEF Board!Rows, Kept, Board!Open
  <2>11. CASE read.left # {}
    <3>1. t = read
      BY <2>3, <2>11
    <3>2. Known(w)' /\ (~lapsed => Ahead(w)')
      BY <2>5, <2>6, <2>8, <2>9, <2>10, <3>1 DEF Known, Ahead
    <3>3. QED
      BY <1>9, <2>1, <2>4, <2>5, <3>2
  <2>12. CASE read.left = {}
    <3>1. t.op = "sync" /\ t.step = "raise" /\ t.open = read.open
          /\ t.todo = (read.holds \cap Condition) \ Board!KeysOf(read.open)
      BY <2>3, <2>12
    <3>2. ~lapsed => \A n \in Kept : notice[n].key \notin t.todo
      BY <2>9, <2>12, <3>1 DEF Board!KeysOf
    <3>3. Known(w)' /\ (~lapsed => Ahead(w)')
      BY <2>5, <2>8, <2>10, <3>1, <3>2 DEF Known, Ahead
    <3>4. QED
      BY <1>9, <2>1, <2>4, <2>5, <3>3
  <2>13. QED
    BY <2>11, <2>12

<1>11. ASSUME NEW w \in Worker, Board!Raise(w)
       PROVE  NoticesInv'
  <2>. PICK c : c = txn[w]
    OBVIOUS
  <2>1. c \in RaiseTxn /\ Board!Syncing(w) /\ c.op = "sync" /\ c.step = "raise"
    BY <1>11, NoticeRequestTyped DEF Board!Raise, Board!Syncing
  <2>2. PICK k \in c.todo : Board!Create(k) /\ Board!Continue(w, [c EXCEPT !.todo = c.todo \ {k}])
    BY <1>11 DEF Board!Raise
  <2>. PICK t : t = [c EXCEPT !.todo = c.todo \ {k}]
    OBVIOUS
  <2>3. /\ k \in Condition \cup Event /\ k \notin Event
        /\ t.op = "sync" /\ t.step = "raise" /\ t.todo = c.todo \ {k} /\ t.open = c.open
    BY <2>1, <2>2 DEF RaiseTxn, Board!ConstantsOK
  <2>4. PICK n \in Notice \ Board!Rows :
            notice' = [notice EXCEPT ![n] = [status |-> "UNREAD", key |-> k]]
    BY <2>2, <2>3, CreateTyped
  <2>5. /\ UNCHANGED <<lock, lapsed, reopened>> /\ txn'[w] = t
        /\ \A v \in Worker \ {w} : txn'[v] = txn[v]
    BY <1>11, <2>2 DEF Board!Raise, Board!Continue, Board!TypeOK
  <2>6. /\ Board!Rows' = Board!Rows \cup {n} /\ Kept' \subseteq Kept \cup {n}
        /\ notice'[n].key = k
        /\ \A m \in Board!Rows : notice'[m].key = notice[m].key
    BY <2>4, <2>5, NoticeTyped
    DEF Board!TypeOK, Board!Rows, Kept, Board!Open, Board!NoNotice, KeptRow
  <2>7. Known(w)' /\ Board!Syncing(w)'
    BY <2>1, <2>3, <2>5, <2>6 DEF Known, Board!Syncing
  <2>8. ~lapsed => \A m \in Kept : notice[m].key \notin c.todo
    BY <2>1 DEF NoticesInv, SyncedAlone, Ahead
  <2>9. ~lapsed => Ahead(w)'
    <3>1. Kept \subseteq Board!Rows
      BY NoticeTyped DEF Kept, KeptRow
    <3>2. QED
      BY <2>3, <2>5, <2>6, <2>8, <3>1 DEF Ahead
  <2>10. ~lapsed => \A m \in Kept : notice[m].key # k
    BY <2>2, <2>8
  <2>11. QED
    BY <2>1, <2>3, <2>4, <2>5, <2>7, <2>9, <2>10, CreateStep
<1>12. ASSUME NEW w \in Worker, Board!Resolve(w)
       PROVE  NoticesInv'
  <2>. PICK c : c = txn[w]
    OBVIOUS
  <2>1. c.open \subseteq Board!Rows /\ Board!Syncing(w)
    BY <1>12 DEF Board!Resolve, Known, Board!Syncing
  <2>2. \A n \in Notice : notice'[n] =
            IF n \in Board!Stale(c.open, c.holds)
            THEN [status |-> "RESOLVED", key |-> notice[n].key] ELSE notice[n]
    BY <1>12 DEF Board!Resolve
  <2>3. Board!Stale(c.open, c.holds) \subseteq Board!Rows
    BY <2>1 DEF Board!Stale
  <2>4. ASSUME NEW n \in Notice
        PROVE  Restated(n, "RESOLVED") \/ notice'[n] = notice[n]
    <3>1. CASE n \in Board!Stale(c.open, c.holds)
      <4>1. notice'[n] = [status |-> "RESOLVED", key |-> notice[n].key] /\ n \in Board!Rows
        BY <2>2, <2>3, <3>1
      <4>2. QED
        BY <4>1 DEF Restated, Board!OpenStatus
    <3>2. CASE n \notin Board!Stale(c.open, c.holds)
      BY <2>2, <3>2
    <3>3. QED
      BY <3>1, <3>2
  <2>5. "RESOLVED" \in Board!Status
    BY DEF Board!Status
  <2>6. /\ Board!Rows' = Board!Rows /\ \A n \in Board!Rows : notice'[n].key = notice[n].key
        /\ Board!Open' \subseteq Board!Open
    BY <2>4, <2>5, RestatedStep
  <2>7. /\ UNCHANGED <<lock, lapsed, reopened>>
        /\ txn'[w] = [op |-> "sync", step |-> "close", holds |-> c.holds]
        /\ \A v \in Worker \ {w} : txn'[v] = txn[v]
    BY <1>12 DEF Board!Resolve, Board!Continue, Board!TypeOK
  <2>8. Tidy
    BY <2>6, <2>7 DEF Tidy, Kept
  <2>9. Known(w)' /\ Ahead(w)'
    BY <2>7 DEF Known, Ahead
  <2>10. ~lapsed => lock
    BY <2>1 DEF NoticesInv, SyncedAlone, Syncs
  <2>11. QED
    BY <2>1, <2>7, <2>8, <2>9, <2>10, TidyStep
<1>13. ASSUME NEW w \in Worker, Board!ReadExisting(w)
       PROVE  NoticesInv'
  <2>. PICK c : c = txn[w]
    OBVIOUS
  <2>. PICK t : t = [op |-> "sync", step |-> "file",
                     todo |-> (c.holds \cap Event) \ Board!Existing]
    OBVIOUS
  <2>1. Board!Continue(w, t) /\ Board!Syncing(w) /\ UNCHANGED <<notice, lock, lapsed, reopened>>
    BY <1>13 DEF Board!ReadExisting, Board!Syncing
  <2>2. /\ txn'[w] = t /\ t.op = "sync" /\ t.step = "file"
        /\ t.todo = (c.holds \cap Event) \ Board!Existing
    BY <2>1 DEF Board!Continue, Board!TypeOK
  <2>3. \A n \in Board!Rows : notice[n].key \notin t.todo
    BY <2>2 DEF Board!Existing, Board!KeysOf
  <2>4. Known(w)' /\ Ahead(w)'
    BY <2>1, <2>2, <2>3 DEF Known, Ahead, Board!Rows
  <2>5. QED
    BY <1>9, <2>1, <2>4
<1>14. ASSUME NEW w \in Worker, Board!File(w)
       PROVE  NoticesInv'
  <2>. PICK c : c = txn[w]
    OBVIOUS
  <2>1. c \in FileTxn /\ Board!Syncing(w) /\ c.op = "sync" /\ c.step = "file"
    BY <1>14, NoticeRequestTyped DEF Board!File, Board!Syncing
  <2>2. PICK k \in c.todo : Board!Create(k) /\ Board!Continue(w, [c EXCEPT !.todo = c.todo \ {k}])
    BY <1>14 DEF Board!File
  <2>. PICK t : t = [c EXCEPT !.todo = c.todo \ {k}]
    OBVIOUS
  <2>3. /\ k \in Condition \cup Event
        /\ t.op = "sync" /\ t.step = "file" /\ t.todo = c.todo \ {k}
    BY <2>1, <2>2 DEF FileTxn
  <2>4. PICK n \in Notice \ Board!Rows :
            notice' = [notice EXCEPT ![n] = [status |-> "UNREAD", key |-> k]]
    BY <2>2, <2>3, CreateTyped
  <2>5. /\ UNCHANGED <<lock, lapsed, reopened>> /\ txn'[w] = t
        /\ \A v \in Worker \ {w} : txn'[v] = txn[v]
    BY <1>14, <2>2 DEF Board!File, Board!Continue, Board!TypeOK
  <2>6. /\ Board!Rows' = Board!Rows \cup {n} /\ notice'[n].key = k
        /\ \A m \in Board!Rows : notice'[m].key = notice[m].key
    BY <2>4, NoticeTyped DEF Board!TypeOK, Board!Rows, Board!NoNotice, KeptRow
  <2>7. Known(w)' /\ Board!Syncing(w)'
    BY <2>3, <2>5 DEF Known, Board!Syncing
  <2>8. ~lapsed => \A m \in Board!Rows : notice[m].key \notin c.todo
    BY <2>1 DEF NoticesInv, SyncedAlone, Ahead
  <2>9. ~lapsed => Ahead(w)'
    BY <2>3, <2>5, <2>6, <2>8 DEF Ahead
  <2>10. ~lapsed => \A m \in Board!Rows : notice[m].key # k
    BY <2>2, <2>8
  <2>11. Kept \subseteq Board!Rows
    BY NoticeTyped DEF Kept, KeptRow
  <2>12. QED
    BY <2>1, <2>4, <2>5, <2>7, <2>9, <2>10, <2>11, CreateStep
<1>15. ASSUME NEW w \in Worker, Board!Step(w)
       PROVE  NoticesInv'
  <2>1. CASE Board!NotAcquired(w)
    BY <1>5, <2>1 DEF Board!NotAcquired
  <2>2. CASE Board!EndSync(w)
    BY <1>5, <2>2 DEF Board!EndSync
  <2>3. QED
    BY <1>7, <1>8, <1>10, <1>11, <1>12, <1>13, <1>14, <1>15, <2>1, <2>2 DEF Board!Step
<1>16. ASSUME NEW w \in Worker, Board!Abort(w)
       PROVE  NoticesInv'
  BY <1>5, <1>16 DEF Board!Abort
<1>17. ASSUME NEW k \in Condition \cup Event, Board!Change(k)
       PROVE  NoticesInv'
  BY <1>1, <1>17 DEF Board!Change
<1>18. ASSUME NEW s \in Server, Board!ExpireCache(s)
       PROVE  NoticesInv'
  BY <1>1, <1>18 DEF Board!ExpireCache
<1>19. CASE UNCHANGED Board!vars
  BY <1>1, <1>19 DEF Board!vars
<1>20. QED
  BY <1>2, <1>3, <1>4, <1>6, <1>15, <1>16, <1>17, <1>18, <1>19 DEF Board!Next

LEMMA InitNotices == ASSUME Board!ConstantsOK PROVE Board!Init => NoticesInv
<1>. SUFFICES ASSUME Board!Init
              PROVE  NoticesInv
  OBVIOUS
<1>1. \A w \in Worker : txn[w] = Board!Idle /\ txn[w].op = "idle"
  BY DEF Board!Init, Board!NoRequests, Board!Idle
<1>2. Board!TypeOK
  <2>1. txn \in [Worker -> Board!Txn] /\ overlapped \in BOOLEAN
    BY DEF Board!Init, Board!NoRequests, Board!Txn
  <2>2. notice \in [Notice -> Board!NoticeRow]
    BY DEF Board!Init, Board!NoticeRow
  <2>3. moves \in 0..MaxMoves /\ failures \in 0..MaxFailures
    BY DEF Board!ConstantsOK, Board!Init
  <2>4. QED
    BY <2>1, <2>2, <2>3 DEF Board!Init, Board!TypeOK
<1>3. Board!Rows = {} /\ Kept = {} /\ Syncs = {}
  BY <1>1
  DEF Board!Init, Board!Rows, Kept, Board!Open, Board!OpenStatus, Board!NoNotice, Syncs,
      Board!Syncing
<1>4. \A w \in Worker : Known(w) /\ Ahead(w)
  BY <1>1 DEF Known, Ahead
<1>5. QED
  BY <1>2, <1>3, <1>4 DEF NoticesInv, SyncedAlone, OneOpen, OneEver

\* Whatever requests overlap, on however many servers, each condition has one open notice at
\* most and each event one for good, unless a sync outlives the lock
\* (notifications.service.ts:241-245, 642-677).
THEOREM NoticedAtMostOnce == Board!Spec => []NoticedOnce
<1>1. NoticesInv => NoticedOnce
  BY DEF NoticesInv, OneOpen, OneEver, Kept, NoticedOnce, Board!NoticedOnce, Board!NoticeOnce,
         Board!EventOnce
<1>2. Board!Init => NoticesInv
  BY InitNotices, NoticesOK
<1>3. NoticesInv /\ [Board!Next]_Board!vars => NoticesInv'
  BY NextNotices, NoticesOK
<1>4. QED
  BY <1>1, <1>2, <1>3, PTL DEF Board!Spec
=============================================================================
