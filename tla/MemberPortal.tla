----------------------------- MODULE MemberPortal -----------------------------
(***************************************************************************)
(* How a member enters the portal (member-auth.service.ts): a code is sent *)
(* by mail, and given back within 15 minutes it lets the member in once.   *)
(*                                                                         *)
(* Nothing is a transaction.  A request for a code revokes those that are  *)
(* still pending and then creates its own; a login finds the member, then  *)
(* the code, and then marks it as used, whatever has become of it.  Mail   *)
(* addresses are not unique: both take any active member that has it.      *)
(*                                                                         *)
(* Members know every code that was made (a mail that fails is only logged *)
(* and any request may be lost), codes are unique, and what a member does  *)
(* with the token is in the modules of the member app.                     *)
(***************************************************************************)
EXTENDS Naturals, FiniteSets, Requests

CONSTANTS
    Member,
    Code       \* bound: codes ever sent

VARIABLES
    active,    \* members whose status is ACTIVE
    code,      \* member_sessions
    entered    \* history: how often each code has let somebody in

vars == <<active, code, entered, txn, overlapped>>
-----------------------------------------------------------------------------
None == [status |-> "NONE"]
CodeRow ==
    {None} \cup [status : {"SENT"}, member : Member, used : BOOLEAN, revoked : BOOLEAN,
                 expired : BOOLEAN]

Txn ==
    {Idle}
    \cup [op : {"request"}, step : {"found", "revoked"}, member : Member]
    \cup [op : {"login"}, step : {"member"}, member : Member]
    \cup [op : {"login"}, step : {"code"}, member : Member, code : Code]

TypeOK ==
    /\ active \subseteq Member
    /\ code \in [Code -> CodeRow]
    /\ entered \in [Code -> Nat]
    /\ overlapped \in BOOLEAN
    /\ txn \in [Worker -> Txn]

Init ==
    /\ active = Member
    /\ code = [c \in Code |-> None]
    /\ entered = [c \in Code |-> 0]
    /\ NoRequests

Sent == {c \in Code : code[c] # None}

Abort(w) ==
    /\ txn[w] # Idle
    /\ Done(w)
    /\ UNCHANGED <<active, code, entered>>

\* The club changes the status of a member (Members).
SetStatus(w, m) ==
    /\ AtOnce(w)
    /\ active' = IF m \in active THEN active \ {m} ELSE active \cup {m}
    /\ UNCHANGED <<code, entered>>

\* 15 minutes pass.
Expire(c) ==
    /\ c \in Sent
    /\ ~code[c].expired
    /\ code' = [code EXCEPT ![c].expired = TRUE]
    /\ UNCHANGED <<active, entered, txn, overlapped>>
-----------------------------------------------------------------------------
(* requestAccess                                                           *)

FindMember(w, m) ==
    /\ m \in active
    /\ Begin(w, [op |-> "request", step |-> "found", member |-> m])
    /\ UNCHANGED <<active, code, entered>>

\* (mutant) only codes that have expired are revoked.
PendingExpired(m) ==
    {c \in Sent : code[c].member = m /\ ~code[c].used /\ ~code[c].revoked /\ code[c].expired}

Pending(m) == {c \in Sent : code[c].member = m /\ ~code[c].used /\ ~code[c].revoked}

RevokePending(w) ==
    LET r == txn[w] IN
    /\ r.op = "request" /\ r.step = "found"
    /\ code' = [c \in Code |->
           IF c \in Pending(r.member) THEN [code[c] EXCEPT !.revoked = TRUE] ELSE code[c]]
    /\ Continue(w, [r EXCEPT !.step = "revoked"])
    /\ UNCHANGED <<active, entered>>

CreateCode(w) ==
    LET r == txn[w] IN
    /\ r.op = "request" /\ r.step = "revoked"
    /\ \E c \in Code \ Sent :
          code' = [code EXCEPT ![c] =
              [status |-> "SENT", member |-> r.member, used |-> FALSE, revoked |-> FALSE,
               expired |-> FALSE]]
    /\ Done(w)
    /\ UNCHANGED <<active, entered>>
-----------------------------------------------------------------------------
(* login                                                                   *)

\* (mutant) whatever the status of the member.
EligibleAny(m) == m \in Member

Eligible(m) == m \in active

FindLogin(w, m) ==
    /\ Eligible(m)
    /\ Begin(w, [op |-> "login", step |-> "member", member |-> m])
    /\ UNCHANGED <<active, code, entered>>

\* (mutant) a code that was used is not refused.
UsableAgain(m) == {c \in Sent : code[c].member = m /\ ~code[c].revoked /\ ~code[c].expired}

Usable(m) ==
    {c \in Sent : code[c].member = m /\ ~code[c].used /\ ~code[c].revoked /\ ~code[c].expired}

FindCode(w) ==
    LET r == txn[w] IN
    /\ r.op = "login" /\ r.step = "member"
    /\ \E c \in Usable(r.member) :
          Continue(w, [op |-> "login", step |-> "code", member |-> r.member, code |-> c])
    /\ UNCHANGED <<active, code, entered>>

\* The code is marked, whatever it is by now, and the token signed.
UseCode(w) ==
    LET r == txn[w] IN
    /\ r.op = "login" /\ r.step = "code"
    /\ code' = [code EXCEPT ![r.code].used = TRUE]
    /\ entered' = [entered EXCEPT ![r.code] = @ + 1]
    /\ Done(w)
    /\ UNCHANGED active
-----------------------------------------------------------------------------
Next ==
    \/ \E w \in Worker :
          \/ Abort(w)
          \/ \E m \in Member : SetStatus(w, m) \/ FindMember(w, m) \/ FindLogin(w, m)
          \/ RevokePending(w)
          \/ CreateCode(w)
          \/ FindCode(w)
          \/ UseCode(w)
    \/ \E c \in Code : Expire(c)

Spec == Init /\ [][Next]_vars
-----------------------------------------------------------------------------
\* However many requests give back a code at once, it lets in at most those that were in
\* flight together, and once when requests do not overlap
\* (member-auth.service.ts:120-139).
EnteredOnce ==
    \A c \in Code :
        /\ entered[c] <= Cardinality(Worker)
        /\ ~overlapped => entered[c] <= 1

\* When requests do not overlap, a member has at most one code to enter with, and a crash
\* leaves none rather than two (member-auth.service.ts:51-71).
OneCode == ~overlapped => \A m \in Member : Cardinality(Usable(m)) <= 1

\* When requests do not overlap, who enters is an active member with the last code that
\* was asked for (member-auth.service.ts:92-130).
EnteringActive ==
    \A c \in Code :
        ~overlapped' /\ entered'[c] > entered[c] =>
            /\ code[c].member \in active
            /\ ~code[c].revoked

EntersActive == [][EnteringActive]_vars

\* A code lets one member in, once, while it is the last one that member asked for
\* (member-auth.service.ts:51-71, 92-130).
EntersOnce == [](EnteredOnce /\ OneCode) /\ EntersActive
=============================================================================
