------------------------------- MODULE Access --------------------------------
(***************************************************************************)
(* Who gets into a club: its access links and its emergency mode           *)
(* (security.service.ts, and the platform's side of it in                  *)
(* platform.service.ts), and the password, the sessions and the second     *)
(* factor of one of its users (auth.service.ts, totp.service.ts).          *)
(*                                                                         *)
(* Only regenerateAccessLink and the two emergency handlers are            *)
(* transactions.  The emergency handlers write the row of the tenant       *)
(* before the other rows, so that they follow one another from there; the  *)
(* search for a lock comes earlier.  changePassword sends its two writes   *)
(* at once, on two connections.                                            *)
(*                                                                         *)
(* A token is accepted as long as the session it names is not revoked or   *)
(* expired (jwt.strategy.ts), so a session stands for its token here.  The *)
(* status of the tenant and of its subscription, which also refuse a       *)
(* login, are in Billing.                                                  *)
(***************************************************************************)
EXTENDS Naturals, FiniteSets, Requests

CONSTANTS
    Link,               \* bound: access links ever created
    Lock,               \* bound: emergencies ever activated
    Session,            \* bound: sessions ever opened
    Password,
    Secret, NoSecret,   \* bound: secrets ever generated; the null of totpSecret
    RequireAccessLink   \* setting of the tenant, in production

ConstantsOK ==
    /\ NoSecret \notin Secret
    /\ RequireAccessLink \in BOOLEAN

VARIABLES
    accessStatus,  \* of the tenant
    link,          \* access_links
    emergency,     \* emergency_locks
    password,      \* of the user
    session,       \* user_sessions
    openedWith,    \* history: the password each session was opened with
    totp,          \* totpEnabled, totpSecret
    proven,        \* history: secrets the user has shown a code of
    cutShort       \* history: a changePassword stopped between its writes

club == <<accessStatus, link, emergency>>
user == <<password, session, openedWith, totp, proven, cutShort>>
vars == <<club, user, txn, overlapped>>
-----------------------------------------------------------------------------
Txn ==
    {Idle}
    \cup [op : {"activate"}, found : BOOLEAN]
    \cup [op : {"deactivate"}]
    \cup [op : {"regenerate"}, step : {"guard", "revoked"}, links : SUBSET Link]
    \cup [op : {"login"}, step : {"link", "user"}, password : SUBSET Password]
    \cup [op : {"changePassword"}, new : Password, left : SUBSET {"password", "sessions"}]
    \cup [op : {"setupTotp"}, secret : Secret]
    \cup [op : {"verifyTotp", "disableTotp"}]

TypeOK ==
    /\ accessStatus \in {"ENABLED", "EMERGENCY_LOCKED"}
    /\ link \in [Link -> {"NONE", "ACTIVE", "REVOKED"}]
    /\ emergency \in [Lock -> {"NONE", "ACTIVE", "RESOLVED"}]
    /\ password \in Password
    /\ session \in [Session -> {"NONE", "LIVE", "ENDED"}]
    /\ openedWith \in [Session -> SUBSET Password]
    /\ totp \in [enabled : BOOLEAN, secret : Secret \cup {NoSecret}]
    /\ proven \subseteq Secret
    /\ cutShort \in BOOLEAN
    /\ overlapped \in BOOLEAN
    /\ txn \in [Worker -> Txn]

Init ==
    /\ accessStatus = "ENABLED"
    /\ link = [l \in Link |-> "NONE"]
    /\ emergency = [e \in Lock |-> "NONE"]
    /\ password \in Password
    /\ session = [s \in Session |-> "NONE"]
    /\ openedWith = [s \in Session |-> {}]
    /\ totp = [enabled |-> FALSE, secret |-> NoSecret]
    /\ proven = {}
    /\ cutShort = FALSE
    /\ NoRequests

ActiveLinks == {l \in Link : link[l] = "ACTIVE"}
ActiveLocks == {e \in Lock : emergency[e] = "ACTIVE"}
Live == {s \in Session : session[s] = "LIVE"}

\* Refused half-way, lost or crashed: what was committed stays.
Abort(w) ==
    /\ txn[w] # Idle
    /\ cutShort' = (cutShort \/ (txn[w].op = "changePassword" /\ Cardinality(txn[w].left) = 1))
    /\ Done(w)
    /\ UNCHANGED <<club, password, session, openedWith, totp, proven>>
-----------------------------------------------------------------------------
(* Links and emergency mode                                                *)

Revoked(links) == [l \in Link |-> IF l \in links THEN "REVOKED" ELSE link[l]]

\* PermissionsGuard, before regenerateAccessLink: not in an emergency.
ReadRegenerate(w) ==
    /\ accessStatus = "ENABLED"
    /\ Begin(w, [op |-> "regenerate", step |-> "guard", links |-> {}])
    /\ UNCHANGED <<club, user>>

RevokeLinks(w) ==
    /\ txn[w].op = "regenerate" /\ txn[w].step = "guard"
    /\ Continue(w, [op |-> "regenerate", step |-> "revoked", links |-> ActiveLinks])
    /\ UNCHANGED <<club, user>>

\* (mutant) the earlier links are not revoked.
CommitRegenerateOnly(w) ==
    /\ txn[w].op = "regenerate" /\ txn[w].step = "revoked"
    /\ \E l \in Link :
          /\ link[l] = "NONE"
          /\ link' = [link EXCEPT ![l] = "ACTIVE"]
    /\ Done(w)
    /\ UNCHANGED <<accessStatus, emergency, user>>

CommitRegenerate(w) ==
    /\ txn[w].op = "regenerate" /\ txn[w].step = "revoked"
    /\ \E l \in Link :
          /\ link[l] = "NONE"
          /\ link' = [Revoked(txn[w].links) EXCEPT ![l] = "ACTIVE"]
    /\ Done(w)
    /\ UNCHANGED <<accessStatus, emergency, user>>

\* activateEmergency of the club, whose guard refuses a club that is locked
\* already, and activateTenantEmergency of the platform, which does not ask.
ReadActivate(w) ==
    /\ Begin(w, [op |-> "activate", found |-> ActiveLocks # {}])
    /\ UNCHANGED <<club, user>>

\* Both branches lock the club and revoke its links.
CommitActivate(w) ==
    /\ txn[w].op = "activate"
    /\ accessStatus' = "EMERGENCY_LOCKED"
    /\ link' = Revoked(ActiveLinks)
    /\ IF txn[w].found
       THEN UNCHANGED emergency
       ELSE \E e \in Lock :
               /\ emergency[e] = "NONE"
               /\ emergency' = [emergency EXCEPT ![e] = "ACTIVE"]
    /\ Done(w)
    /\ UNCHANGED user

\* Of the platform only: the club's own deactivateEmergency always refuses.
ReadDeactivate(w) ==
    /\ ActiveLocks # {}
    /\ Begin(w, [op |-> "deactivate"])
    /\ UNCHANGED <<club, user>>

\* (mutant) only the lock that was found is resolved.
CommitDeactivateOne(w) ==
    /\ txn[w].op = "deactivate"
    /\ accessStatus' = "ENABLED"
    /\ \E e \in Lock :
          /\ e \in ActiveLocks
          /\ emergency' = [emergency EXCEPT ![e] = "RESOLVED"]
    /\ Done(w)
    /\ UNCHANGED <<link, user>>

CommitDeactivate(w) ==
    /\ txn[w].op = "deactivate"
    /\ accessStatus' = "ENABLED"
    /\ emergency' = [e \in Lock |-> IF e \in ActiveLocks THEN "RESOLVED" ELSE emergency[e]]
    /\ Done(w)
    /\ UNCHANGED <<link, user>>
-----------------------------------------------------------------------------
(* Sessions                                                                *)

\* validateAccessToken
ReadLink(w) ==
    /\ accessStatus = "ENABLED"
    /\ ActiveLinks # {}
    /\ Begin(w, [op |-> "login", step |-> "link", password |-> {}])
    /\ UNCHANGED <<club, user>>

\* What login checks of the user and of the club; the secret, if the second
\* factor is enabled, must be there to check the code with.
MayEnter ==
    /\ accessStatus = "ENABLED"
    /\ totp.enabled => totp.secret # NoSecret

ReadUserByLink(w) ==
    /\ txn[w].op = "login" /\ txn[w].step = "link"
    /\ MayEnter
    /\ Continue(w, [op |-> "login", step |-> "user", password |-> {password}])
    /\ UNCHANGED <<club, user>>

ReadUser(w) ==
    /\ ~RequireAccessLink
    /\ MayEnter
    /\ Begin(w, [op |-> "login", step |-> "user", password |-> {password}])
    /\ UNCHANGED <<club, user>>

\* The hash of the token is written to the new row before it is answered.
CreateSession(w) ==
    /\ txn[w].op = "login" /\ txn[w].step = "user"
    /\ \E s \in Session :
          /\ session[s] = "NONE"
          /\ session' = [session EXCEPT ![s] = "LIVE"]
          /\ openedWith' = [openedWith EXCEPT ![s] = txn[w].password]
    /\ Done(w)
    /\ UNCHANGED <<club, password, totp, proven, cutShort>>

\* revokeSession, by a session of the same user; after 24 hours, by itself.
EndSession(w, s) ==
    /\ AtOnce(w)
    /\ s \in Live
    /\ session' = [session EXCEPT ![s] = "ENDED"]
    /\ UNCHANGED <<club, password, openedWith, totp, proven, cutShort>>

\* revokeAllOtherSessions
EndOtherSessions(w, s) ==
    /\ AtOnce(w)
    /\ s \in Live
    /\ session' = [i \in Session |-> IF i \in Live \ {s} THEN "ENDED" ELSE session[i]]
    /\ UNCHANGED <<club, password, openedWith, totp, proven, cutShort>>

ReadChangePassword(w) ==
    /\ Live # {}
    /\ \E new \in Password \ {password} :
          Begin(w, [op |-> "changePassword", new |-> new, left |-> {"password", "sessions"}])
    /\ UNCHANGED <<club, user>>

\* The two writes of changePassword come in any order.
Wrote(w, part) ==
    /\ txn[w].op = "changePassword" /\ part \in txn[w].left
    /\ IF txn[w].left = {part}
       THEN Done(w)
       ELSE Continue(w, [txn[w] EXCEPT !.left = @ \ {part}])

WritePassword(w) ==
    /\ Wrote(w, "password")
    /\ password' = txn[w].new
    /\ UNCHANGED <<club, session, openedWith, totp, proven, cutShort>>

\* (mutant) the session that asks is kept.
EndAllButOne(w) ==
    /\ Wrote(w, "sessions")
    /\ \E kept \in Session :
          session' = [s \in Session |-> IF s \in Live \ {kept} THEN "ENDED" ELSE session[s]]
    /\ UNCHANGED <<club, password, openedWith, totp, proven, cutShort>>

EndAllSessions(w) ==
    /\ Wrote(w, "sessions")
    /\ session' = [s \in Session |-> IF s \in Live THEN "ENDED" ELSE session[s]]
    /\ UNCHANGED <<club, password, openedWith, totp, proven, cutShort>>
-----------------------------------------------------------------------------
(* The second factor (totp.service.ts)                                     *)

\* What setupTotp writes: a secret that has to be verified first.
SetUp(secret) == [enabled |-> FALSE, secret |-> secret]

ReadSetupTotp(w) ==
    /\ Live # {}
    /\ ~totp.enabled
    /\ \E secret \in Secret \ proven :
          Begin(w, [op |-> "setupTotp", secret |-> secret])
    /\ UNCHANGED <<club, user>>

CommitSetupTotp(w) ==
    /\ txn[w].op = "setupTotp"
    /\ totp' = SetUp(txn[w].secret)
    /\ Done(w)
    /\ UNCHANGED <<club, password, session, openedWith, proven, cutShort>>

\* The code given belongs to the secret that was read.
ReadVerifyTotp(w) ==
    /\ Live # {}
    /\ totp.secret # NoSecret
    /\ Begin(w, [op |-> "verifyTotp"])
    /\ proven' = proven \cup {totp.secret}
    /\ UNCHANGED <<club, password, session, openedWith, totp, cutShort>>

CommitVerifyTotp(w) ==
    /\ txn[w].op = "verifyTotp"
    /\ totp' = [totp EXCEPT !.enabled = TRUE]
    /\ Done(w)
    /\ UNCHANGED <<club, password, session, openedWith, proven, cutShort>>

ReadDisableTotp(w) ==
    /\ Live # {}
    /\ totp.enabled /\ totp.secret # NoSecret
    /\ Begin(w, [op |-> "disableTotp"])
    /\ UNCHANGED <<club, user>>

\* (mutant) the secret is cleared and the flag is forgotten.
CommitDisableTotpHalf(w) ==
    /\ txn[w].op = "disableTotp"
    /\ totp' = [totp EXCEPT !.secret = NoSecret]
    /\ Done(w)
    /\ UNCHANGED <<club, password, session, openedWith, proven, cutShort>>

CommitDisableTotp(w) ==
    /\ txn[w].op = "disableTotp"
    /\ totp' = [enabled |-> FALSE, secret |-> NoSecret]
    /\ Done(w)
    /\ UNCHANGED <<club, password, session, openedWith, proven, cutShort>>
-----------------------------------------------------------------------------
Next ==
    \E w \in Worker :
        \/ Abort(w)
        \/ ReadRegenerate(w)
        \/ RevokeLinks(w)
        \/ CommitRegenerate(w)
        \/ ReadActivate(w)
        \/ CommitActivate(w)
        \/ ReadDeactivate(w)
        \/ CommitDeactivate(w)
        \/ ReadLink(w)
        \/ ReadUserByLink(w)
        \/ ReadUser(w)
        \/ CreateSession(w)
        \/ \E s \in Session : EndSession(w, s) \/ EndOtherSessions(w, s)
        \/ ReadChangePassword(w)
        \/ WritePassword(w)
        \/ EndAllSessions(w)
        \/ ReadSetupTotp(w)
        \/ CommitSetupTotp(w)
        \/ ReadVerifyTotp(w)
        \/ CommitVerifyTotp(w)
        \/ ReadDisableTotp(w)
        \/ CommitDisableTotp(w)

Spec == Init /\ [][Next]_vars
-----------------------------------------------------------------------------
\* Whatever the interleaving, an emergency that is not resolved keeps the club
\* locked, although two of them can be active at once
\* (platform.service.ts:2902-2929).
EmergencyLocks == ActiveLocks # {} => accessStatus = "EMERGENCY_LOCKED"

\* When requests do not overlap, a locked club has an emergency to resolve and no
\* link that would open it again afterwards, and a club has one link at most
\* (security.service.ts:142-290).
LockedHasNoLink ==
    ~overlapped =>
        /\ accessStatus = "EMERGENCY_LOCKED" => ActiveLocks # {} /\ ActiveLinks = {}
        /\ Cardinality(ActiveLinks) <= 1

\* When requests do not overlap, a change of the password that was not cut short
\* leaves no session opened with an earlier one (auth.service.ts:256-269).
PasswordEndsSessions ==
    ~overlapped /\ ~cutShort /\ (\A w \in Worker : txn[w].op # "changePassword")
        => \A s \in Live : openedWith[s] = {password}

\* When requests do not overlap, a second factor is never asked for unless its user
\* has shown a code of the very secret it is checked against (totp.service.ts:20-81).
EnabledIsProven == ~overlapped /\ totp.enabled => totp.secret \in proven

\* An emergency locks the club for as long as it lasts, and leaves no way round it
\* (security.service.ts:142-290; platform.service.ts:2902-2929).
EmergencyHolds == EmergencyLocks /\ LockedHasNoLink
=============================================================================
