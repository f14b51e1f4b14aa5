------------------------------ MODULE ClubAccess ------------------------------
(***************************************************************************)
(* The way into a club, one of its parts: what is promised of it here is   *)
(* checked by MCAccess and proved beside the other parts.                  *)
(***************************************************************************)
EXTENDS Naturals, FiniteSets, Requests

CONSTANTS
    Link, Lock,
    Login,          \* the sessions of Access
    Password, Secret, NoSecret, RequireAccessLink

VARIABLES accessStatus, link, emergency, password, login, openedWith, totp, proven, cutShort

Gate == INSTANCE Access WITH Session <- Login, session <- login

ASSUME AccessOK == Gate!ConstantsOK
-----------------------------------------------------------------------------
\* An emergency locks the club for as long as it lasts, and leaves no way round it when
\* requests do not overlap (security.service.ts:142-290; platform.service.ts:2902-2929).
EmergencyHolds == Gate!EmergencyHolds

\* When requests do not overlap, a change of the password that was not cut short leaves no
\* session opened with an earlier one (auth.service.ts:256-269).
PasswordEndsSessions == Gate!PasswordEndsSessions

\* When requests do not overlap, a second factor is never asked for unless its user has
\* shown a code of the very secret it is checked against (totp.service.ts:20-81).
EnabledIsProven == Gate!EnabledIsProven
=============================================================================
