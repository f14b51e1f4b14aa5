------------------------------ MODULE ClubStaff ------------------------------
(***************************************************************************)
(* The staff of a club, one of its parts: what is promised of it here is   *)
(* checked by MCRaces and proved beside the others.                        *)
(***************************************************************************)
EXTENDS Naturals, FiniteSets, InFlight

CONSTANTS
    Employee,       \* the users of Staff
    Founder, Support, MaxUsers, Permission, Manageable, MaxOverrides, MaxTokens

VARIABLES
    role, status, override, token, entrusted,
    unblocked,      \* those Staff calls reopened
    left,
    crossed         \* whether requests have overlapped

Team == INSTANCE Staff WITH User <- Employee, reopened <- unblocked, overlapped <- crossed

ASSUME StaffOK == Team!ConstantsOK
-----------------------------------------------------------------------------
\* Nobody comes by a power over users that no owner gave, and without it nobody takes the
\* club from its founder (users.service.ts:238, 300; auth.service.ts:346-378).
PowersEntrusted == Team!PowersEntrusted

\* Requests that overlap exceed the seats of the plan by one less than there are requests,
\* and those who were blocked come back without being counted (users.service.ts:75-88).
SeatsBounded == Team!SeatsBounded
=============================================================================
