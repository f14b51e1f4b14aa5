----------------------------- MODULE ClubNotices -----------------------------
(***************************************************************************)
(* The notices of a club, one of its parts: what is promised of them here  *)
(* is checked by MCNotices and, where it is safety, proved beside the      *)
(* other parts.                                                            *)
(***************************************************************************)
EXTENDS Naturals, FiniteSets, Requests

CONSTANTS Server, Condition, Event, Notice, MaxMoves, MaxFailures

VARIABLES holds, notice, fresh, lock, lapsed, reopened, moves, failures

Board == INSTANCE Notices

ASSUME NoticesOK == Board!ConstantsOK
-----------------------------------------------------------------------------
\* One notice for each condition and event, whatever overlaps, unless a sync outlives the
\* lock (notifications.service.ts:241-245, 642-677).
NoticedOnce == Board!NoticedOnce

\* In the end the notices say what is the case (notifications.service.ts:241-803).
Settled == Board!Settled
=============================================================================
