------------------------------ MODULE ClubGames ------------------------------
(***************************************************************************)
(* The games of a club, one of its parts: what is promised of them here is *)
(* checked by MCMemberGames and proved beside the other parts.             *)
(***************************************************************************)
EXTENDS Naturals, FiniteSets, Requests

CONSTANTS
    Player,  \* the members of MemberGames
    Game, Session, Mission, Award, Quiz, Daily, Phaser, OnCheckIn, OnPlay, OnQuiz,
    GameReward, MissionReward, Target, MaxPlaysPerDay, MaxDailyGamePlays, MaxDailyPoints,
    MaxPlays

VARIABLES plays, played, session, progress, entries, completions, dropped

Games == INSTANCE MemberGames WITH Member <- Player

ASSUME GamesOK == Games!ConstantsOK
-----------------------------------------------------------------------------
\* The points of every play and of every mission completed reach the history once, unless
\* the server is lost before (member-app.service.ts:943-953, 1195-1205, 1386-1396).
EarningsExplained == Games!EarningsExplained

\* When requests do not overlap: one check-in a day, each award once, each mission
\* completed once, although the server may be lost (member-app.service.ts:943-1396).
EarnedOnce == Games!EarnedOnce

\* When requests do not overlap, games do not pay more than maxDailyPointsFromGames
\* (member-app.service.ts:904-926, 1181-1193).
DailyCap == Games!DailyCap
=============================================================================
