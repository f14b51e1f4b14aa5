----------------------------- MODULE MemberGames -----------------------------
(***************************************************************************)
(* What members of the club earn on their portal in one day                *)
(* (member-app.service.ts): the daily check-in, the two awards that are    *)
(* given once, games played at once or in a session, and missions that     *)
(* progress with them.                                                     *)
(*                                                                         *)
(* Only the end of a session is a transaction (its play and its status).   *)
(* Everything else is a chain of statements: limits are counted, the play  *)
(* is inserted, its points are entered, and mission by mission the         *)
(* progress is read, written and paid.  Other requests run in between, and *)
(* a crash drops what is left of the chain.                                *)
(*                                                                         *)
(* Points are followed up to their entry in the history: the balance that  *)
(* addPoints updates next is in MemberRewards and nothing here reads it.   *)
(* Games and missions are active and do not change; cooldowns, dates and   *)
(* the switches of the settings are left out.                              *)
(***************************************************************************)
EXTENDS Integers, FiniteSetsExt, Functions, Requests

CONSTANTS
    Member, Game, Session, Mission,
    Award,            \* what is given once: the day's check-in, two more for good
    Quiz,             \* games with a right answer
    Daily,            \* games of type DAILY_CHECKIN
    Phaser,           \* games that are played in sessions
    OnCheckIn, OnPlay, OnQuiz,   \* missions by the type that makes them progress
    GameReward,       \* pointsReward of a game
    MissionReward,    \* pointsReward of a mission
    Target,           \* targetValue of a mission
    MaxPlaysPerDay,   \* per game and member
    MaxDailyGamePlays,
    MaxDailyPoints,   \* maxDailyPointsFromGames
    MaxPlays          \* bound: plays of a member

\* Assumed by the module that checks this one.
ConstantsOK ==
    /\ Award \subseteq {"daily_checkin", "profile_complete", "first_access"}
    /\ \A type \in {Quiz, Daily, Phaser} : type \subseteq Game
    /\ Quiz \cap Daily = {}
    /\ IsFiniteSet(Mission)
    /\ OnCheckIn \cup OnPlay \cup OnQuiz \subseteq Mission
    /\ \A n \in {GameReward, MissionReward, Target, MaxPlaysPerDay, MaxDailyGamePlays,
                 MaxDailyPoints, MaxPlays} : n \in Nat

VARIABLES
    plays,        \* reward_game_plays: their number by member and game
    played,       \* and the sum of their pointsEarned by member
    session,      \* reward_game_sessions
    progress,     \* member_mission_progress by member and mission
    entries,      \* member_point_transactions: points by member and sourceType
    completions,  \* history: points of missions that were completed
    dropped       \* history: points of plays and missions whose entry a crash prevented

vars == <<plays, played, session, progress, entries, completions, dropped, txn, overlapped>>
-----------------------------------------------------------------------------
AwardPoints == [daily_checkin |-> 5, profile_complete |-> 25, first_access |-> 10]
Source == Award \cup {"game", "mission"}
NoSession == [status |-> "NONE"]

Init ==
    /\ plays = [m \in Member |-> [g \in Game |-> 0]]
    /\ played = [m \in Member |-> 0]
    /\ session = [s \in Session |-> NoSession]
    /\ progress = [m \in Member |-> [q \in Mission |-> [steps |-> 0, completed |-> FALSE]]]
    /\ entries = [m \in Member |-> [k \in Source |-> 0]]
    /\ completions = [m \in Member |-> 0]
    /\ dropped = [m \in Member |-> [k \in {"game", "mission"} |-> 0]]
    /\ NoRequests
-----------------------------------------------------------------------------
Plays == <<plays, played, session>>
Points == <<progress, entries, completions, dropped>>
Tables == <<Plays, Points>>

\* What a request still has to do: enter points, then progress with missions.
ToEnter(m, source, points, todo) ==
    [op |-> IF points > 0 THEN "enter" ELSE "missions", member |-> m, source |-> source,
     points |-> points, todo |-> todo]

\* The server is lost, or the request is refused: what is left is not done.
Abort(w) ==
    LET t == txn[w] IN
    /\ t # Idle
    /\ Done(w)
    /\ dropped' = IF t.op = "enter" /\ t.source \notin Award
                  THEN [dropped EXCEPT ![t.member][t.source] = @ + t.points] ELSE dropped
    /\ UNCHANGED <<Plays, progress, entries, completions>>

\* addPoints, its entry.
EnterPoints(w) ==
    LET t == txn[w] IN
    /\ t.op = "enter"
    /\ entries' = [entries EXCEPT ![t.member][t.source] = @ + t.points]
    /\ Continue(w, [t EXCEPT !.op = "missions", !.points = 0])
    /\ UNCHANGED <<Plays, progress, completions, dropped>>
-----------------------------------------------------------------------------
(* Check-in, profile completed, first access: not if there is an entry.    *)

ReadAward(w, m, source) ==
    /\ entries[m][source] = 0
    /\ Begin(w, ToEnter(m, source, AwardPoints[source],
                        IF source = "daily_checkin" THEN OnCheckIn ELSE {}))
    /\ UNCHANGED Tables
-----------------------------------------------------------------------------
(* Games                                                                   *)

MayPlay(m, g) ==
    /\ plays[m][g] < MaxPlaysPerDay
    /\ SumFunction(plays[m]) < MaxDailyGamePlays

\* (mutant) a play is paid in full as long as the cap is not reached.
CappedLate(m, points) == IF played[m] < MaxDailyPoints THEN points ELSE 0

\* What is left of the daily points, at most.
Capped(m, points) ==
    IF played[m] + points > MaxDailyPoints THEN Max({0, MaxDailyPoints - played[m]}) ELSE points

AddPlay(m, g, points) ==
    /\ SumFunction(plays[m]) < MaxPlays     \* bound
    /\ plays' = [plays EXCEPT ![m][g] = @ + 1]
    /\ played' = [played EXCEPT ![m] = @ + points]

\* A wrong answer earns nothing.  No game is refused for being played in sessions.
ReadPlay(w, m, g) ==
    /\ MayPlay(m, g)
    /\ \E points \in {GameReward} \cup IF g \in Quiz THEN {0} ELSE {} :
          Begin(w, [op |-> "play", member |-> m, game |-> g, points |-> Capped(m, points)])
    /\ UNCHANGED Tables

CreatePlay(w) ==
    LET t == txn[w] IN
    /\ t.op = "play"
    /\ AddPlay(t.member, t.game, t.points)
    /\ Continue(w, ToEnter(t.member, "game", t.points,
                           CASE t.game \in Quiz -> OnQuiz
                             [] t.game \in Daily -> OnCheckIn
                             [] OTHER -> {}))
    /\ UNCHANGED <<session, Points>>

ReadStart(w, m, g) ==
    /\ g \in Phaser
    /\ MayPlay(m, g)
    /\ Begin(w, [op |-> "start", member |-> m, game |-> g])
    /\ UNCHANGED Tables

CancelStarted(w) ==
    LET t == txn[w] IN
    /\ t.op = "start"
    /\ session' = [s \in Session |->
           IF /\ session[s].status = "STARTED"
              /\ session[s].member = t.member
              /\ session[s].game = t.game
           THEN [session[s] EXCEPT !.status = "CANCELLED"]
           ELSE session[s]]
    /\ Continue(w, [t EXCEPT !.op = "create"])
    /\ UNCHANGED <<plays, played, Points>>

CreateSession(w, s) ==
    LET t == txn[w] IN
    /\ t.op = "create"
    /\ session[s] = NoSession
    /\ session' = [session EXCEPT ![s] =
           [status |-> "STARTED", member |-> t.member, game |-> t.game]]
    /\ Done(w)
    /\ UNCHANGED <<plays, played, Points>>

\* In time, or five minutes too late.
ReadFinish(w, s) ==
    /\ session[s].status = "STARTED"
    /\ \/ Begin(w, [op |-> "finish", session |-> s,
                    points |-> Capped(session[s].member, GameReward)])
       \/ Begin(w, [op |-> "expire", session |-> s])
    /\ UNCHANGED Tables

\* (mutant) the play keeps the points of the game, whatever is paid.
CommitFinishUncapped(w) ==
    LET t == txn[w]
        row == session[t.session] IN
    /\ t.op = "finish"
    /\ AddPlay(row.member, row.game, GameReward)
    /\ session' = [session EXCEPT ![t.session].status = "FINISHED"]
    /\ Continue(w, ToEnter(row.member, "game", t.points, OnPlay))
    /\ UNCHANGED Points

\* The play and the status; the status is not asked again.
CommitFinish(w) ==
    LET t == txn[w]
        row == session[t.session] IN
    /\ t.op = "finish"
    /\ AddPlay(row.member, row.game, t.points)
    /\ session' = [session EXCEPT ![t.session].status = "FINISHED"]
    /\ Continue(w, ToEnter(row.member, "game", t.points, OnPlay))
    /\ UNCHANGED Points

CommitExpire(w) ==
    /\ txn[w].op = "expire"
    /\ session' = [session EXCEPT ![txn[w].session].status = "EXPIRED"]
    /\ Done(w)
    /\ UNCHANGED <<plays, played, Points>>
-----------------------------------------------------------------------------
(* Missions, one by one: the progress is read and written back with one    *)
(* step more; the step that reaches the target completes and pays.         *)

PassOver(w, q) ==
    LET t == txn[w] IN
    /\ t.op = "missions" /\ q \in t.todo
    /\ progress[t.member][q].completed
    /\ Continue(w, [t EXCEPT !.todo = @ \ {q}])
    /\ UNCHANGED Tables

\* (mutant) a mission that is completed goes on.
ReadMissionAgain(w, q) ==
    LET t == txn[w] IN
    /\ t.op = "missions" /\ q \in t.todo
    /\ Continue(w, [op |-> "progress", member |-> t.member, mission |-> q,
                    steps |-> progress[t.member][q].steps + 1, todo |-> t.todo \ {q}])
    /\ UNCHANGED Tables

ReadMission(w, q) ==
    LET t == txn[w] IN
    /\ t.op = "missions" /\ q \in t.todo
    /\ ~progress[t.member][q].completed
    /\ Continue(w, [op |-> "progress", member |-> t.member, mission |-> q,
                    steps |-> progress[t.member][q].steps + 1, todo |-> t.todo \ {q}])
    /\ UNCHANGED Tables

WriteProgress(w) ==
    LET t == txn[w]
        completed == t.steps >= Target IN
    /\ t.op = "progress"
    /\ progress' = [progress EXCEPT ![t.member][t.mission] =
           [steps |-> t.steps, completed |-> completed \/ @.completed]]
    /\ completions' = IF completed
                      THEN [completions EXCEPT ![t.member] = @ + MissionReward]
                      ELSE completions
    /\ Continue(w, ToEnter(t.member, "mission", IF completed THEN MissionReward ELSE 0, t.todo))
    /\ UNCHANGED <<Plays, entries, dropped>>

Answer(w) ==
    /\ txn[w].op = "missions" /\ txn[w].todo = {}
    /\ Done(w)
    /\ UNCHANGED Tables
-----------------------------------------------------------------------------
Next ==
    \E w \in Worker :
        \/ Abort(w)
        \/ EnterPoints(w)
        \/ \E m \in Member :
              \/ \E source \in Award : ReadAward(w, m, source)
              \/ \E g \in Game : ReadPlay(w, m, g) \/ ReadStart(w, m, g)
        \/ CreatePlay(w)
        \/ CancelStarted(w)
        \/ \E s \in Session : CreateSession(w, s) \/ ReadFinish(w, s)
        \/ CommitFinish(w)
        \/ CommitExpire(w)
        \/ \E q \in Mission : PassOver(w, q) \/ ReadMission(w, q)
        \/ WriteProgress(w)
        \/ Answer(w)

Spec == Init /\ [][Next]_vars
-----------------------------------------------------------------------------
(* Whatever the interleaving                                               *)

\* What a request has yet to enter for a member, and what they all have.
Due(t, m, source) ==
    IF t.op = "enter" /\ t.member = m /\ t.source = source THEN t.points ELSE 0
Pending(m, source) == SumFunction([w \in Worker |-> Due(txn[w], m, source)])

\* The points of every play and of every mission completed reach the history once,
\* unless the server is lost before (member-app.service.ts:943-953, 1195-1205,
\* 1386-1396).
EarningsExplained ==
    \A m \in Member :
        /\ entries[m]["game"] + Pending(m, "game") + dropped[m]["game"] = played[m]
        /\ entries[m]["mission"] + Pending(m, "mission") + dropped[m]["mission"]
               = completions[m]

-----------------------------------------------------------------------------
(* When requests do not overlap                                            *)

\* One check-in a day, each award once, each mission completed once, although the
\* server may be lost at any point and the member tries again.
EarnedOnce ==
    ~overlapped =>
        \A m \in Member :
            /\ \A source \in Award : entries[m][source] <= AwardPoints[source]
            /\ completions[m] =
                   MissionReward * Cardinality({q \in Mission : progress[m][q].completed})

\* Games do not pay more than maxDailyPointsFromGames, played at once or in sessions
\* that began before (904-926, 1181-1193).
DailyCap == ~overlapped => \A m \in Member : played[m] <= MaxDailyPoints
=============================================================================
