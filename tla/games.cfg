SPECIFICATION Spec
CONSTANTS
    Worker = {w1, w2}
    Player = {leo}
    Game = {quiz, daily, race}
    Session = {s1, s2}
    Award = {"daily_checkin"}
    Mission = {visit, win}
    Quiz = {quiz}
    Daily = {daily}
    Phaser = {race}
    OnCheckIn = {visit}
    OnPlay = {win}
    OnQuiz = {}
    GameReward = 2
    MissionReward = 1
    Target = 2
    MaxPlaysPerDay = 3
    MaxDailyGamePlays = 3
    MaxDailyPoints = 3
    MaxPlays = 3
SYMMETRY Symmetry
INVARIANTS
    EarningsExplained
    EarnedOnce
    DailyCap
CHECK_DEADLOCK FALSE
