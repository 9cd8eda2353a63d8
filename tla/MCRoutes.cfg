SPECIFICATION Spec
CONSTANTS
    Clients = {c1, c2}
    Jobs = {j1}
    NoJob = NoJob
    FirstDay = 5
    MaxDay = 6
    MaxActions = 2
    MaxBonuses = 2
    FreezeEarnInterval = 2
    MaxBankedFreezes = 1
    StreakMilestones = {2, 4}
    Reporters = {u1, u2, u3, u4}
    Entities = {e1}
    BadgeThreshold = 3
    Sessions = {s1, s2}
    MockQuestions = 2
    MaxGenerations = 2
    MaxAnswers = 3
    Resumes = {x1, x2}
    Threads = {t1}
    NoThread = NoThread
    Rounds = 2
    CoachQuestions = 5
    Marks = {2, 5}
    MaxActive = 3
    MaxGrants = 3
    TaskIds = {k1, k2}
    NoTask = NoTask
SYMMETRY Symmetry
CONSTRAINT CoachBound
INVARIANTS
    TypeOK
    CascadeIsWhole
    StreakFollowsRules
    EntriesAndBonusCounted
    BadgeWhenDue
    AnswersAccounted
    OneMaster
    SessionsAreScored
    TranscriptTells
    GrantsAccounted
    RecordTellsMessage
CHECK_DEADLOCK FALSE
