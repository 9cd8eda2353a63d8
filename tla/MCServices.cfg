SPECIFICATION Spec
CONSTANTS
    Clients = {c1, c2}
    Chunks = {k1, k2}
    MaxRuns = 3
    MaxResults = 3
    CacheDays = 7
    RedisDays = 2
    MongoDays = 3
    NoEntry = NoEntry
    Applications = {"a1"}
    Offers = {"o1", "o2", "o3"}
    Owner <- MCOwner
    Families = {"backend"}
    Stages = {"seed"}
    MinCohort = 2
    Workers = {c1, c2}
    LedgerDays = 3
    WeekDays = 2
    MonthDays = 3
    Costs = {1}
    MaxCalls = 1
    MaxRecorded = 3
    Registry <- MCRegistry
    Checkers = {c1, c2}
    Makers = {c1, c2}
    SourceDays = 2
    MaxEdits = 1
    MaxFailures = 4
    MaxLines = 5
    MaxTokens = 3
    Overlap = 1
    Packages <- MCPackages
    OneTimes = {0, 2}
    Shares = {0, 1, 2}
    Grants = {0, 1, 7, 100}
    Cliffs = {0, 1, 2, 6, 12, 30}
    Terms <- MCTerms
    Prices = {0, 100, 700, 1000}
    MaxPay = 7
    Pays = {1, 2, 3}
    Weights = {0, 1, 4, 8, 20}
    Minutes <- MCMinutes
    Limits = {0, 1, 2, 5, 12}
    MaxTrackers = 3
    Statuses = {"viewed", "responded", "offer_received"}
    Strategies = {"keyword", "story"}
    Hours = {11, 12}
    CompanyHistories <- MCHistories
    Levels = {20, 50, 90}
    Overlaps = {0, 50, 100}
    Ages = {3, 4, 7, 8, 14, 15}
    Submissions = {0, 9, 10, 11, 30, 48, 49, 50, 51}
    Responses = {0, 1, 2, 7, 8, 20, 60}
SYMMETRY Symmetry
CONSTRAINT Bound
INVARIANTS
    TypeOK
    IndexTellsText
    ServedIsFresh
    OutcomesAreTold
    NothingIsLost
    FiguresAddUp
    BetterIsNotLower
    DayFits
CHECK_DEADLOCK FALSE
