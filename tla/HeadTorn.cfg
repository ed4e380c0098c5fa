SPECIFICATION Spec
CONSTANTS
    Parts = {"head"}
    h1 = h1
    h2 = h2
    r1 = r1
    r2 = r2
    key1 = key1
    session1 = session1
    Nobody = Nobody
    Loop = Loop
    Payers <- InFlight
    Prices = {0, 1}
    Caps = {0, 2}
    DaysPerMonth = 2
    LastDay = 2
    LogLimit = 4
    Hosts <- Processes
    Callers <- InFlight
    Keys = {key1}
    Sessions = {session1}
    SacredKinds = {"redis"}
    SacredOutages <- MCOutages
    SacredCap = 1
    SacredPrice = 1
    SacredLastDay = 1
    SpendLimit = 3
    Askers <- InFlight
    Salts = {"u", "v"}
    Texts = {"a", "b"}
    Similar <- MCSimilar
    Threshold = 1
    TTL = 1
    PruneEvery = 2
    AnswerKinds = {"memory", "table"}
    LastTick = 2
    MaxEntries = 2
    Visitors <- InFlight
    Candidates <- MCCandidates
    Keyed = {"w1", "w3"}
    ProbeModes = {"key", "http"}
    ProbeCache = 1
    ProbedAtMost = 2
    LastSecond = 2
    Servers <- Processes
    Feedbacks = {f1}
    Cells <- MCCells
    Baseline = {"code"}
    Calibrated <- MCCalibrated
    HandTuned <- MCHandTuned
    LocalFloors <- MCNoFloors
    LeastFloors <- MCNoFloors
    Successes = {0, 100}
    OutcomeLimit = 2
    TurnLimit = 1
    JudgeModels <- MCJudges
    JudgePools <- MCJudgePools
    FamilyOf <- MCFamilyOf
    OracleModel = "m3"
    PreferredJudges <- MCPreferred
    PanelLimit = 3
    MinPanel = 2
    Observations <- InFlight
    References = {"p", "q"}
    Replies = {"B", "TIE"}
    Sampled = {"sol"}
    LastHour = 1
    Procs <- Processes
    Configured = "redis"
    Outages <- OneStoreEach
    Rpm = 2
    Daily = 3
    Window = 3
    MaxLag = 1
    DaySecs = 5
    MaxTime = 5
    Charges = {1}
SYMMETRY Symmetry
INVARIANT
    PredictsFromOneMoment
CHECK_DEADLOCK FALSE
