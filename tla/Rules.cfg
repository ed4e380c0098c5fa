SPECIFICATION Spec
CONSTANTS
    Parts = {"rules", "tools", "pareto"}
    Vocabulary <- MCVocabulary
    LengthOf <- MCLengthOf
    Lengths = {10, 29, 60, 90, 120, 150, 250, 600}
    MaxWords = 2
    Environments <- MCEnvironments
    Erring = {}
    Apis = {"chat", "responses"}
    CallIds = {0, 1, 50}
    Turns <- MCTurns
    MaxHeard = 4
    Registry <- MCRegistry
    AutoPool <- MCAutoPool
    LastResort = "flash"
    PriceOf <- MCPriceOf
    ChatOnly = {"flash"}
    Difficulties = {"easy", "hard"}
    Categories = {"code"}
    Table <- MCTable
    SessionLogs <- MCLogs
    QualityFloor = 70
    HardFloor = 40
    MinSamples = 5
    ColdRadius = 40
    MaxRadius = 50
    CPModes = {TRUE, FALSE}
    Verdicts = {0, 100}
    MaxJudged = 2
INVARIANTS
    NamedAllowed Strict Idempotent NothingLost AnswersItsCall BetterKeepsThePick
PROPERTIES
    MoreNeverCountsLess OverlayKept
CHECK_DEADLOCK FALSE
