SPECIFICATION FairSpec
CONSTANTS
    r1 = r1
    r2 = r2
    flash = flash
    m3 = m3
    sol = sol
    fable = fable
    kilo = kilo
    NoWorker = NoWorker
    Requests <- One
    Workers <- All
    Pool <- AllInPool
    Ladder <- AllInLadder
    Enabled <- All
    Flash = flash
    Kilo = kilo
    ImageWorker = m3
    Vision <- VisionSet
    Baosi <- BaosiSet
    Sacred <- SacredSet
    Cost <- AllCosts
    Budget = 2
    Rules <- SacredSet
    ShuntAt = 1
    Gate = 1
    HardCap = 1
    SacredCost = 1
    MaxAttempts = 3
    Suspects <- AllSuspects
INVARIANTS ReplyHonest
PROPERTIES RequestsEnd
