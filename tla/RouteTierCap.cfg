SPECIFICATION Spec
CONSTANTS
    r1 = r1
    r2 = r2
    flash = flash
    m3 = m3
    sol = sol
    fable = fable
    kilo = kilo
    NoWorker = NoWorker
    Requests <- Two
    Workers <- Few
    Pool <- FewInPool
    Ladder <- FewInLadder
    Enabled <- Few
    Flash = m3
    Kilo = kilo
    ImageWorker = m3
    Vision <- VisionSet
    Baosi <- SacredSet
    Sacred <- SacredSet
    Cost <- FewCosts
    Budget = 3
    Rules = {}
    ShuntAt = 1
    Gate = 1
    HardCap = 1
    SacredCost = 1
    MaxAttempts = 2
    Suspects <- FewSuspects
PROPERTIES SacredCapHolds
