SPECIFICATION Spec
CONSTANTS
    w1 = w1
    w2 = w2
    Torn = Torn
    NoFile = NoFile
    NoWorker = NoWorker
    Workers <- TwoWorkers
    Rechecks = {"loop", "admin"}
    Switches = {TRUE, FALSE}
    Cron = FALSE
INVARIANTS NeverTorn
PROPERTIES ImplementsStore
