SPECIFICATION Spec
CONSTANTS
    w1 = w1
    w2 = w2
    Torn = Torn
    NoFile = NoFile
    NoWorker = NoWorker
    Workers <- OneWorker
    Rechecks = {"loop"}
    Switches = {TRUE, FALSE}
    Cron = TRUE
PROPERTIES VerdictsStand
