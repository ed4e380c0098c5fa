SPECIFICATION FairSpec
CONSTANTS
    w1 = w1
    w2 = w2
    Torn = Torn
    NoFile = NoFile
    NoWorker = NoWorker
    Workers <- OneWorker
    Rechecks = {"loop", "admin"}
    Switches = {FALSE}
    Cron = TRUE
PROPERTIES HealthyWorkersReturn
