SPECIFICATION Spec
CONSTANTS
    Workers = {"m3", "grok", "fable"}
    NoWorker = "nobody"
    Cheap = "m3"
    Chains <- MCChains
    Requests <- MCRequests
    Ids = {a, b}
    MaxParts = 2
    MaxBody = 1
    MaxDeltas = 2
INVARIANTS TypeOK MergedWhole TextIsWhole ChargedOnce
PROPERTIES ImplementsEventStream RepliesEnd
