--------------------------- MODULE CircuitBreaker ---------------------------
(***************************************************************************)
(* data/circuit_breaker.json and its writers: in the server the quarantine  *)
(* sweep, the recheck loop and the admin handlers, one of which rechecks    *)
(* too; in a process of its own cron's health-probe.  Every update loads    *)
(* the whole file, edits it and saves it through one temporary file of a    *)
(* fixed name (open, write, replace).  The lock of circuit_breaker.py       *)
(* serializes the server's own updates; between two processes any system    *)
(* call interleaves, and either may die at any point.                      *)
(*                                                                         *)
(* A file is what a reader finds in it: a state, or Torn when it is not     *)
(* JSON.  A process writes to the inode it opened, which another's          *)
(* os.replace may have made the live file meanwhile.                       *)
(***************************************************************************)
EXTENDS Naturals

CONSTANTS
    Workers,
    Cron,      \* whether the crontab of cron.py is installed
    Rechecks,  \* who rechecks: the loop, and perhaps an administrator
    Switches,  \* bound: how administrators set the kill switch
    Torn,      \* a file that does not parse
    NoFile,
    NoWorker

VARIABLES
    live,      \* what STATE_PATH holds
    tmp,       \* what circuit_breaker.json.tmp holds
    pc,        \* where each process is in _atomic_write_text
    fd,        \* the file each process has open for writing
    held,      \* the state each process is about to save (else Default)
    again,     \* check_and_update's second save is still to come
    sweeping,  \* the sweep's workers still to be judged
    probe,     \* the worker each recheck is waiting for
    due,       \* the rest of its snapshot
    clearing,  \* the worker whose good probe it is persisting
    judged,    \* whom the server's save in progress is about
    saver      \* the recheck whose save it is, else Other

files == <<live, tmp, fd>>
loops == <<sweeping, probe, due, clearing>>
save == <<judged, saver>>
vars == <<files, pc, held, again, loops, save>>

Store == INSTANCE BreakerStore WITH state <- live

States == Store!States
Default == Store!Default
Processes == {"server", "cron"}
Other == "other"

ASSUME BreakerAssumption ==
    /\ Cron \in BOOLEAN /\ Switches \subseteq BOOLEAN
    /\ "loop" \in Rechecks /\ Rechecks \subseteq {"loop", "admin"}
    /\ NoWorker \notin Workers
    /\ Torn \notin States
    /\ NoFile \notin States \cup {Torn}

TypeOK ==
    /\ live \in States \cup {Torn}
    /\ tmp \in States \cup {Torn, NoFile}
    /\ pc \in [Processes -> {"idle", "open", "write", "replace"}]
    /\ fd \in [Processes -> {"none", "tmp", "live", "gone"}]
    /\ held \in [Processes -> States]
    /\ again \in BOOLEAN
    /\ sweeping \subseteq Workers
    /\ probe \in [Rechecks -> Workers \cup {NoWorker}]
    /\ due \in [Rechecks -> SUBSET Workers]
    /\ clearing \in [Rechecks -> Workers \cup {NoWorker}]
    /\ judged \in Workers \cup {NoWorker}
    /\ saver \in Rechecks \cup {Other}

Init ==
    /\ live = Default
    /\ tmp = NoFile
    /\ pc = [p \in Processes |-> "idle"]
    /\ fd = [p \in Processes |-> "none"]
    /\ held = [p \in Processes |-> Default]
    /\ again = FALSE
    /\ sweeping = {}
    /\ probe = [r \in Rechecks |-> NoWorker]
    /\ due = [r \in Rechecks |-> {}]
    /\ clearing = [r \in Rechecks |-> NoWorker]
    /\ judged = NoWorker
    /\ saver = Other

-----------------------------------------------------------------------------
(* load_state and _atomic_write_text *)

\* An unreadable file is taken for the default state.
Loaded == IF live = Torn THEN Default ELSE live

Quarantined == {w \in Workers : Loaded.verdict[w] = "bad"}

\* p has loaded and edited the state and is about to save it.
Saves(p, state) ==
    /\ pc' = [pc EXCEPT ![p] = "open"]
    /\ held' = [held EXCEPT ![p] = state]

Idles(p) ==
    /\ pc' = [pc EXCEPT ![p] = "idle"]
    /\ held' = [held EXCEPT ![p] = Default]

\* The server's save is over.
Saved == judged' = NoWorker /\ saver' = Other

\* Fault: the file is written in place.
OpensTmpInPlace(p) ==
    /\ pc[p] = "open"
    /\ pc' = [pc EXCEPT ![p] = "write"]
    /\ fd' = [fd EXCEPT ![p] = "live"]
    /\ live' = Torn
    /\ tmp' = held[p]
    /\ UNCHANGED <<held, again, loops, save>>

\* open(tmp_path, "w") truncates what another process may be writing.
OpensTmp(p) ==
    /\ pc[p] = "open"
    /\ pc' = [pc EXCEPT ![p] = "write"]
    /\ fd' = [fd EXCEPT ![p] = "tmp"]
    /\ tmp' = Torn
    /\ UNCHANGED <<live, held, again, loops, save>>

\* Text written over longer text leaves its tail.
Written(file, state) == IF file = Torn THEN {state} ELSE {state, Torn}

WritesTmp(p) ==
    /\ pc[p] = "write"
    /\ pc' = [pc EXCEPT ![p] = "replace"]
    /\ IF fd[p] = "tmp" THEN tmp' \in Written(tmp, held[p]) ELSE UNCHANGED tmp
    /\ IF fd[p] = "live" THEN live' \in Written(live, held[p]) ELSE UNCHANGED live
    /\ UNCHANGED <<fd, held, again, loops, save>>

\* os.replace makes the temporary file the live one for every process that
\* has it open, and unlinks the live one.
Renamed(p) == [q \in Processes |->
    IF q = p THEN "none"
    ELSE IF fd[q] = "live" THEN "gone"
    ELSE IF fd[q] = "tmp" THEN "live" ELSE fd[q]]

Replaces(p) ==
    /\ pc[p] = "replace"
    /\ tmp # NoFile
    /\ live' = tmp
    /\ tmp' = NoFile
    /\ fd' = Renamed(p)
    /\ IF p = "cron" /\ again
       THEN /\ pc' = [pc EXCEPT ![p] = "open"]
            /\ again' = FALSE
            /\ UNCHANGED held
       ELSE /\ Idles(p)
            /\ UNCHANGED again
    /\ IF p = "server" THEN Saved ELSE UNCHANGED save
    /\ UNCHANGED loops

-----------------------------------------------------------------------------
(* The server *)

\* The event loop is not inside an update.
ServerFree == pc["server"] = "idle" /\ sweeping = {} /\ \A r \in Rechecks : clearing[r] = NoWorker

\* update_err_rate_quarantine, clear_quarantine: the verdict of one worker.
Judges(w, v) ==
    /\ Saves("server", [Loaded EXCEPT !.verdict[w] = v])
    /\ judged' = w
    /\ UNCHANGED <<files, again>>

\* The sweep judges the workers that have rows enough in its window.
SweepWakes ==
    /\ ServerFree
    /\ sweeping' \in SUBSET Workers \ {{}}
    /\ UNCHANGED <<files, pc, held, again, probe, due, clearing, save>>

SweepJudges(w) ==
    /\ pc["server"] = "idle"
    /\ w \in sweeping
    /\ sweeping' = sweeping \ {w}
    /\ \E v \in {"clean", "bad"} : Judges(w, v)
    /\ UNCHANGED <<probe, due, clearing, saver>>

\* The recheck loop takes a snapshot of the quarantined workers; so does an
\* administrator's recheck, or it is asked for one worker.
Rests(r) == probe[r] = NoWorker /\ due[r] = {}

RecheckWakes ==
    /\ ServerFree
    /\ Rests("loop")
    /\ due' = [due EXCEPT !["loop"] = Quarantined]
    /\ UNCHANGED <<files, pc, held, again, sweeping, probe, clearing, save>>

AdminRechecks ==
    /\ "admin" \in Rechecks
    /\ ServerFree
    /\ Rests("admin")
    /\ \E targets \in {Quarantined} \cup {{w} : w \in Workers} : due' = [due EXCEPT !["admin"] = targets]
    /\ UNCHANGED <<files, pc, held, again, sweeping, probe, clearing, save>>

RecheckProbes(r, w) ==
    /\ ServerFree
    /\ probe[r] = NoWorker
    /\ w \in due[r]
    /\ probe' = [probe EXCEPT ![r] = w]
    /\ due' = [due EXCEPT ![r] = @ \ {w}]
    /\ UNCHANGED <<files, pc, held, again, sweeping, clearing, save>>

\* Fault: a probe that failed clears.
ProbeReturnsInverted(r, ok) ==
    /\ ServerFree
    /\ probe[r] # NoWorker
    /\ probe' = [probe EXCEPT ![r] = NoWorker]
    /\ clearing' = [clearing EXCEPT ![r] = IF ok THEN NoWorker ELSE probe[r]]
    /\ saver' = r
    /\ Saves("server", Loaded)
    /\ UNCHANGED <<files, again, sweeping, due, judged>>

\* update_quarantine_probe saves the probe's outcome in the worker's entry, if
\* it has one; an answer then clears the quarantine.
ProbeReturns(r, ok) ==
    /\ ServerFree
    /\ probe[r] # NoWorker
    /\ probe' = [probe EXCEPT ![r] = NoWorker]
    /\ clearing' = [clearing EXCEPT ![r] = IF ok THEN probe[r] ELSE NoWorker]
    /\ IF Loaded.verdict[probe[r]] = "none"
       THEN UNCHANGED <<pc, held, saver>>
       ELSE Saves("server", Loaded) /\ saver' = r
    /\ UNCHANGED <<files, again, sweeping, due, judged>>

ProbeAnswered(r) == ProbeReturns(r, TRUE)
ProbeFailed(r) == ProbeReturns(r, FALSE)

RecheckClears(r) ==
    /\ pc["server"] = "idle"
    /\ clearing[r] # NoWorker
    /\ clearing' = [clearing EXCEPT ![r] = NoWorker]
    /\ IF clearing[r] \in Quarantined
       THEN Judges(clearing[r], "clean") /\ saver' = r
       ELSE UNCHANGED <<files, pc, held, again, save>>
    /\ UNCHANGED <<sweeping, probe, due>>

AdminClears(w) ==
    /\ ServerFree
    /\ w \in Quarantined
    /\ Judges(w, "clean")
    /\ UNCHANGED <<loops, saver>>

\* Fault: the switch is written as the whole state.
AdminSetsKillAlone(b) ==
    /\ ServerFree
    /\ Saves("server", [Default EXCEPT !.kill = b])
    /\ UNCHANGED <<files, again, loops, save>>

\* set_gradual_dpsk_v4_flash, without the lock.
AdminSetsKill(b) ==
    /\ ServerFree
    /\ Saves("server", [Loaded EXCEPT !.kill = b])
    /\ UNCHANGED <<files, again, loops, save>>

\* os.replace finds no temporary file: another process has replaced it.  The
\* sweep goes on with its next worker; a recheck whose save it is starts afresh.
ServerSaveFails ==
    /\ pc["server"] = "replace"
    /\ tmp = NoFile
    /\ Idles("server")
    /\ fd' = [fd EXCEPT !["server"] = "none"]
    /\ Saved
    /\ clearing' = [r \in Rechecks |-> IF r = saver THEN NoWorker ELSE clearing[r]]
    /\ due' = [r \in Rechecks |-> IF r = saver THEN {} ELSE due[r]]
    /\ UNCHANGED <<live, tmp, again, sweeping, probe>>

ServerDies ==
    /\ Idles("server")
    /\ fd' = [fd EXCEPT !["server"] = "none"]
    /\ sweeping' = {}
    /\ probe' = [r \in Rechecks |-> NoWorker]
    /\ due' = [r \in Rechecks |-> {}]
    /\ clearing' = [r \in Rechecks |-> NoWorker]
    /\ Saved
    /\ UNCHANGED <<live, tmp, again>>

-----------------------------------------------------------------------------
(* cron's health-probe: check_and_update, without the lock *)

\* Below the floor an open breaker is left alone.
FindsLow ==
    /\ Cron
    /\ pc["cron"] = "idle"
    /\ ~Loaded.open
    /\ Saves("cron", [Loaded EXCEPT !.open = TRUE])
    /\ again' = FALSE
    /\ UNCHANGED <<files, loops, save>>

\* Above it the state is saved, twice when that closes the breaker.
FindsHigh ==
    /\ Cron
    /\ pc["cron"] = "idle"
    /\ Saves("cron", [Loaded EXCEPT !.open = FALSE])
    /\ again' = Loaded.open
    /\ UNCHANGED <<files, loops, save>>

\* A health-probe dies, of a missing temporary file or of anything else.
CronDies ==
    /\ pc["cron"] # "idle"
    /\ Idles("cron")
    /\ fd' = [fd EXCEPT !["cron"] = "none"]
    /\ again' = FALSE
    /\ UNCHANGED <<live, tmp, loops, save>>

-----------------------------------------------------------------------------

SaveStep(p) == OpensTmp(p) \/ WritesTmp(p) \/ Replaces(p)

Next ==
    \/ \E p \in Processes : SaveStep(p)
    \/ SweepWakes \/ RecheckWakes \/ AdminRechecks
    \/ \E r \in Rechecks : ProbeAnswered(r) \/ ProbeFailed(r) \/ RecheckClears(r)
    \/ \E r \in Rechecks, w \in Workers : RecheckProbes(r, w)
    \/ \E w \in Workers : SweepJudges(w) \/ AdminClears(w)
    \/ \E b \in Switches : AdminSetsKill(b)
    \/ ServerSaveFails \/ ServerDies \/ CronDies \/ FindsLow \/ FindsHigh

\* The server's loops run and its probes return; nothing is assumed of
\* administrators, of cron and of the sweep's verdicts.
Fairness ==
    /\ WF_vars(SaveStep("server") \/ ServerSaveFails)
    /\ \A w \in Workers : WF_vars(SweepJudges(w)) /\ SF_vars(RecheckProbes("loop", w))
    /\ SF_vars(RecheckWakes)
    /\ SF_vars(ProbeAnswered("loop") \/ ProbeFailed("loop"))
    /\ \A r \in Rechecks : WF_vars(RecheckClears(r))

Spec == Init /\ [][Next]_vars
FairSpec == Spec /\ Fairness

-----------------------------------------------------------------------------
(* Properties *)

\* Whatever dies in the middle of a save, a reader finds a whole state
\* (_atomic_write_text's docstring, circuit_breaker.py:124).  So it is with the
\* server alone; cron shares the name of the temporary file with it.
NeverTorn == live # Torn

\* A worker's verdict changes only when an update about that worker is saved:
\* no save of another part of the file brings an older one back.  So it is with
\* the server alone; the lock that is to hold cron off as well
\* (circuit_breaker.py:11) is one of a process.
VerdictsStand ==
    [][\A w \in Workers :
          /\ {live, live'} \subseteq States
          /\ live'.verdict[w] # live.verdict[w]
          => judged = w]_vars

\* With the server alone the file is the register its callers take it for.
ImplementsStore == Store!Spec

\* Whatever cron and crashes have left in the file, once they are over a
\* quarantined worker that answers its probes is let back in, again and again
\* if the sweep condemns it again and again.
Disturbs ==
    ProbeFailed("loop") \/ ServerDies \/ FindsLow \/ FindsHigh \/ CronDies \/ SaveStep("cron")
HealthyWorkersReturn ==
    <>[][~Disturbs]_vars => \A w \in Workers : []<>(w \notin Quarantined)

=============================================================================
