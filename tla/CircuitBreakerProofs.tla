------------------------ MODULE CircuitBreakerProofs ------------------------
(***************************************************************************)
(* With the server as its only writer circuit_breaker.json is the atomic    *)
(* register of BreakerStore, for any set of workers and however often the   *)
(* server dies in the middle of a save.                                    *)
(***************************************************************************)
EXTENDS CircuitBreaker, TLAPS

\* What the server has in memory differs from the file by the one decision it
\* is about to save.
OneEdit(state) ==
    \/ /\ judged \in Workers
       /\ \E v \in Store!Verdicts : state = [live EXCEPT !.verdict[judged] = v]
    \/ judged = NoWorker /\ state = live
    \/ judged = NoWorker /\ \E b \in BOOLEAN : state = [live EXCEPT !.kill = b]

\* No second process writes, and a save in progress is where its program
\* counter says: an empty temporary file before the write, all of it after.
IInv ==
    /\ TypeOK
    /\ live \in States
    /\ pc["cron"] = "idle"
    /\ fd["cron"] = "none"
    /\ fd["server"] = IF pc["server"] \in {"write", "replace"} THEN "tmp" ELSE "none"
    /\ pc["server"] = "write" => tmp = Torn
    /\ pc["server"] = "replace" => tmp = held["server"]
    /\ pc["server"] = "idle" => judged = NoWorker
    /\ pc["server"] # "idle" => OneEdit(held["server"])

LEMMA DefaultState == Default \in States
    BY DEF Default, States, Store!Default, Store!States, Store!Verdicts

LEMMA EditTypes ==
    ASSUME NEW s \in States
    PROVE  /\ \A w \in Workers, v \in Store!Verdicts : [s EXCEPT !.verdict[w] = v] \in States
           /\ \A b \in BOOLEAN : [s EXCEPT !.kill = b] \in States
           /\ \A b \in BOOLEAN : [s EXCEPT !.open = b] \in States
    BY DEF States, Store!States

LEMMA InitInv == Init => IInv
<1> SUFFICES ASSUME Init PROVE IInv
    OBVIOUS
<1>1. /\ probe \in [Rechecks -> Workers \cup {NoWorker}]
      /\ due \in [Rechecks -> SUBSET Workers]
      /\ clearing \in [Rechecks -> Workers \cup {NoWorker}]
      /\ saver \in Rechecks \cup {Other}
    BY DEF Init
<1>2. /\ held \in [Processes -> States] /\ live \in States
      /\ pc \in [Processes -> {"idle", "open", "write", "replace"}]
      /\ fd \in [Processes -> {"none", "tmp", "live", "gone"}]
    BY DefaultState DEF Init
<1> QED BY <1>1, <1>2 DEF Init, IInv, TypeOK, Processes

\* What the loops and the rechecks have in hand.
LoopsType ==
    /\ sweeping \subseteq Workers
    /\ probe \in [Rechecks -> Workers \cup {NoWorker}]
    /\ due \in [Rechecks -> SUBSET Workers]
    /\ clearing \in [Rechecks -> Workers \cup {NoWorker}]
    /\ saver \in Rechecks \cup {Other}

\* An update has been loaded and edited; the file is not touched yet.
LEMMA StartsSave ==
    ASSUME IInv, NEW s \in States, Saves("server", s), UNCHANGED <<files, again>>,
           pc["server"] = "idle",
           judged' \in Workers \cup {NoWorker}, OneEdit(s)', LoopsType'
    PROVE  IInv' /\ UNCHANGED live
<1>1. /\ pc'["server"] = "open" /\ pc'["cron"] = "idle" /\ held'["server"] = s
      /\ fd'["server"] = "none" /\ fd'["cron"] = "none"
      /\ held' \in [Processes -> States]
      /\ pc' \in [Processes -> {"idle", "open", "write", "replace"}]
    BY DEF IInv, TypeOK, Saves, Processes, files
<1>2. TypeOK'
    BY <1>1 DEF IInv, TypeOK, LoopsType, files
<1> QED BY <1>1, <1>2 DEF IInv, files

LEMMA StartsVerdict ==
    ASSUME IInv, NEW w \in Workers, NEW v \in Store!Verdicts, Judges(w, v),
           pc["server"] = "idle", LoopsType'
    PROVE  IInv' /\ UNCHANGED live
<1>0. live \in States /\ live # Torn /\ Loaded = live
    BY BreakerAssumption DEF IInv, Loaded
<1>1. PICK s \in States : s = [live EXCEPT !.verdict[w] = v]
    BY <1>0, EditTypes
<1>2. Saves("server", s) /\ judged' = w /\ UNCHANGED <<files, again>>
    BY <1>0, <1>1 DEF Judges
<1>3. OneEdit(s)'
    BY <1>1, <1>2 DEF OneEdit, files
<1> QED BY <1>1, <1>2, <1>3, StartsSave

\* One step of the server's save: the file stays as it is, or takes the edit.
LEMMA SaveStepInv ==
    ASSUME IInv, SaveStep("server")
    PROVE  IInv' /\ (UNCHANGED live \/ (live' = held["server"] /\ OneEdit(held["server"])))
<1>0. TypeOK /\ live \in States /\ held["server"] \in States
    BY DEF IInv, TypeOK, Processes
<1>1. CASE OpensTmp("server")
  <2>1. /\ pc'["server"] = "write" /\ pc'["cron"] = "idle"
        /\ fd'["server"] = "tmp" /\ fd'["cron"] = "none" /\ tmp' = Torn
        /\ UNCHANGED <<live, held, judged>>
    BY <1>0, <1>1 DEF OpensTmp, IInv, TypeOK, Processes, save
  <2>2. TypeOK'
    BY <1>0, <1>1 DEF OpensTmp, TypeOK, loops, save, Processes
  <2>3. pc["server"] # "idle" /\ OneEdit(held["server"])
    BY <1>1 DEF OpensTmp, IInv
  <2> QED BY <1>0, <2>1, <2>2, <2>3 DEF IInv, OneEdit
<1>2. CASE WritesTmp("server")
  <2>1. pc["server"] = "write" /\ tmp = Torn /\ fd["server"] = "tmp" /\ OneEdit(held["server"])
    BY <1>2 DEF WritesTmp, IInv
  <2>2. /\ pc'["server"] = "replace" /\ pc'["cron"] = "idle" /\ tmp' = held["server"]
        /\ UNCHANGED <<live, fd, held, judged>>
    BY <1>0, <1>2, <2>1 DEF WritesTmp, Written, IInv, TypeOK, Processes, save
  <2>3. TypeOK'
    BY <1>0, <1>2, <2>2 DEF WritesTmp, TypeOK, loops, save, Processes
  <2> QED BY <1>0, <2>1, <2>2, <2>3 DEF IInv, OneEdit
<1>3. CASE Replaces("server")
  <2>1. tmp = held["server"] /\ OneEdit(held["server"]) /\ fd["cron"] = "none"
    BY <1>3 DEF Replaces, IInv
  <2>2. /\ live' = held["server"] /\ tmp' = NoFile /\ judged' = NoWorker /\ saver' = Other
        /\ Idles("server") /\ fd' = Renamed("server")
        /\ UNCHANGED <<again, loops>>
    BY <1>3, <2>1 DEF Replaces, Saved
  <2>3. /\ pc'["server"] = "idle" /\ pc'["cron"] = "idle"
        /\ pc' \in [Processes -> {"idle", "open", "write", "replace"}]
        /\ held' \in [Processes -> States]
    BY <1>0, <2>2, DefaultState DEF Idles, IInv, TypeOK, Processes
  <2>4. /\ fd'["server"] = "none" /\ fd'["cron"] = "none"
        /\ fd' \in [Processes -> {"none", "tmp", "live", "gone"}]
    <3>1. \A q \in Processes : q = "server" \/ q = "cron"
        BY DEF Processes
    <3>2. fd'["server"] = "none" /\ fd'["cron"] = "none"
        BY <2>1, <2>2, <3>1 DEF Renamed, Processes
    <3>3. fd' = [q \in Processes |-> fd'[q]]
        BY <2>2 DEF Renamed
    <3> QED BY <3>1, <3>2, <3>3
  <2>5. TypeOK'
    BY <1>0, <2>2, <2>3, <2>4 DEF TypeOK, loops
  <2> QED BY <1>0, <2>1, <2>2, <2>3, <2>4, <2>5 DEF IInv
<1> QED BY <1>1, <1>2, <1>3 DEF SaveStep

\* Every step of the specification, with no crontab installed.
LEMMA StepInv ==
    ASSUME ~Cron, IInv, [Next]_vars
    PROVE  IInv' /\ (UNCHANGED live \/ (live' = held["server"] /\ OneEdit(held["server"])))
<1>0. live \in States /\ live # Torn /\ Loaded = live /\ TypeOK
    BY BreakerAssumption DEF IInv, Loaded
<1>1. ASSUME NEW p \in Processes, SaveStep(p) PROVE p = "server"
    BY <1>1 DEF SaveStep, OpensTmp, WritesTmp, Replaces, IInv, Processes
<1>2. CASE \E p \in Processes : SaveStep(p)
    BY <1>1, <1>2, SaveStepInv
<1>3. CASE SweepWakes \/ RecheckWakes \/ AdminRechecks \/ \E r \in Rechecks, w \in Workers : RecheckProbes(r, w)
  <2>1. UNCHANGED <<files, pc, held, again, judged, saver, clearing>>
    BY <1>3 DEF SweepWakes, RecheckWakes, AdminRechecks, RecheckProbes, save
  <2>2. Quarantined \subseteq Workers
    BY DEF Quarantined
  <2>3. sweeping' \subseteq Workers /\ probe' \in [Rechecks -> Workers \cup {NoWorker}]
    BY <1>0, <1>3 DEF SweepWakes, RecheckWakes, AdminRechecks, RecheckProbes, TypeOK
  <2>4. due' \in [Rechecks -> SUBSET Workers]
    <3>1. CASE SweepWakes \/ RecheckWakes
      BY <1>0, <2>2, <3>1 DEF SweepWakes, RecheckWakes, TypeOK
    <3>2. CASE AdminRechecks
      BY <1>0, <2>2, <3>2 DEF AdminRechecks, TypeOK
    <3>3. CASE \E r \in Rechecks, w \in Workers : RecheckProbes(r, w)
      BY <1>0, <3>3 DEF RecheckProbes, TypeOK
    <3> QED BY <1>3, <3>1, <3>2, <3>3
  <2>5. TypeOK'
    BY <1>0, <2>1, <2>3, <2>4 DEF TypeOK, files
  <2> QED BY <2>1, <2>5 DEF IInv, OneEdit, files
<1>4. ASSUME NEW w \in Workers, SweepJudges(w) PROVE IInv' /\ UNCHANGED live
  <2>1. PICK v \in {"clean", "bad"} : Judges(w, v)
    BY <1>4 DEF SweepJudges
  <2> QED BY <1>0, <1>4, <2>1, StartsVerdict DEF SweepJudges, TypeOK, LoopsType, Store!Verdicts
<1>5. ASSUME NEW w \in Workers, AdminClears(w) PROVE IInv' /\ UNCHANGED live
    BY <1>0, <1>5, StartsVerdict DEF AdminClears, ServerFree, TypeOK, LoopsType, loops, Store!Verdicts
<1>6. ASSUME NEW b \in BOOLEAN, AdminSetsKill(b) PROVE IInv' /\ UNCHANGED live
  <2>1. PICK s \in States : s = [live EXCEPT !.kill = b]
    BY <1>0, EditTypes
  <2>2. /\ Saves("server", s) /\ UNCHANGED <<files, again, loops, judged, saver>>
        /\ pc["server"] = "idle" /\ judged = NoWorker
    BY <1>0, <1>6, <2>1 DEF AdminSetsKill, ServerFree, IInv, save
  <2>3. OneEdit(s)'
    BY <2>1, <2>2 DEF OneEdit, files
  <2>4. LoopsType' /\ judged' = NoWorker
    BY <1>0, <2>2 DEF loops, TypeOK, LoopsType
  <2> QED BY <1>0, <2>1, <2>2, <2>3, <2>4, StartsSave DEF TypeOK
<1>7. ASSUME NEW r \in Rechecks, NEW ok \in BOOLEAN, ProbeReturns(r, ok) PROVE IInv' /\ UNCHANGED live
  <2>1. /\ pc["server"] = "idle" /\ judged = NoWorker /\ judged' = judged
        /\ LoopsType' /\ UNCHANGED <<files, again, sweeping, due>>
    BY <1>0, <1>7 DEF ProbeReturns, ServerFree, IInv, TypeOK, LoopsType
  <2>2. CASE UNCHANGED <<pc, held>>
    <3>1. TypeOK'
        BY <1>0, <2>1, <2>2 DEF TypeOK, LoopsType, files
    <3> QED BY <2>1, <2>2, <3>1 DEF IInv, OneEdit, files
  <2>3. CASE Saves("server", live)
    <3>1. PICK s \in States : s = live
        BY <1>0
    <3>2. Saves("server", s) /\ OneEdit(s)'
        BY <2>1, <2>3, <3>1 DEF OneEdit, files
    <3> QED BY <1>0, <2>1, <3>2, StartsSave DEF TypeOK
  <2> QED BY <1>0, <1>7, <2>2, <2>3 DEF ProbeReturns
<1>8. ASSUME NEW r \in Rechecks, RecheckClears(r) PROVE IInv' /\ UNCHANGED live
  <2>1. clearing' \in [Rechecks -> Workers \cup {NoWorker}] /\ UNCHANGED <<sweeping, probe, due>>
    BY <1>0, <1>8 DEF RecheckClears, TypeOK
  <2>2. CASE clearing[r] \in Quarantined
    <3>1. /\ Judges(clearing[r], "clean") /\ clearing[r] \in Workers
          /\ saver' = r /\ pc["server"] = "idle"
      BY <1>8, <2>2 DEF RecheckClears, Quarantined
    <3>2. LoopsType'
      BY <1>0, <2>1, <3>1 DEF LoopsType, TypeOK
    <3> QED BY <3>1, <3>2, StartsVerdict DEF Store!Verdicts
  <2>3. CASE clearing[r] \notin Quarantined
    <3>1. UNCHANGED <<files, pc, held, again, judged, saver>>
        BY <1>8, <2>3 DEF RecheckClears, save
    <3>2. TypeOK'
        BY <1>0, <2>1, <3>1 DEF TypeOK, files
    <3> QED BY <3>1, <3>2 DEF IInv, OneEdit, files
  <2> QED BY <2>2, <2>3
<1>9. CASE ServerSaveFails
    BY <1>9, BreakerAssumption DEF ServerSaveFails, IInv, TypeOK, Processes
<1>10. CASE ServerDies
  <2>1. /\ pc'["server"] = "idle" /\ pc'["cron"] = "idle"
        /\ fd'["server"] = "none" /\ fd'["cron"] = "none"
        /\ pc' \in [Processes -> {"idle", "open", "write", "replace"}]
        /\ fd' \in [Processes -> {"none", "tmp", "live", "gone"}]
        /\ held' \in [Processes -> States]
        /\ judged' = NoWorker /\ UNCHANGED <<live, tmp, again>>
    BY <1>0, <1>10, DefaultState DEF ServerDies, Saved, Idles, IInv, TypeOK, Processes
  <2>2. TypeOK'
    BY <1>0, <1>10, <2>1 DEF ServerDies, Saved, TypeOK
  <2> QED BY <1>0, <2>1, <2>2 DEF IInv
<1>11. CASE CronDies \/ FindsLow \/ FindsHigh
    BY <1>11 DEF CronDies, FindsLow, FindsHigh, IInv
<1>12. CASE UNCHANGED vars
    BY <1>0, <1>12 DEF vars, files, loops, save, IInv, OneEdit, TypeOK
<1>13. \A b \in Switches : b \in BOOLEAN
    BY BreakerAssumption
<1> QED BY <1>2, <1>3, <1>4, <1>5, <1>6, <1>7, <1>8, <1>9, <1>10, <1>11, <1>12, <1>13
        DEF Next, ProbeAnswered, ProbeFailed

LEMMA Inductive ==
    ASSUME ~Cron
    PROVE  Spec => []IInv
<1>1. IInv /\ [Next]_vars => IInv'
    BY StepInv
<1> QED BY <1>1, InitInv, PTL DEF Spec

\* Type correctness of the file, its writer and the loops that judge.
THEOREM TypeCorrect ==
    ASSUME ~Cron
    PROVE  Spec => []TypeOK
<1>1. IInv => TypeOK
    BY DEF IInv
<1> QED BY <1>1, Inductive, PTL

\* No reader of the file ever finds it torn, although the server may die
\* between any two of its system calls (circuit_breaker.py:124).
THEOREM NoTornFile ==
    ASSUME ~Cron
    PROVE  Spec => []NeverTorn
<1>1. IInv => NeverTorn
    BY BreakerAssumption DEF IInv, NeverTorn
<1> QED BY <1>1, Inductive, PTL

\* A save changes no verdict but the one it is about.
THEOREM OnlyJudgedChange ==
    ASSUME ~Cron
    PROVE  Spec => VerdictsStand
<1>1. ASSUME IInv, [Next]_vars, NEW w \in Workers,
             {live, live'} \subseteq States, live'.verdict[w] # live.verdict[w]
      PROVE  judged = w
  <2>1. live' = held["server"] /\ OneEdit(held["server"])
    BY <1>1, StepInv
  <2> QED BY <1>1, <2>1 DEF OneEdit, States, Store!States
<1>2. IInv /\ [Next]_vars
        => [\A w \in Workers :
              /\ {live, live'} \subseteq States
              /\ live'.verdict[w] # live.verdict[w]
              => judged = w]_vars
    BY <1>1
<1> QED BY <1>2, Inductive, PTL DEF Spec, VerdictsStand

\* The file implements the register: every step of the server is one decision
\* or none.
THEOREM FileIsStore ==
    ASSUME ~Cron
    PROVE  Spec => ImplementsStore
<1>1. Init => Store!Init
    BY DEF Init, Store!Init, Default
<1>2. ASSUME IInv, [Next]_vars PROVE [Store!Next]_live
  <2>1. CASE UNCHANGED live
    BY <2>1
  <2>2. CASE live' = held["server"] /\ OneEdit(held["server"])
    BY <2>2 DEF OneEdit, Store!Next, Store!Decide, Store!SetKill
  <2> QED BY <1>2, <2>1, <2>2, StepInv
<1>3. IInv /\ [Next]_vars => [Store!Next]_live
    BY <1>2
<1> QED BY <1>1, <1>3, Inductive, PTL DEF Spec, ImplementsStore, Store!Spec

=============================================================================
