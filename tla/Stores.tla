------------------------------- MODULE Stores -------------------------------
(***************************************************************************)
(* The parts of the gateway that keep a state of their own and share none:  *)
(* one of them moves while the others rest, so that the states of a run     *)
(* add up and do not multiply.  What is proved of each holds of them all.   *)
(***************************************************************************)
EXTENDS CostLedger, SacredLedger, ResponseCache, ReadyProbe, HeadLearning, Judges, KeyQuota

CONSTANT Parts      \* those that may move

ASSUME PartsAssumption == Parts \subseteq {"cost", "sacred", "cache", "ready", "head", "judges", "quota"}

VARIABLE part

vars == <<costVars, sacredVars, cacheVars, readyVars, headVars, judgeVars, quotaVars, part>>

\* What a part that rests was configured as does not matter.
OneOf(set) == CHOOSE x \in set : TRUE
Init ==
    /\ part \in Parts
    /\ CostInit /\ SacredInit /\ CacheInit /\ ReadyInit /\ HeadInit /\ JudgeInit /\ QuotaInit
    /\ part # "cost" => cap = OneOf(Caps) /\ ~hasLegacy
    /\ part # "sacred" => kind = OneOf(SacredKinds) /\ absent = OneOf(SacredOutages)
    /\ part # "cache" => where = OneOf(AnswerKinds)
    /\ part # "ready" => mode = OneOf(ProbeModes) /\ ~soft /\ up = {}
    /\ part # "judges" => judgePool = OneOf(JudgePools)
    /\ part # "quota" => outage = OneOf(Outages)

Next ==
    \/ /\ part = "cost" /\ CostNext
       /\ UNCHANGED <<sacredVars, cacheVars, readyVars, headVars, judgeVars, quotaVars, part>>
    \/ /\ part = "sacred" /\ SacredNext
       /\ UNCHANGED <<costVars, cacheVars, readyVars, headVars, judgeVars, quotaVars, part>>
    \/ /\ part = "cache" /\ CacheNext
       /\ UNCHANGED <<costVars, sacredVars, readyVars, headVars, judgeVars, quotaVars, part>>
    \/ /\ part = "ready" /\ ReadyNext
       /\ UNCHANGED <<costVars, sacredVars, cacheVars, headVars, judgeVars, quotaVars, part>>
    \/ /\ part = "head" /\ HeadNext
       /\ UNCHANGED <<costVars, sacredVars, cacheVars, readyVars, judgeVars, quotaVars, part>>
    \/ /\ part = "judges" /\ JudgeNext
       /\ UNCHANGED <<costVars, sacredVars, cacheVars, readyVars, headVars, quotaVars, part>>
    \/ /\ part = "quota" /\ QuotaNext
       /\ UNCHANGED <<costVars, sacredVars, cacheVars, readyVars, headVars, judgeVars, part>>

Spec == Init /\ [][Next]_vars

StoresTypeOK ==
    CASE part = "cost" -> CostTypeOK
      [] part = "sacred" -> SacredTypeOK
      [] part = "cache" -> CacheTypeOK
      [] part = "ready" -> ReadyTypeOK
      [] part = "head" -> HeadTypeOK
      [] part = "judges" -> JudgeTypeOK
      [] part = "quota" -> QuotaTypeOK
=============================================================================
