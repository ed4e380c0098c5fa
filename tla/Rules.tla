-------------------------------- MODULE Rules --------------------------------
(***************************************************************************)
(* The parts of the gateway that compute: what the rules choose, what is    *)
(* chosen by price and quality, and how a conversation with tools is        *)
(* repaired.  One of them goes on while the others rest.                    *)
(***************************************************************************)
EXTENDS RuleLadder, ToolProtocol, Pareto

CONSTANT Parts      \* those that may go on

ASSUME PartsAssumption == Parts \subseteq {"rules", "tools", "pareto"}

VARIABLE part

vars == <<ruleVars, toolVars, paretoVars, part>>

NoLogs == [wc \in AllWorkers \X ParetoCells |-> <<>>]

\* A part that rests has little to compute.
Init ==
    /\ part \in Parts
    /\ RuleInit /\ ToolInit /\ ParetoInit
    /\ part # "rules" => rules = CHOOSE e \in Environments : "opus" \notin e.enabled
    /\ part # "tools" => api = "chat"
    /\ part # "pareto" => ~cpEnabled /\ sessions = NoLogs /\ shunned = Range(AutoPool)

Next ==
    \/ part = "rules" /\ RuleNext /\ UNCHANGED <<toolVars, paretoVars, part>>
    \/ part = "tools" /\ ToolNext /\ UNCHANGED <<ruleVars, paretoVars, part>>
    \/ part = "pareto" /\ ParetoNext /\ UNCHANGED <<ruleVars, toolVars, part>>

Spec == Init /\ [][Next]_vars

RulesTypeOK ==
    CASE part = "rules" -> RuleTypeOK
      [] part = "tools" -> ToolTypeOK
      [] part = "pareto" -> ParetoTypeOK
=============================================================================
