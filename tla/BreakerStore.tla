---------------------------- MODULE BreakerStore ----------------------------
(***************************************************************************)
(* What release/circuit_breaker.py promises its callers: one register that  *)
(* every process reads and changes atomically, where a decision about a     *)
(* worker changes nothing else and stands until the next decision about it. *)
(***************************************************************************)
CONSTANT Workers

VARIABLE state   \* [verdict, open, kill]

Verdicts == {"none", "clean", "bad"}
States == [verdict : [Workers -> Verdicts], open : BOOLEAN, kill : BOOLEAN]

Default == [verdict |-> [w \in Workers |-> "none"], open |-> FALSE, kill |-> FALSE]

Init == state = Default

Decide(w, v) == state' = [state EXCEPT !.verdict[w] = v]
SetOpen(b) == state' = [state EXCEPT !.open = b]
SetKill(b) == state' = [state EXCEPT !.kill = b]

Next ==
    \/ \E w \in Workers, v \in Verdicts : Decide(w, v)
    \/ \E b \in BOOLEAN : SetOpen(b) \/ SetKill(b)

Spec == Init /\ [][Next]_state
=============================================================================
