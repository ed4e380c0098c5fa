---------------------------- MODULE MCRouteTier ----------------------------
(* Small instances of RouteTier.  Costs and quality are in the order that    *)
(* config.py and the calibration give them.                                  *)
EXTENDS RouteTier, TLC

CONSTANTS r1, r2, flash, m3, sol, fable, kilo

One == {r1}
Two == {r1, r2}
AllCosts == flash :> 0 @@ m3 :> 1 @@ sol :> 2 @@ fable :> 3 @@ kilo :> 0
VisionSet == {m3, fable}
SacredSet == {fable}

\* Two requests share a cheap worker, which stands for the free one and for
\* the image worker, a sacred one on BaosiAPI, and Kilo.
Few == {m3, fable, kilo}
FewInPool == <<m3, fable>>
FewInLadder == <<fable, m3>>
FewSuspects == {m3, fable}
Alike == Permutations(Two)
FewCosts == [w \in Few |-> AllCosts[w]]

\* One request has the whole ladder, and a rule that may force the sacred one.
All == {flash, m3, sol, fable, kilo}
AllInPool == <<flash, m3, sol, fable>>
AllInLadder == <<fable, sol, m3, flash>>
BaosiSet == {sol, fable}
AllSuspects == {flash, sol}

ASSUME PoolInOrder == BaosiLast
=============================================================================
