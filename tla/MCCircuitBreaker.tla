-------------------------- MODULE MCCircuitBreaker --------------------------
(* Two workers, with and without the second process.                        *)
EXTENDS CircuitBreaker
CONSTANTS w1, w2
OneWorker == {w1}
TwoWorkers == {w1, w2}
=============================================================================
