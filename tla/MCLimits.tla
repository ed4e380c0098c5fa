------------------------------ MODULE MCLimits ------------------------------
(* Small instances of the parts.  Durations keep the order of the code's in  *)
(* as few seconds as that allows: of the pool 30 < 60 and 90 < a vendor's    *)
(* hours; of the cooldowns 15..30 < 90 < 120..900, with the probe's limit    *)
(* of 30 seconds above the short ones only.                                  *)
EXTENDS Limits

CONSTANTS c1, c2, s1, s2, flash, sol, k1, k2

\* A vendor's Retry-After is clamped down to MaxRetryAfter.
OneChat == {c1}
OneStream == {s1}
OnlyLong == {9}

TwoWorkers == {flash, sol}
OneMultiKey == {flash}
TwoCalls == {k1, k2}
Windows == {0, 1, 5}

\* Somebody waits for a slot, and somebody waits behind him.
TwoChats == {c1, c2}
TwoStreams == {s1, s2}
=============================================================================
