----------------------------- MODULE BaosiSlots -----------------------------
(***************************************************************************)
(* The process-wide gate of BaosiAPI (baosi_concurrency.py) around the two   *)
(* kinds of call that pass it (clients/base.py): chat(), which holds its     *)
(* slot while the vendor answers, and stream(), an asynchronous generator    *)
(* that keeps its slot between two chunks, while its consumer has the        *)
(* control and may never come back for the next one.                         *)
(*                                                                         *)
(* A call suspends while it waits for the semaphore, while the vendor works  *)
(* and, a stream, at its yield; the counter's lock is never held over an     *)
(* await, so taking it does not suspend.  A cancellation is delivered where  *)
(* the call is suspended and runs to the end of slot() in the same step.     *)
(***************************************************************************)
EXTENDS Integers, Sequences, FiniteSets

CONSTANTS
    GateChats, GateStreams,  \* slots: each runs one call after the other
    Gate                     \* BAOSIAPI_MAX_CONCURRENCY

Users == GateChats \cup GateStreams

ASSUME BaosiSlotsAssumption ==
    /\ GateChats \cap GateStreams = {}
    /\ IsFiniteSet(Users)
    /\ Gate \in Nat \ {0}

VARIABLES
    value,      \* _gate._value
    waiters,    \* _gate._waiters, the call that came first in front
    woken,      \* waiters a slot has been handed to that have not run since
    inflight,   \* _inflight, what should_shunt() reads
    at          \* where each call is suspended

gateVars == <<value, waiters, woken, inflight, at>>

Places == {"idle", "waiting", "atVendor", "yielded", "abandoned"}

GateTypeOK ==
    /\ value \in 0..Gate
    /\ waiters \in Seq(Users)
    /\ woken \subseteq Users
    /\ inflight \in 0..Gate
    /\ at \in [Users -> Places]

GateInit ==
    /\ value = Gate
    /\ waiters = <<>>
    /\ woken = {}
    /\ inflight = 0
    /\ at = [c \in Users |-> "idle"]

Goes(c, place) == at' = [at EXCEPT ![c] = place]

-----------------------------------------------------------------------------
(* asyncio.Semaphore *)

Sleeping(queue, up) == SelectSeq(queue, LAMBDA c : c \notin up)

\* The first `most` waiters that sleep are handed a slot each, as long as there are
\* slots among the `free` ones; v, q and w are what the semaphore is left with.
Hands(free, queue, up, most) ==
    LET asleep == Sleeping(queue, up)
        n == CHOOSE k \in 0..most :
               /\ k <= free /\ k <= Len(asleep)
               /\ k = most \/ k = free \/ k = Len(asleep)
    IN  /\ value' = free - n
        /\ waiters' = queue
        /\ woken' = up \cup {asleep[i] : i \in 1..n}

\* release(): one slot more, for one waiter.
Released == Hands(value + 1, waiters, woken, 1)

Without(c) == SelectSeq(waiters, LAMBDA d : d # c)

\* The end of acquire(), on whatever path: as many waiters are woken as there are slots.
LeavesQueue(c, free) == Hands(free, Without(c), woken \ {c}, Gate)

-----------------------------------------------------------------------------
(* slot() *)

\* A call passes only when nobody waits in front of it.
Passes(c) ==
    /\ at[c] = "idle"
    /\ value > 0 /\ waiters = <<>>
    /\ value' = value - 1
    /\ inflight' = inflight + 1
    /\ Goes(c, "atVendor")
    /\ UNCHANGED <<waiters, woken>>

Queues(c) ==
    /\ at[c] = "idle"
    /\ value = 0 \/ waiters # <<>>
    /\ waiters' = Append(waiters, c)
    /\ Goes(c, "waiting")
    /\ UNCHANGED <<value, woken, inflight>>

\* A waiter that was handed a slot runs.
GetsIn(c) ==
    /\ c \in woken
    /\ LeavesQueue(c, value)
    /\ inflight' = inflight + 1
    /\ Goes(c, "atVendor")

\* wait_for() gives up on a call that still waits.  One that has been handed a slot
\* and has not run returns it.
GivesUp(c) ==
    /\ at[c] = "waiting"
    /\ LeavesQueue(c, IF c \in woken THEN value + 1 ELSE value)
    /\ Goes(c, "idle")
    /\ UNCHANGED inflight

\* Fault: without the `finally`, a generator that is closed keeps its slot.
LeavesSilently(c) ==
    /\ inflight' = inflight - 1
    /\ Goes(c, "idle")
    /\ UNCHANGED <<value, waiters, woken>>

\* The `finally` of slot().
Leaves(c) ==
    /\ inflight' = inflight - 1
    /\ Released
    /\ Goes(c, "idle")

\* The vendor has answered, failed or been timed out; a stream is exhausted.
Finishes(c) == at[c] = "atVendor" /\ Leaves(c)

-----------------------------------------------------------------------------
(* stream() *)

Yields(c) ==
    /\ c \in GateStreams /\ at[c] = "atVendor"
    /\ Goes(c, "yielded")
    /\ UNCHANGED <<value, waiters, woken, inflight>>

Resumes(c) ==
    /\ at[c] = "yielded"
    /\ Goes(c, "atVendor")
    /\ UNCHANGED <<value, waiters, woken, inflight>>

\* The consumer is cancelled, or saw its client gone and broke out of its loop.
\* Nobody calls aclose().
Abandons(c) ==
    /\ at[c] = "yielded"
    /\ Goes(c, "abandoned")
    /\ UNCHANGED <<value, waiters, woken, inflight>>

\* Fault: the generator stays referenced.
IsFinalizedNever(c) == FALSE

\* The interpreter drops the generator, and the event loop closes it.
IsFinalized(c) == at[c] = "abandoned" /\ Leaves(c)

GateNext ==
    \E c \in Users :
        \/ Passes(c) \/ Queues(c) \/ GetsIn(c) \/ GivesUp(c) \/ Finishes(c)
        \/ Yields(c) \/ Resumes(c) \/ Abandons(c) \/ IsFinalized(c)

\* A woken task runs; a vendor answers or is timed out, and a stream has finitely many
\* chunks; a client reads its frames or leaves; a generator nobody holds is closed.
GateFairness ==
    \A c \in Users :
        /\ WF_gateVars(GetsIn(c))
        /\ SF_gateVars(Finishes(c))
        /\ WF_gateVars(Resumes(c) \/ Abandons(c))
        /\ WF_gateVars(IsFinalized(c))

-----------------------------------------------------------------------------
(* Properties *)

Holders == {c \in Users : at[c] \in {"atVendor", "yielded", "abandoned"}}

\* However calls are timed out, cancelled and abandoned (a waiter at the very moment it
\* is handed a slot, a stream between two chunks), no slot is lost or made up, the count
\* that should_shunt() reads is that of the slots in use, and a call is never left asleep
\* beside a free slot with nobody on the way to wake it.
SlotsConserved ==
    /\ value + Cardinality(woken) + Cardinality(Holders) = Gate
    /\ inflight = Cardinality(Holders)
    /\ value > 0 /\ Sleeping(waiters, woken) # <<>> => woken # {}

\* A call that waits for its slot gets in, or is timed out, although streams keep theirs
\* between chunks and some consumers never come back.
WaitersGetIn == \A c \in Users : at[c] = "waiting" ~> at[c] # "waiting"
=============================================================================
