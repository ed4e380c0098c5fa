---------------------------- MODULE EventStream ----------------------------
(***************************************************************************)
(* What a client of a streamed reply may rely on: the stream is opened      *)
(* once; text and tool calls come inside an item, which is ended before the *)
(* reply is finished or fails; a finished reply is closed and a failed one  *)
(* is not; nothing follows.  A chat stream that fails says so in its last   *)
(* frame; a Responses stream says so and then that the response is over.    *)
(* Any stream may be cut off: its client hangs up, or its generator dies.   *)
(***************************************************************************)
VARIABLE phase

Phases == {"idle", "open", "item", "message", "finished", "closed", "broken", "failed", "cut"}

Init == phase = "idle"

\* A Responses stream is opened before its first item, and finished between
\* items; the frame that opens a chat stream, its role, begins its one message.
Opens == phase = "idle" /\ phase' \in {"open", "message"}
Begins == phase = "open" /\ phase' = "item"
Ends == phase = "item" /\ phase' = "open"
Finishes == phase \in {"open", "message"} /\ phase' = "finished"
Closes == phase = "finished" /\ phase' = "closed"
Breaks == phase = "open" /\ phase' = "broken"
Fails == phase \in {"message", "broken"} /\ phase' = "failed"
Cut == phase \notin {"closed", "failed", "cut"} /\ phase' = "cut"

Next == Opens \/ Begins \/ Ends \/ Finishes \/ Closes \/ Breaks \/ Fails \/ Cut

Spec == Init /\ [][Next]_phase
============================================================================
