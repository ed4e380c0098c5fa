----------------------------- MODULE ChatReply -----------------------------
(***************************************************************************)
(* One HTTP request through server.py: the body's limit, the response       *)
(* cache, the cost guard, decomposition, routing, and the reply: a JSON     *)
(* body, or a stream of server-sent events that falls back on other workers *)
(* when its worker fails.  /v1/responses wraps the same handler and says    *)
(* the reply again in events of its own; /v1/images/generations is the      *)
(* third entry.  What _route_tier() does is the business of RouteTier, and  *)
(* of Decompose how a query is split: here they give an answer.             *)
(*                                                                         *)
(* A reply is told as frames, `wire'.  A token of text is the worker that   *)
(* said it.  `pc' is the await, or the yield, the handler is suspended at;  *)
(* a generator can be cancelled at each of these once its client is gone.   *)
(***************************************************************************)
EXTENDS Decompose, SequencesExt

CONSTANTS
    Workers, NoWorker,
    Cheap,          \* minimax-m3: the worker of _cheap_try()
    Chains,         \* fallback chains _route_tier(select_only=True) may hand back
    Requests,       \* the requests to enumerate, see Request
    MaxBody,        \* ANCHOR_MAX_REQUEST_BYTES
    MaxDeltas       \* bound: deltas of one attempt at a stream, and of one item

Apis == {"chat", "responses", "image"}
Request == [api : Apis, stream : BOOLEAN, tools : BOOLEAN, usage : BOOLEAN,
            mode : Modes, gate : Gates, image : BOOLEAN]

ASSUME ChatReplyAssumption ==
    /\ Cheap \in Workers /\ NoWorker \notin Workers
    /\ Chains \subseteq Seq(Workers) \ {<<>>}
    /\ Requests \subseteq Request
    /\ {MaxBody, MaxDeltas, MaxParts} \subseteq Nat

VARIABLES
    req,            \* the request
    got,            \* bytes of the body read so far
    pc,             \* where the handler is suspended
    status,         \* the HTTP status sent; 0 before
    resp,           \* who answered, and how; "routed" if through _route_tier()
    chain, nth,     \* _stream_chain, and the position in it
    heard, emitted, \* full_text, and how much of what it shows has been sent
    fheard, femitted, \* the same for the fallbacks: _fb_text, _fb_emitted
    script,         \* frames still to be sent as they stand
    wire,           \* frames sent
    gone,           \* the client has hung up
    billed,         \* workers charged through append_log()
    stored          \* the answer went into the response cache

rvars == <<req, got, pc, status, resp, chain, nth, heard, emitted, fheard,
           femitted, script, wire, gone, billed, stored>>
vars == <<rvars, dvars>>

Kinds == {"text", "open", "close", "less"}    \* a delta: text, <think>, </think>, a bare <
\* "badtools": tool calls, one of them of a function that is no object.
AnswerKinds == {"text", "empty", "error", "limited", "tools", "badtools", "deferred", "cached"}
Token == [by : Workers, kind : Kinds]
Frame(ev) == [ev |-> ev, said |-> <<>>]
TextFrame(said) == [ev |-> "text", said |-> said]
Sse == {"say", "stream", "cascade", "closing"}      \* inside a generator
Ended == {"sent", "cut"}

TypeOK ==
    /\ DTypeOK
    /\ req \in Requests /\ got \in 0..MaxBody + 1
    /\ pc \in {"body", "new", "decompose", "route", "reply", "image"} \cup Sse \cup Ended
    /\ status \in {0, 200, 400, 413, 429, 499, 500, 502, 503}
    /\ resp \in [worker : Workers \cup {NoWorker}, kind : AnswerKinds, routed : BOOLEAN]
    /\ chain \in Seq(Workers) /\ nth \in 0..Len(chain)
    /\ heard \in Seq(Token) /\ fheard \in Seq(Token)
    /\ emitted \in 0..Len(heard) /\ femitted \in 0..Len(fheard)
    /\ gone \in BOOLEAN /\ stored \in BOOLEAN
    /\ billed \in Seq(Workers)

Init ==
    /\ DInit
    /\ req \in Requests
    /\ got = 0 /\ pc = "body" /\ status = 0
    /\ resp = [worker |-> NoWorker, kind |-> "empty", routed |-> FALSE]
    /\ chain = <<>> /\ nth = 0
    /\ heard = <<>> /\ emitted = 0 /\ fheard = <<>> /\ femitted = 0
    /\ script = <<>> /\ wire = <<>>
    /\ gone = FALSE /\ billed = <<>> /\ stored = FALSE

----------------------------------------------------------------------------
\* The JSON reply ends the request.
Sends(code) == status' = code /\ pc' = "sent"

KeepsBody == UNCHANGED <<req, resp, chain, nth, heard, emitted, fheard, femitted,
                         script, wire, gone, billed, stored, dvars>>

\* _enforce_max_body(): chunked transfers and a declared length over the limit
\* are refused unread.
RefusesBody == pc = "body" /\ got = 0 /\ Sends(413) /\ UNCHANGED got /\ KeepsBody

\* A chunk arrives; the first byte over the limit ends it.
ReadsChunk ==
    /\ pc = "body" /\ got <= MaxBody
    /\ got' = got + 1
    /\ IF got' > MaxBody THEN Sends(413) ELSE UNCHANGED <<pc, status>>
    /\ KeepsBody

BodyEnds ==
    /\ pc = "body" /\ got <= MaxBody
    /\ pc' = "new" /\ got' = 0
    /\ UNCHANGED status /\ KeepsBody

\* The client hangs up while it sends.
BodyCut == pc = "body" /\ Sends(499) /\ UNCHANGED got /\ KeepsBody

----------------------------------------------------------------------------
\* v1_responses() asks the chat handler for a whole answer, and lets it
\* decompose only when it neither streams nor has tools.
InnerStream == req.api = "chat" /\ req.stream
InnerMode ==
    IF req.image THEN "off"
    ELSE IF req.api = "chat" THEN req.mode
    ELSE IF req.stream \/ req.tools THEN "off" ELSE "auto"
SelectOnly == InnerStream /\ ~req.tools

KeepsReply == UNCHANGED <<req, got, chain, nth, heard, emitted, fheard, femitted,
                          wire, gone>>

\* A hit of the response cache, which only whole answers are looked up in.
CacheHits ==
    /\ pc = "new" /\ req.api # "image" /\ ~InnerStream
    /\ resp' = [worker |-> NoWorker, kind |-> "cached", routed |-> FALSE]
    /\ pc' = "reply"
    /\ UNCHANGED <<status, script, billed, stored, dvars>> /\ KeepsReply

\* guard(): the month's cap is reached.
CapHit ==
    /\ pc = "new" /\ req.api # "image"
    /\ Sends(503)
    /\ UNCHANGED <<resp, script, billed, stored, dvars>> /\ KeepsReply

\* No await separates the cache's miss from the first call: of the cheap
\* worker, of the planner or of the router.
Admits ==
    /\ pc = "new" /\ req.api # "image"
    /\ BeginsDecompose(InnerMode, req.gate)
    /\ pc' = IF stage' = "over" THEN "route" ELSE "decompose"
    /\ UNCHANGED <<status, resp, script, billed, stored>> /\ KeepsReply

\* What _maybe_decompose() hands back.  None and the hard design go on to the
\* router; an exception is the server's; the rest is the reply, of a stand-in
\* object that has no primary_worker and no fallback_chain.
AfterDecompose(p) == IF p \in {"none", "hard"} THEN "route" ELSE "reply"

DecomposeStep ==
    /\ pc = "decompose"
    /\ DNext(InnerMode)
    /\ IF path' = "raised" THEN Sends(500)
       ELSE /\ pc' = IF stage' = "over" THEN AfterDecompose(path') ELSE pc
            /\ UNCHANGED status
    /\ resp' = [worker |-> IF path' \in {"cheap_kept", "fallback", "triggered"}
                           THEN Cheap ELSE NoWorker,
                kind |-> IF Answered' THEN "text" ELSE "empty", routed |-> FALSE]
    /\ UNCHANGED <<script, billed, stored>> /\ KeepsReply

\* The workers of a chain that are not cooling.
Warm(c, cooling) ==
    LET warm[i \in 0..Len(c)] ==
            IF i = 0 THEN <<>>
            ELSE IF c[i] \in cooling THEN warm[i - 1] ELSE Append(warm[i - 1], c[i])
    IN  warm[Len(c)]

\* _route_tier() only selects for a stream; otherwise it answers, and has
\* charged what the answer cost.
Selects ==
    /\ pc = "route" /\ SelectOnly
    /\ \E c \in Chains, cooling \in SUBSET Workers :
          /\ chain' = IF Warm(c, cooling) = <<>> THEN <<c[1]>> ELSE Warm(c, cooling)
          /\ resp' = [worker |-> c[1], kind |-> "deferred", routed |-> TRUE]
    /\ nth' = 1
    /\ pc' = "say" /\ status' = 200 /\ script' = <<Frame("role")>>
    /\ UNCHANGED <<req, got, heard, emitted, fheard, femitted, wire, gone,
                   billed, stored, dvars>>

Routed ==
    /\ pc = "route" /\ ~SelectOnly
    /\ \E w \in Workers, k \in {"text", "empty", "error", "limited"}
                               \cup (IF req.tools THEN {"tools", "badtools"} ELSE {}) :
          /\ resp' = [worker |-> w, kind |-> k, routed |-> TRUE]
          /\ billed' = IF k \in {"error", "limited"} THEN billed ELSE Append(billed, w)
    /\ pc' = "reply"
    /\ UNCHANGED <<status, script, stored, dvars>> /\ KeepsReply

----------------------------------------------------------------------------
\* Does the answer begin with "[error:"?
IsErrorPayload ==
    IF resp.routed THEN resp.kind \in {"error", "limited"}
    ELSE resp.kind # "cached" /\ ContentIsError

\* The error reply and the stream read attributes that only _route_tier()'s
\* answers have, and v1_responses() looks into each tool call; without what they
\* look for the handler raises, and the client gets a 500.
Raises ==
    \/ /\ ~resp.routed /\ resp.kind # "cached"
       /\ \/ IsErrorPayload
          \/ SelectOnly /\ resp.worker # NoWorker
    \/ req.api = "responses" /\ ~req.stream /\ resp.kind = "badtools"

UsageFrame == IF req.usage THEN <<Frame("usage")>> ELSE <<>>
Text == IF resp.kind = "empty" THEN <<>> ELSE <<TextFrame(<<resp.worker>>)>>

\* _gen_tools_sse(): the whole answer, told as a stream.  It looks into the tool
\* calls after its first frame, and nothing catches what that raises.
Torn == InnerStream /\ resp.kind = "badtools"
ToolsScript ==
    IF Torn THEN <<Frame("role")>>
    ELSE <<Frame("role")>>
         \o (IF resp.kind = "tools" THEN <<Frame("tools")>> ELSE Text)
         \o <<Frame("stop")>> \o UsageFrame \o <<Frame("done")>>

\* _gen_fb(): the merged answer of a decomposition, whose worker is no worker.
MergedScript == <<Frame("role"), Frame("stop"), Frame("done")>>

Chunks(ev) == UNION {[1..n -> {Frame(ev)}] : n \in 0..MaxDeltas}

\* Fault: an item without text is not ended.
ItemScriptOpen(chunks) ==
    <<Frame("item.added")>> \o chunks
    \o (IF chunks = <<>> THEN <<>> ELSE <<Frame("item.done")>>)

\* An item of a Responses stream: a message or a function call, its deltas
\* between the frames that add it and end it.
ItemScript(chunks) == <<Frame("item.added")>> \o chunks \o <<Frame("item.done")>>

\* _v1_responses_stream_gen(): one item per tool call, or one message.  A call
\* that cannot be looked into is told as an error, after the items before it,
\* and then as response.completed, of the status failed.
ResponsesItems ==
    IF resp.kind = "tools"
    THEN {ItemScript(a) : a \in Chunks("args.delta")}
         \cup {ItemScript(a) \o ItemScript(b) : a, b \in Chunks("args.delta")}
    ELSE IF resp.kind = "badtools"
    THEN {<<>>} \cup {ItemScript(a) : a \in Chunks("args.delta")}
    ELSE {ItemScript(c) : c \in IF resp.kind = "empty" THEN {<<>>} ELSE Chunks("text.delta")}
ResponsesEnd ==
    IF resp.kind = "badtools" THEN <<Frame("response.error"), Frame("response.failed")>>
    ELSE <<Frame("completed"), Frame("response.done")>>
ResponsesScripts ==
    {<<Frame("created"), Frame("in_progress")>> \o items \o ResponsesEnd : items \in ResponsesItems}

\* The reply of v1_chat_completions(), and of v1_responses() around it.
Stores == ~InnerStream /\ resp.kind = "text"

Replies ==
    /\ pc = "reply"
    /\ IF Raises THEN Sends(500) /\ UNCHANGED <<script, stored>>
       ELSE IF IsErrorPayload THEN Sends(503) /\ UNCHANGED <<script, stored>>
       ELSE /\ status' = 200
            /\ stored' = Stores
            /\ IF InnerStream
               THEN /\ script' = IF req.tools THEN ToolsScript ELSE MergedScript
                    /\ pc' = "say"
               ELSE IF req.api = "responses" /\ req.stream
               THEN script' \in ResponsesScripts /\ pc' = "say"
               ELSE pc' = "sent" /\ UNCHANGED script
    /\ UNCHANGED <<resp, billed, dvars>> /\ KeepsReply

----------------------------------------------------------------------------
\* The part of a text that is shown: <think> blocks are cut out, and from the
\* first < that is left on nothing is shown.
Shows(acc, d) ==
    CASE acc.mode = "show" /\ d.kind = "text" -> [acc EXCEPT !.out = Append(@, d.by)]
      [] acc.mode = "show" /\ d.kind = "open" -> [acc EXCEPT !.mode = "think"]
      [] acc.mode = "show" /\ d.kind \in {"close", "less"} -> [acc EXCEPT !.mode = "cut"]
      [] acc.mode = "think" /\ d.kind = "close" -> [acc EXCEPT !.mode = "show"]
      [] OTHER -> acc

View(s) ==
    LET acc[i \in 0..Len(s)] ==
            IF i = 0 THEN [out |-> <<>>, mode |-> "show"] ELSE Shows(acc[i - 1], s[i])
    IN  acc[Len(s)]
Visible(s) == View(s).out

\* What is shown now and was not sent yet.
Pending(text, sent) == SubSeq(Visible(text), sent + 1, Len(Visible(text)))
Says(said) == IF said = <<>> THEN wire ELSE Append(wire, TextFrame(said))

KeepsStream == UNCHANGED <<req, got, status, resp, chain, gone, stored, dvars>>

\* Frames that are sent as they stand.
Says1 ==
    /\ pc \in {"say", "closing"} /\ script # <<>>
    /\ wire' = Append(wire, Head(script))
    /\ script' = Tail(script)
    /\ pc' = IF script' # <<>> \/ pc = "closing" THEN pc
             ELSE IF SelectOnly /\ chain # <<>> THEN "stream"
             ELSE IF Torn THEN "cut" ELSE "sent"
    /\ UNCHANGED <<nth, heard, emitted, fheard, femitted, billed>> /\ KeepsStream

\* A delta of the first worker.  A client found gone ends the stream in order.
Delta(k) ==
    /\ pc = "stream" /\ Len(heard) < MaxDeltas
    /\ heard' = Append(heard, [by |-> chain[1], kind |-> k])
    /\ wire' = Says(Pending(heard', emitted))
    /\ emitted' = Len(Visible(heard'))
    /\ UNCHANGED <<pc, nth, fheard, femitted, script, billed>> /\ KeepsStream

\* The frames after the text: why it stopped, the usage asked for, [DONE].
ClosingScript == <<Frame("stop")>> \o UsageFrame \o <<Frame("done")>>

\* The stream is over, or its client is found gone at a delta, which is dropped.
\* What is shown and unsent is flushed.
StreamEnds ==
    /\ pc = "stream"
    /\ wire' = Says(Pending(heard, emitted))
    /\ emitted' = Len(Visible(heard))
    /\ pc' = "closing" /\ script' = ClosingScript
    /\ UNCHANGED <<nth, heard, fheard, femitted, billed>> /\ KeepsStream

\* Fault: an off-by-one at the end of the chain.
FallsBackPast ==
    IF nth <= Len(chain) THEN nth' = nth + 1 /\ pc' = "cascade" /\ UNCHANGED <<wire, script>>
    ELSE /\ wire' = Append(wire, Frame("error")) /\ UNCHANGED <<nth, script>>
         /\ pc' = "sent"

\* Fault: the chain is walked round and round.
FallsBackRound ==
    /\ nth' = (nth % Len(chain)) + 1
    /\ pc' = "cascade" /\ UNCHANGED <<wire, script>>

\* The next worker of the chain, or the error event that ends the stream.
FallsBack ==
    IF nth < Len(chain) THEN nth' = nth + 1 /\ pc' = "cascade" /\ UNCHANGED <<wire, script>>
    ELSE /\ wire' = Append(wire, Frame("error")) /\ UNCHANGED <<nth, script>>
         /\ pc' = "sent"

\* Fault: a stream that breaks is charged for what it said.
StreamFailsCharged ==
    /\ pc = "stream"
    /\ FallsBack
    /\ billed' = IF heard # <<>> THEN Append(billed, resp.worker) ELSE billed
    /\ UNCHANGED <<heard, emitted, fheard, femitted>> /\ KeepsStream

\* An error of the vendor, or no delta for ANCHOR_STREAM_CHUNK_TIMEOUT_S.
StreamFails ==
    /\ pc = "stream"
    /\ FallsBack
    /\ UNCHANGED <<heard, emitted, fheard, femitted, billed>> /\ KeepsStream

\* Fault: what the fallbacks have sent is counted from what the first sent.
FallbackDeltaMiscounted(k) ==
    /\ pc = "cascade" /\ Len(fheard) < MaxDeltas
    /\ fheard' = Append(fheard, [by |-> chain[nth], kind |-> k])
    /\ wire' = Says(Pending(fheard', emitted + femitted))
    /\ femitted' = Len(Visible(fheard'))
    /\ UNCHANGED <<pc, nth, heard, emitted, script, billed>> /\ KeepsStream

\* A delta of a fallback.  _fb_text is one text for all of them.
FallbackDelta(k) ==
    /\ pc = "cascade" /\ Len(fheard) < MaxDeltas
    /\ fheard' = Append(fheard, [by |-> chain[nth], kind |-> k])
    /\ wire' = Says(Pending(fheard', femitted))
    /\ femitted' = Len(Visible(fheard'))
    /\ UNCHANGED <<pc, nth, heard, emitted, script, billed>> /\ KeepsStream

FallbackEnds ==
    /\ pc = "cascade"
    /\ pc' = "closing" /\ script' = ClosingScript
    /\ UNCHANGED <<nth, heard, emitted, fheard, femitted, wire, billed>> /\ KeepsStream

FallbackFails ==
    /\ pc = "cascade"
    /\ FallsBack
    /\ UNCHANGED <<heard, emitted, fheard, femitted, billed>> /\ KeepsStream

\* full_text, after the fallback's output was promoted into it.
Full == IF nth = 1 THEN heard ELSE fheard

\* After [DONE] the stream is charged, to the worker first chosen, if anything
\* was heard at all.
Bills ==
    /\ pc = "closing" /\ script = <<>>
    /\ pc' = "sent"
    /\ billed' = IF Full # <<>> THEN Append(billed, resp.worker) ELSE billed
    /\ UNCHANGED <<nth, heard, emitted, fheard, femitted, script, wire>> /\ KeepsStream

\* The client hangs up; the server may find out, and cancels the generator.
HangsUp ==
    /\ pc \in Sse /\ ~gone
    /\ gone' = TRUE
    /\ UNCHANGED <<req, got, pc, status, resp, chain, nth, heard, emitted, fheard,
                   femitted, script, wire, billed, stored, dvars>>

Cancelled ==
    /\ pc \in Sse /\ gone
    /\ pc' = "cut"
    /\ UNCHANGED <<nth, heard, emitted, fheard, femitted, script, wire, billed>> /\ KeepsStream

----------------------------------------------------------------------------
\* v1_image_generations(): the quota, the prompt and the key are checked before
\* the one call.
ImageChecked ==
    /\ pc = "new" /\ req.api = "image"
    /\ \/ \E code \in {429, 400, 500} : Sends(code)
       \/ pc' = "image" /\ UNCHANGED status
    /\ UNCHANGED <<resp, script, billed, stored, dvars>> /\ KeepsReply

ImageAnswers ==
    /\ pc = "image"
    /\ \E code \in {200, 502} : Sends(code)
    /\ UNCHANGED <<resp, script, billed, stored, dvars>> /\ KeepsReply

Next ==
    \/ RefusesBody \/ ReadsChunk \/ BodyEnds \/ BodyCut
    \/ CacheHits \/ CapHit \/ Admits \/ DecomposeStep
    \/ Selects \/ Routed \/ Replies
    \/ Says1
    \/ \E k \in Kinds : Delta(k) \/ FallbackDelta(k)
    \/ StreamEnds \/ StreamFails \/ FallbackEnds \/ FallbackFails
    \/ Bills \/ HangsUp \/ Cancelled
    \/ ImageChecked \/ ImageAnswers
    \/ pc \in Ended /\ UNCHANGED vars

\* Every step but a hang-up, which nobody owes: the vendors' calls are bounded by
\* time-outs, and a client that still reads is sent what there is to send.
Progress ==
    \/ CacheHits \/ CapHit \/ Admits \/ DecomposeStep
    \/ Selects \/ Routed \/ Replies
    \/ Says1 \/ \E k \in Kinds : Delta(k) \/ FallbackDelta(k)
    \/ StreamEnds \/ StreamFails \/ FallbackEnds \/ FallbackFails
    \/ Bills \/ ImageChecked \/ ImageAnswers

Spec == Init /\ [][Next]_vars /\ WF_vars(Progress)

----------------------------------------------------------------------------
Frames == {wire[i].ev : i \in DOMAIN wire}
Shown == FlattenSeq([i \in DOMAIN wire |-> wire[i].said])

\* A streamed reply shows all that may be shown of what the workers said, once
\* and in order, across the fallback and whichever tags come between
\* (server.py, _emitted_len and _fb_emitted).
TextIsWhole == SelectOnly /\ resp.routed => Shown = Visible(heard) \o Visible(fheard)

\* A reply through the router is charged once if a worker answered, be it by
\* _route_tier() or after the stream; one that no worker answered is not charged,
\* nor is a stream that breaks.  The worker's answer is charged also when it holds
\* a tool call that the gateway cannot tell its client.
ChargedOnce ==
    /\ Len(billed) <= 1
    /\ pc = "sent" /\ (status # 200 \/ "error" \in Frames) =>
           (billed = <<>> <=> resp.kind # "badtools")
    /\ pc = "sent" /\ status = 200 /\ resp.routed /\ "error" \notin Frames =>
           (billed = <<>> <=> SelectOnly /\ Full = <<>>)

\* The client's view of the last frame.
PhaseOf(ev) ==
    CASE ev \in {"created", "in_progress", "item.done"} -> "open"
      [] ev \in {"stop", "usage", "completed"} -> "finished"
      [] ev \in {"done", "response.done"} -> "closed"
      [] ev = "response.error" -> "broken"
      [] ev \in {"error", "response.failed"} -> "failed"
      [] ev \in {"role", "text", "tools"} -> "message"
      [] OTHER -> "item"

Phase ==
    LET last == IF wire = <<>> THEN "idle" ELSE PhaseOf(Last(wire).ev)
    IN  IF pc = "cut" /\ last \notin {"closed", "failed"} THEN "cut" ELSE last

Stream == INSTANCE EventStream WITH phase <- Phase

\* Whatever path a reply takes, its frames keep to the protocol of EventStream:
\* one opening, items ended before the finish and before a failure, no [DONE]
\* after an error event, and a failed Responses stream told to be over.
ImplementsEventStream == Stream!Spec

\* A request whose body has arrived gets its reply, whatever vendors do.
RepliesEnd == pc = "new" ~> pc \in Ended
=============================================================================
