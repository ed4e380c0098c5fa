-------------------------- MODULE ChatReplyProofs --------------------------
(***************************************************************************)
(* A reply keeps to the protocol of EventStream, is charged once, shows all *)
(* that its workers said, and has the answer to each part of a split query, *)
(* for any workers, chains, requests, plans and lengths.                   *)
(***************************************************************************)
EXTENDS ChatReply, SequenceTheorems, FiniteSetTheorems, WellFoundedInduction, TLAPS

Events == {"role", "text", "tools", "stop", "usage", "done", "error", "created",
           "in_progress", "item.added", "item.done", "text.delta", "args.delta",
           "completed", "response.done", "response.error", "response.failed"}
Named == Workers \cup {NoWorker}
FrameType == [ev : Events, said : Seq(Named)]

\* From one phase to the next, or not.
Follows(p, q) ==
    \/ p = q
    \/ p = "idle" /\ q \in {"open", "message"}
    \/ p = "open" /\ q \in {"item", "finished", "broken"}
    \/ p = "item" /\ q = "open"
    \/ p = "message" /\ q \in {"finished", "failed"}
    \/ p = "finished" /\ q = "closed"
    \/ p = "broken" /\ q = "failed"

\* The phase that frames leave a client in that was in phase p.
After(p, frames) == IF frames = <<>> THEN p ELSE PhaseOf(Last(frames).ev)

\* These frames may be sent to a client in phase p, and leave it in q.
Leads(p, frames, q) ==
    /\ frames \in Seq(FrameType)
    /\ \A i \in 1..Len(frames) :
         /\ frames[i].ev # "error"
         /\ Follows(IF i = 1 THEN p ELSE PhaseOf(frames[i - 1].ev), PhaseOf(frames[i].ev))
    /\ After(p, frames) = q

Sendable(p, frames) == \E q : Leads(p, frames, q)

-----------------------------------------------------------------------------
(* Frames *)

\* Nothing sent leaves the phase as it is.
LEMMA NoFrames == ASSUME NEW p PROVE Leads(p, <<>>, p)
    BY DEF Leads, After

\* One frame that may follow.
LEMMA OneFrame ==
    ASSUME NEW p, NEW f \in FrameType, f.ev # "error", Follows(p, PhaseOf(f.ev))
    PROVE  Leads(p, <<f>>, PhaseOf(f.ev))
<1>1. <<f>> \in Seq(FrameType) /\ Len(<<f>>) = 1 /\ <<f>>[1] = f /\ <<f>> # <<>>
    OBVIOUS
<1> QED BY <1>1 DEF Leads, After, Last

\* Frames after frames, where the second begin in the phase the first end in.
LEMMA MoreFrames ==
    ASSUME NEW p, NEW q, NEW r, NEW a, NEW b, Leads(p, a, q), Leads(q, b, r)
    PROVE  Leads(p, a \o b, r)
<1>1. a \in Seq(FrameType) /\ b \in Seq(FrameType)
    BY DEF Leads
<1>2. CASE b = <<>>
    BY <1>1, <1>2 DEF Leads, After
<1>3. CASE a = <<>>
    BY <1>1, <1>3 DEF Leads, After
<1>4. CASE a # <<>> /\ b # <<>>
  <2> DEFINE c == a \o b
  <2>1. /\ c \in Seq(FrameType) /\ Len(c) = Len(a) + Len(b)
        /\ Len(a) \in Nat \ {0} /\ Len(b) \in Nat \ {0}
        /\ \A i \in 1..Len(a) : c[i] = a[i]
        /\ \A i \in 1..Len(b) : c[Len(a) + i] = b[i]
    BY <1>1, <1>4
  <2>2. c # <<>> /\ Last(c) = Last(b)
    BY <2>1 DEF Last
  <2>3. q = PhaseOf(a[Len(a)].ev)
    BY <1>4 DEF Leads, After, Last
  <2>4. ASSUME NEW i \in 1..Len(c)
        PROVE  /\ c[i].ev # "error"
               /\ Follows(IF i = 1 THEN p ELSE PhaseOf(c[i - 1].ev), PhaseOf(c[i].ev))
    <3>1. CASE i <= Len(a)
      <4>1. i \in 1..Len(a) /\ c[i] = a[i] /\ (i # 1 => c[i - 1] = a[i - 1])
        BY <2>1, <3>1
      <4> QED BY <4>1 DEF Leads
    <3>2. CASE i = Len(a) + 1
      <4>1. c[i] = b[1] /\ c[i - 1] = a[Len(a)] /\ 1 \in 1..Len(b) /\ i # 1
        BY <2>1, <3>2
      <4> QED BY <2>3, <4>1 DEF Leads
    <3>3. CASE i > Len(a) + 1
      <4>1. PICK j \in 2..Len(b) : i = Len(a) + j
        <5>1. i - Len(a) \in 2..Len(b) /\ i = Len(a) + (i - Len(a))
            BY <2>1, <3>3
        <5> QED BY <5>1
      <4>2. i - 1 = Len(a) + (j - 1) /\ j \in 1..Len(b) /\ j - 1 \in 1..Len(b) /\ i # 1 /\ j # 1
        BY <2>1, <4>1
      <4>3. c[i] = b[j] /\ c[i - 1] = b[j - 1]
        BY <2>1, <4>1, <4>2
      <4> QED BY <4>2, <4>3 DEF Leads
    <3> QED BY <2>1, <3>1, <3>2, <3>3
  <2>5. After(p, c) = r
    BY <1>4, <2>2 DEF Leads, After
  <2> QED BY <2>1, <2>4, <2>5 DEF Leads
<1> QED BY <1>2, <1>3, <1>4

\* The first frame of a script may be sent, and the rest after it.
LEMMA FewerFrames ==
    ASSUME NEW p, NEW frames, Sendable(p, frames), frames # <<>>
    PROVE  /\ Head(frames) \in FrameType /\ Head(frames).ev # "error"
           /\ Follows(p, PhaseOf(Head(frames).ev))
           /\ Sendable(PhaseOf(Head(frames).ev), Tail(frames))
<1>1. PICK q : Leads(p, frames, q)
    BY DEF Sendable
<1>2. /\ frames \in Seq(FrameType) /\ Len(frames) \in Nat \ {0} /\ Head(frames) = frames[1]
      /\ Tail(frames) \in Seq(FrameType) /\ Len(Tail(frames)) = Len(frames) - 1
      /\ \A i \in 1..Len(Tail(frames)) : Tail(frames)[i] = frames[i + 1]
    BY <1>1 DEF Leads
<1>3. 1 \in 1..Len(frames) /\ frames[1] \in FrameType
    BY <1>2
<1>4. ASSUME NEW i \in 1..Len(Tail(frames))
      PROVE  /\ Tail(frames)[i].ev # "error"
             /\ Follows(IF i = 1 THEN PhaseOf(Head(frames).ev) ELSE PhaseOf(Tail(frames)[i - 1].ev),
                        PhaseOf(Tail(frames)[i].ev))
  <2>1. i + 1 \in 1..Len(frames) /\ i + 1 # 1 /\ (i + 1) - 1 = i /\ Tail(frames)[i] = frames[i + 1]
    BY <1>2
  <2>2. frames[i + 1].ev # "error" /\ Follows(PhaseOf(frames[i].ev), PhaseOf(frames[i + 1].ev))
    BY <1>1, <2>1 DEF Leads
  <2>3. CASE i = 1
    BY <1>2, <2>1, <2>2, <2>3
  <2>4. CASE i # 1
    <3>1. i - 1 \in 1..Len(Tail(frames)) /\ Tail(frames)[i - 1] = frames[i]
        BY <1>2, <2>4
    <3> QED BY <2>1, <2>2, <2>4, <3>1
  <2> QED BY <2>3, <2>4
<1>5. Leads(PhaseOf(Head(frames).ev), Tail(frames), After(PhaseOf(Head(frames).ev), Tail(frames)))
    BY <1>2, <1>4 DEF Leads
<1> QED BY <1>1, <1>2, <1>3, <1>5 DEF Leads, Sendable

\* A frame without text.
LEMMA Plain ==
    ASSUME NEW ev \in Events PROVE Frame(ev) \in FrameType /\ Frame(ev).ev = ev
    BY DEF Frame, FrameType

\* Two frames.
LEMMA TwoFrames ==
    ASSUME NEW p, NEW x \in FrameType, NEW y \in FrameType, x.ev # "error", y.ev # "error",
           Follows(p, PhaseOf(x.ev)), Follows(PhaseOf(x.ev), PhaseOf(y.ev))
    PROVE  Leads(p, <<x, y>>, PhaseOf(y.ev))
<1>1. /\ <<x, y>> \in Seq(FrameType) /\ Len(<<x, y>>) = 2
      /\ <<x, y>>[1] = x /\ <<x, y>>[2] = y /\ <<x, y>> # <<>>
    OBVIOUS
<1>2. \A i \in 1..2 : i = 1 \/ i = 2
    OBVIOUS
<1> QED BY <1>1, <1>2 DEF Leads, After, Last

\* Three frames.
LEMMA ThreeFrames ==
    ASSUME NEW p, NEW x \in FrameType, NEW y \in FrameType, NEW z \in FrameType,
           x.ev # "error", y.ev # "error", z.ev # "error",
           Follows(p, PhaseOf(x.ev)), Follows(PhaseOf(x.ev), PhaseOf(y.ev)),
           Follows(PhaseOf(y.ev), PhaseOf(z.ev))
    PROVE  Leads(p, <<x, y, z>>, PhaseOf(z.ev))
<1>1. /\ <<x, y, z>> \in Seq(FrameType) /\ Len(<<x, y, z>>) = 3 /\ <<x, y, z>> # <<>>
      /\ <<x, y, z>>[1] = x /\ <<x, y, z>>[2] = y /\ <<x, y, z>>[3] = z
    OBVIOUS
<1>2. \A i \in 1..3 : i = 1 \/ i = 2 \/ i = 3
    OBVIOUS
<1> QED BY <1>1, <1>2 DEF Leads, After, Last

\* Which phase each event stands for.
LEMMA Phases ==
    /\ PhaseOf("created") = "open" /\ PhaseOf("in_progress") = "open" /\ PhaseOf("item.done") = "open"
    /\ PhaseOf("stop") = "finished" /\ PhaseOf("usage") = "finished" /\ PhaseOf("completed") = "finished"
    /\ PhaseOf("done") = "closed" /\ PhaseOf("response.done") = "closed"
    /\ PhaseOf("error") = "failed" /\ PhaseOf("response.failed") = "failed"
    /\ PhaseOf("response.error") = "broken"
    /\ PhaseOf("role") = "message" /\ PhaseOf("text") = "message" /\ PhaseOf("tools") = "message"
    /\ PhaseOf("item.added") = "item" /\ PhaseOf("text.delta") = "item" /\ PhaseOf("args.delta") = "item"
    BY DEF PhaseOf

\* A frame without text by itself.
LEMMA Alone ==
    ASSUME NEW p, NEW ev \in Events \ {"error"}, Follows(p, PhaseOf(ev))
    PROVE  Leads(p, <<Frame(ev)>>, PhaseOf(ev))
    BY OneFrame, Plain

-----------------------------------------------------------------------------
(* The scripts *)

\* The role opens a chat stream.
LEMMA RoleLeads == Leads("idle", <<Frame("role")>>, "message")
    BY Alone, Phases DEF Events, Follows

\* The frames that close a stream of text (_gen).
LEMMA ClosingLeads == Leads("message", ClosingScript, "closed")
<1>1. Leads("message", <<Frame("stop")>>, "finished")
    BY Alone, Phases DEF Events, Follows
<1>2. Leads("finished", UsageFrame, "finished")
  <2>1. Leads("finished", <<Frame("usage")>>, "finished")
    BY Alone, Phases DEF Events, Follows
  <2> QED BY <2>1, NoFrames DEF UsageFrame
<1>3. Leads("finished", <<Frame("done")>>, "closed")
    BY Alone, Phases DEF Events, Follows
<1>4. Leads("message", <<Frame("stop")>> \o UsageFrame, "finished")
    BY <1>1, <1>2, MoreFrames
<1> QED BY <1>3, <1>4, MoreFrames DEF ClosingScript

\* A whole answer told as a stream (_gen_tools_sse).
LEMMA ToolsLeads == ASSUME resp.worker \in Named PROVE Sendable("idle", ToolsScript) /\ ToolsScript # <<>>
<1> DEFINE body == IF resp.kind = "tools" THEN <<Frame("tools")>> ELSE Text
           a == <<Frame("role")>> \o body
           b == a \o <<Frame("stop")>>
           c == b \o UsageFrame
<1>1. Leads("message", body, "message")
  <2>1. Leads("message", <<Frame("tools")>>, "message")
    BY Alone, Phases DEF Events, Follows
  <2>2. TextFrame(<<resp.worker>>) \in FrameType /\ TextFrame(<<resp.worker>>).ev = "text"
    BY DEF TextFrame, FrameType, Events
  <2>3. Leads("message", <<TextFrame(<<resp.worker>>)>>, "message")
    BY <2>2, OneFrame, Phases DEF Follows
  <2> QED BY <2>1, <2>3, NoFrames DEF Text
<1>2. Leads("idle", a, "message")
    BY <1>1, RoleLeads, MoreFrames
<1>3. Leads("message", <<Frame("stop")>>, "finished")
    BY Alone, Phases DEF Events, Follows
<1>4. Leads("idle", b, "finished")
    BY <1>2, <1>3, MoreFrames
<1>5. Leads("finished", UsageFrame, "finished")
  <2>1. Leads("finished", <<Frame("usage")>>, "finished")
    BY Alone, Phases DEF Events, Follows
  <2> QED BY <2>1, NoFrames DEF UsageFrame
<1>6. Leads("idle", c, "finished")
    BY <1>4, <1>5, MoreFrames
<1>7. Leads("finished", <<Frame("done")>>, "closed")
    BY Alone, Phases DEF Events, Follows
<1>8. ~Torn => ToolsScript = c \o <<Frame("done")>>
    BY DEF ToolsScript
<1>9. Torn => Sendable("idle", ToolsScript) /\ ToolsScript # <<>>
    BY RoleLeads DEF ToolsScript, Sendable
<1> HIDE DEF c
<1>10. ASSUME ~Torn PROVE Leads("idle", ToolsScript, "closed")
    BY <1>6, <1>7, <1>8, <1>10, MoreFrames
<1> QED BY <1>9, <1>10 DEF Sendable, Leads, After

\* A merged answer told as a stream (_gen_fb).
LEMMA MergedLeads == Leads("idle", MergedScript, "closed")
<1>1. /\ Frame("role") \in FrameType /\ Frame("stop") \in FrameType /\ Frame("done") \in FrameType
      /\ Frame("role").ev = "role" /\ Frame("stop").ev = "stop" /\ Frame("done").ev = "done"
    BY Plain DEF Events
<1> QED BY <1>1, ThreeFrames, Phases DEF MergedScript, Follows

\* Deltas are frames of the item they are in.
LEMMA DeltasLead ==
    ASSUME NEW ev \in {"text.delta", "args.delta"}, NEW c \in Chunks(ev)
    PROVE  Leads("item", c, "item")
<1>1. PICK n \in 0..MaxDeltas : c \in [1..n -> {Frame(ev)}]
    BY DEF Chunks
<1>2. n \in Nat /\ Frame(ev) \in FrameType /\ Frame(ev).ev = ev /\ ev # "error" /\ PhaseOf(ev) = "item"
    BY ChatReplyAssumption, Plain, Phases DEF Events
<1>3. c \in Seq(FrameType) /\ Len(c) = n
    BY <1>1, <1>2
<1>4. \A i \in 1..n : c[i].ev = ev
    BY <1>1, <1>2
<1>5. n # 0 => Last(c).ev = ev
    BY <1>2, <1>3, <1>4 DEF Last
<1> QED BY <1>2, <1>3, <1>4, <1>5 DEF Leads, After, Follows

\* An item with its deltas is begun and ended.
LEMMA ItemLeads ==
    ASSUME NEW ev \in {"text.delta", "args.delta"}, NEW c \in Chunks(ev)
    PROVE  Leads("open", ItemScript(c), "open")
<1>1. Leads("open", <<Frame("item.added")>>, "item")
    BY Alone, Phases DEF Events, Follows
<1>2. Leads("item", <<Frame("item.done")>>, "open")
    BY Alone, Phases DEF Events, Follows
<1>3. Leads("open", <<Frame("item.added")>> \o c, "item")
    BY <1>1, DeltasLead, MoreFrames
<1> QED BY <1>2, <1>3, MoreFrames DEF ItemScript

\* So are the items of a Responses stream, one after the other.
LEMMA ItemsLead ==
    ASSUME NEW items \in ResponsesItems PROVE Leads("open", items, "open")
<1>1. <<>> \in Chunks("text.delta")
  <2>1. 0 \in 0..MaxDeltas /\ <<>> \in [1..0 -> {Frame("text.delta")}]
    BY ChatReplyAssumption
  <2> QED BY <2>1 DEF Chunks
<1>2. \/ \E ev \in {"text.delta", "args.delta"} : \E c \in Chunks(ev) : items = ItemScript(c)
      \/ \E c, d \in Chunks("args.delta") : items = ItemScript(c) \o ItemScript(d)
      \/ items = <<>>
    BY <1>1 DEF ResponsesItems
<1>3. CASE \E ev \in {"text.delta", "args.delta"} : \E c \in Chunks(ev) : items = ItemScript(c)
    BY <1>3, ItemLeads
<1>4. CASE \E c, d \in Chunks("args.delta") : items = ItemScript(c) \o ItemScript(d)
    BY <1>4, ItemLeads, MoreFrames
<1>5. CASE items = <<>>
    BY <1>5, NoFrames
<1> QED BY <1>2, <1>3, <1>4, <1>5

\* A Responses stream from its opening to response.done, or to the failure it
\* tells of.
LEMMA ResponsesLead ==
    ASSUME NEW s \in ResponsesScripts PROVE Sendable("idle", s) /\ s # <<>>
<1> DEFINE head == <<Frame("created"), Frame("in_progress")>>
           tail == ResponsesEnd
           last == IF resp.kind = "badtools" THEN "failed" ELSE "closed"
<1>1. Leads("idle", head, "open")
  <2>1. /\ Frame("created") \in FrameType /\ Frame("in_progress") \in FrameType
        /\ Frame("created").ev = "created" /\ Frame("in_progress").ev = "in_progress"
    BY Plain DEF Events
  <2> QED BY <2>1, TwoFrames, Phases DEF Follows
<1>2. Leads("open", tail, last)
  <2>1. /\ Frame("completed") \in FrameType /\ Frame("response.done") \in FrameType
        /\ Frame("completed").ev = "completed" /\ Frame("response.done").ev = "response.done"
    BY Plain DEF Events
  <2>2. Leads("open", <<Frame("completed"), Frame("response.done")>>, "closed")
    BY <2>1, TwoFrames, Phases DEF Follows
  <2>3. /\ Frame("response.error") \in FrameType /\ Frame("response.failed") \in FrameType
        /\ Frame("response.error").ev = "response.error"
        /\ Frame("response.failed").ev = "response.failed"
    BY Plain DEF Events
  <2>4. Leads("open", <<Frame("response.error"), Frame("response.failed")>>, "failed")
    BY <2>3, TwoFrames, Phases DEF Follows
  <2> QED BY <2>2, <2>4 DEF ResponsesEnd
<1> HIDE DEF head, tail, last
<1>3. PICK items \in ResponsesItems : s = head \o items \o tail
    BY DEF ResponsesScripts, head, tail
<1>4. Leads("open", items, "open")
    BY ItemsLead
<1>5. Leads("idle", head \o items, "open")
    BY <1>1, <1>4, MoreFrames
<1>6. Leads("idle", s, last)
    BY <1>2, <1>3, <1>5, MoreFrames
<1>7. last # "idle"
    BY DEF last
<1> QED BY <1>6, <1>7 DEF Sendable, Leads, After

-----------------------------------------------------------------------------
(* The invariant of a reply *)

Waiting == {"body", "new", "decompose", "route", "reply", "image"}
Told == After("idle", wire)

Reply == [worker : Named, kind : AnswerKinds, routed : BOOLEAN]

Types ==
    /\ req \in Requests
    /\ resp \in Reply
    /\ billed \in Seq(Named)
    /\ pc \in Waiting \cup Sse \cup Ended

\* What has been sent: nothing before there is an answer, no error event while
\* there is more to come, and a script that may follow it.
Wire ==
    /\ pc \in Waiting => wire = <<>> /\ chain = <<>>
    /\ pc \in {"say", "closing"} => Sendable(Told, script)
    /\ pc = "say" => script # <<>> /\ (chain # <<>> => script = <<Frame("role")>>)
    /\ pc \in {"stream", "cascade"} => Told = "message"
    /\ pc \in Waiting \cup Sse => \E S : wire \in Seq(S) /\ \A f \in S : f.ev # "error"

\* Who has been charged.  A stream of text is charged when it is over, any
\* other reply before the first frame.
Charge ==
    /\ pc \in Waiting => status = 0
    /\ pc \in Waiting \ {"reply"} => billed = <<>> /\ ~resp.routed
    /\ pc = "reply" /\ ~resp.routed => billed = <<>>
    /\ pc = "reply" /\ resp.routed =>
         /\ ~SelectOnly /\ Len(billed) <= 1
         /\ billed = <<>> <=> resp.kind \in {"error", "limited"}
    /\ pc = "say" /\ chain = <<>> => IF resp.routed THEN ~SelectOnly /\ Len(billed) = 1 ELSE billed = <<>>
    /\ \/ pc = "say" /\ chain # <<>>
       \/ pc \in {"stream", "cascade", "closing"}
       => SelectOnly /\ billed = <<>>
    /\ pc \in Sse => status = 200
    /\ resp.kind = "badtools" => resp.routed /\ ~SelectOnly
    /\ ChargedOnce

IInv == Types /\ Wire /\ Charge

\* One frame more is the last one.
LEMMA SentLast ==
    ASSUME NEW s, NEW f, \E S : s \in Seq(S)
    PROVE  /\ After("idle", Append(s, f)) = PhaseOf(f.ev)
           /\ Len(s) + 1 \in DOMAIN Append(s, f) /\ Append(s, f)[Len(s) + 1] = f
<1>1. PICK S : s \in Seq(S)
    OBVIOUS
<1>2. PICK T : s \in Seq(T) /\ f \in T
  <2>1. s \in Seq(S \cup {f}) /\ f \in S \cup {f}
    BY <1>1
  <2> QED BY <2>1
<1>3. /\ Append(s, f) \in Seq(T) /\ Len(Append(s, f)) = Len(s) + 1 /\ Len(s) \in Nat
      /\ Append(s, f)[Len(s) + 1] = f
    BY <1>2
<1> QED BY <1>3 DEF After, Last

\* One frame more that is no error, after frames none of which is.
LEMMA SentWell ==
    ASSUME NEW s, NEW f, f.ev # "error", \E S : s \in Seq(S) /\ \A x \in S : x.ev # "error"
    PROVE  /\ After("idle", Append(s, f)) = PhaseOf(f.ev)
           /\ \E S : Append(s, f) \in Seq(S) /\ \A x \in S : x.ev # "error"
           /\ \A i \in DOMAIN Append(s, f) : Append(s, f)[i].ev # "error"
<1>1. PICK S : s \in Seq(S) /\ \A x \in S : x.ev # "error"
    OBVIOUS
<1>2. PICK T : s \in Seq(T) /\ f \in T /\ \A x \in T : x.ev # "error"
  <2>1. s \in Seq(S \cup {f}) /\ f \in S \cup {f} /\ \A x \in S \cup {f} : x.ev # "error"
    BY <1>1
  <2> QED BY <2>1
<1>3. Append(s, f) \in Seq(T) /\ \A i \in DOMAIN Append(s, f) : Append(s, f)[i] \in T
    BY <1>2
<1>4. After("idle", Append(s, f)) = PhaseOf(f.ev)
    BY <1>1, SentLast
<1> QED BY <1>2, <1>3, <1>4

\* The invariant holds at first.
LEMMA Started == Init => IInv
<1> SUFFICES ASSUME Init PROVE IInv
    OBVIOUS
<1>1. <<>> \in Seq({}) /\ <<>> \in Seq(Named)
    OBVIOUS
<1>2. Types
    BY <1>1 DEF Init, Types, Reply, Named, AnswerKinds, Waiting
<1>3. Wire
  <2>1. pc = "body" /\ wire = <<>> /\ chain = <<>>
    BY DEF Init
  <2>2. \E S : wire \in Seq(S) /\ \A f \in S : f.ev # "error"
    BY <1>1, <2>1
  <2> QED BY <2>1, <2>2 DEF Wire, Waiting, Sse
<1>4. Charge
    BY DEF Init, Charge, ChargedOnce, Waiting, Sse
<1> QED BY <1>2, <1>3, <1>4 DEF IInv

\* Before there is an answer nothing is sent, and nothing seen of it.
LEMMA QuietStep ==
    ASSUME IInv, pc \in Waiting, pc' \in Waiting \cup {"sent"},
           req' = req, wire' = wire, chain' = chain, billed' = billed,
           resp' \in Reply, resp'.kind # "badtools",
           pc' = "sent" => ~resp'.routed /\ billed' = <<>>,
           pc' \in Waiting => status' = 0 /\ billed' = <<>> /\ ~resp'.routed
    PROVE  IInv' /\ Phase' = Phase
<1>1. Types'
    BY DEF IInv, Types, Ended
<1>2. wire = <<>> /\ chain = <<>> /\ pc' # "cut" /\ pc # "cut" /\ pc' \notin Sse
    BY DEF IInv, Wire, Waiting, Sse
<1>3. Wire'
    BY <1>2 DEF IInv, Wire, Waiting, Sse
<1>4. Charge'
  <2>1. Len(<<>>) = 0
    OBVIOUS
  <2> QED BY <1>2, <2>1 DEF Charge, ChargedOnce, Waiting, Sse, SelectOnly, InnerStream
<1>5. Phase' = Phase
    BY <1>2 DEF Phase
<1> QED BY <1>1, <1>3, <1>4, <1>5 DEF IInv

\* The body's limit sends nothing but a status.
LEMMA BodySteps ==
    ASSUME IInv, RefusesBody \/ ReadsChunk \/ BodyEnds \/ BodyCut
    PROVE  IInv' /\ Phase' = Phase
<1>1. /\ pc \in Waiting \ {"reply"} /\ pc' \in Waiting \cup {"sent"} /\ pc' # "reply"
      /\ UNCHANGED <<req, wire, chain, billed, resp>>
      /\ pc' \in Waiting => status' = status
    BY DEF RefusesBody, ReadsChunk, BodyEnds, BodyCut, KeepsBody, Sends, Waiting
<1>2. billed = <<>> /\ ~resp.routed /\ status = 0 /\ resp \in Reply /\ resp.kind # "badtools"
    BY <1>1 DEF IInv, Charge, Types
<1> QED BY <1>1, <1>2, QuietStep

\* What comes before the router sends and charges nothing.
LEMMA EarlySteps ==
    ASSUME IInv, CacheHits \/ CapHit \/ Admits \/ DecomposeStep \/ ImageChecked \/ ImageAnswers
    PROVE  IInv' /\ Phase' = Phase
<1> DEFINE Quiet ==
        /\ pc \in Waiting \ {"reply"} /\ pc' \in Waiting \cup {"sent"}
        /\ UNCHANGED <<req, wire, chain, billed>>
        /\ pc' \in Waiting => status' = status
           NewReply ==
               resp' = resp \/ (resp' \in Reply /\ resp'.routed = FALSE /\ resp'.kind # "badtools")
<1>1. ASSUME CacheHits \/ CapHit PROVE Quiet /\ NewReply
  <2>1. Quiet
    BY <1>1 DEF CacheHits, CapHit, KeepsReply, Sends, Waiting
  <2>2. resp' = resp \/ resp' = [worker |-> NoWorker, kind |-> "cached", routed |-> FALSE]
    BY <1>1 DEF CacheHits, CapHit
  <2>3. /\ [worker |-> NoWorker, kind |-> "cached", routed |-> FALSE] \in Reply
        /\ [worker |-> NoWorker, kind |-> "cached", routed |-> FALSE].routed = FALSE
        /\ [worker |-> NoWorker, kind |-> "cached", routed |-> FALSE].kind # "badtools"
    BY DEF Reply, Named, AnswerKinds
  <2>4. NewReply
    BY <2>2, <2>3
  <2> QED BY <2>1, <2>4
<1>2. ASSUME Admits PROVE Quiet /\ NewReply
    BY <1>2 DEF Admits, KeepsReply, Waiting
<1>3. ASSUME DecomposeStep PROVE Quiet /\ NewReply
  <2> DEFINE w == IF path' \in {"cheap_kept", "fallback", "triggered"} THEN Cheap ELSE NoWorker
             k == IF Answered' THEN "text" ELSE "empty"
  <2>1. w \in Named /\ k \in AnswerKinds /\ k # "badtools"
    BY ChatReplyAssumption DEF Named, AnswerKinds
  <2>2. resp' = [worker |-> w, kind |-> k, routed |-> FALSE]
    BY <1>3 DEF DecomposeStep
  <2>3. /\ pc = "decompose" /\ UNCHANGED <<req, wire, chain, billed>>
        /\ pc' = "sent" \/ (pc' \in {"route", "reply", "decompose"} /\ status' = status)
    BY <1>3 DEF DecomposeStep, AfterDecompose, KeepsReply, Sends
  <2> HIDE DEF w, k
  <2>4. resp' \in Reply /\ resp'.routed = FALSE /\ resp'.kind # "badtools"
    BY <2>1, <2>2 DEF Reply
  <2> QED BY <2>3, <2>4 DEF Waiting
<1>4. ASSUME ImageChecked \/ ImageAnswers PROVE Quiet /\ NewReply
  <2>1. /\ pc \in {"new", "image"} /\ UNCHANGED <<resp, req, wire, chain, billed>>
        /\ pc' = "sent" \/ (pc' = "image" /\ status' = status)
    BY <1>4 DEF ImageChecked, ImageAnswers, KeepsReply, Sends
  <2> QED BY <2>1 DEF Waiting
<1>5. Quiet /\ NewReply
    BY <1>1, <1>2, <1>3, <1>4
<1> HIDE DEF Quiet
<1>6. billed = <<>> /\ ~resp.routed /\ status = 0 /\ resp \in Reply /\ resp.kind # "badtools"
    BY <1>5 DEF Quiet, IInv, Charge, Types
<1>7. resp' \in Reply /\ ~resp'.routed /\ resp'.kind # "badtools"
    BY <1>5, <1>6
<1> QED BY <1>5, <1>6, <1>7, QuietStep DEF Quiet

\* The router's answer, charged by the router.
LEMMA RoutedStep == ASSUME IInv, Routed PROVE IInv' /\ Phase' = Phase
<1>1. PICK w \in Workers, k \in {"text", "empty", "error", "limited", "tools", "badtools"} :
        /\ resp' = [worker |-> w, kind |-> k, routed |-> TRUE]
        /\ billed' = IF k \in {"error", "limited"} THEN billed ELSE Append(billed, w)
    BY DEF Routed
<1>2. /\ pc = "route" /\ pc' = "reply" /\ ~SelectOnly
      /\ UNCHANGED <<req, wire, chain, status>>
    BY DEF Routed, KeepsReply
<1>3. billed = <<>> /\ status = 0 /\ wire = <<>> /\ chain = <<>>
    BY <1>2 DEF IInv, Charge, Wire, Waiting
<1>4. /\ billed' \in Seq(Named) /\ Len(billed') <= 1
      /\ billed' = <<>> <=> k \in {"error", "limited"}
  <2>1. w \in Named /\ <<>> \in Seq(Named) /\ Len(<<>>) = 0
    BY DEF Named
  <2>2. Append(<<>>, w) \in Seq(Named) /\ Len(Append(<<>>, w)) = 1 /\ Append(<<>>, w) # <<>>
    BY <2>1
  <2> QED BY <1>1, <1>3, <2>1, <2>2
<1>5. Types'
    BY <1>1, <1>2, <1>4 DEF IInv, Types, Reply, Named, AnswerKinds, Waiting
<1>6. Wire'
    BY <1>2, <1>3 DEF IInv, Wire, Waiting, Sse
<1>7. Charge'
    BY <1>1, <1>2, <1>3, <1>4 DEF Charge, ChargedOnce, Waiting, Sse, SelectOnly, InnerStream
<1>8. Phase' = Phase
    BY <1>2 DEF Phase
<1> QED BY <1>5, <1>6, <1>7, <1>8 DEF IInv

\* A worker is selected for a stream, and not charged.
LEMMA SelectStep == ASSUME IInv, Selects PROVE IInv' /\ Phase' = Phase
<1>1. PICK c \in Chains :
        /\ resp' = [worker |-> c[1], kind |-> "deferred", routed |-> TRUE]
        /\ chain' # <<>>
  <2>1. PICK c \in Chains, cooling \in SUBSET Workers :
          /\ chain' = IF Warm(c, cooling) = <<>> THEN <<c[1]>> ELSE Warm(c, cooling)
          /\ resp' = [worker |-> c[1], kind |-> "deferred", routed |-> TRUE]
    BY DEF Selects
  <2>2. \A x : <<x>> # <<>>
    OBVIOUS
  <2> QED BY <2>1, <2>2
<1>2. /\ pc = "route" /\ pc' = "say" /\ SelectOnly /\ status' = 200 /\ script' = <<Frame("role")>>
      /\ UNCHANGED <<req, wire, billed>>
    BY DEF Selects
<1>3. billed = <<>> /\ wire = <<>>
    BY <1>2 DEF IInv, Charge, Wire, Waiting
<1>4. c[1] \in Workers
    BY ChatReplyAssumption
<1>5. Types'
    BY <1>1, <1>2, <1>4 DEF IInv, Types, Reply, Named, AnswerKinds, Sse
<1>6. Wire'
  <2>1. Told' = "idle" /\ Sendable(Told', script')
    BY <1>2, <1>3, RoleLeads DEF Told, After, Sendable
  <2>2. \E S : wire' \in Seq(S) /\ \A f \in S : f.ev # "error"
    BY <1>2 DEF IInv, Wire, Waiting
  <2>3. script' # <<>>
    BY <1>2
  <2> QED BY <1>2, <2>1, <2>2, <2>3 DEF Wire, Waiting
<1>7. Charge'
  <2>1. Len(<<>>) = 0
    OBVIOUS
  <2> QED BY <1>1, <1>2, <1>3, <2>1 DEF Charge, ChargedOnce, Waiting, Sse, SelectOnly, InnerStream
<1>8. Phase' = Phase
    BY <1>2 DEF Phase
<1> QED BY <1>5, <1>6, <1>7, <1>8 DEF IInv

\* A whole answer is sent as JSON, or its script is begun.
LEMMA ReplyStep == ASSUME IInv, Replies PROVE IInv' /\ Phase' = Phase
<1>1. pc = "reply" /\ UNCHANGED <<req, wire, chain, resp, billed>>
    BY DEF Replies, KeepsReply
<1>2. wire = <<>> /\ chain = <<>> /\ Told' = "idle" /\ status = 0
  <2>1. wire = <<>> /\ chain = <<>>
    BY <1>1 DEF IInv, Wire, Waiting
  <2>2. Told' = "idle"
    BY <1>1, <2>1 DEF Told, After
  <2>3. status = 0
    BY <1>1 DEF IInv, Charge, Waiting
  <2> QED BY <2>1, <2>2, <2>3
<1>3. resp.worker \in Named
    BY DEF IInv, Types, Reply
<1>4. /\ resp.routed => /\ ~SelectOnly /\ Len(billed) <= 1
                        /\ billed = <<>> <=> resp.kind \in {"error", "limited"}
      /\ ~resp.routed => billed = <<>>
      /\ resp.kind = "badtools" => resp.routed
      /\ Len(<<>>) = 0 /\ billed \in Seq(Named)
    BY <1>1 DEF IInv, Charge, Types
<1>5. CASE pc' = "sent"
  <2>1. Types' /\ Wire'
    BY <1>1, <1>5 DEF IInv, Types, Ended, Wire, Waiting, Sse
  <2>2. \/ status' # 200 /\ (Raises \/ IsErrorPayload)
        \/ status' = 200 /\ ~IsErrorPayload
    BY <1>5 DEF Replies, Sends
  <2>3. status' # 200 => (billed = <<>> <=> resp.kind # "badtools")
    BY <1>4, <2>2 DEF Raises, IsErrorPayload
  <2>4. status' = 200 /\ resp.routed => billed # <<>> /\ ~SelectOnly
    BY <1>4, <2>2 DEF IsErrorPayload
  <2>5. Frames' = {}
    BY <1>1, <1>2 DEF Frames
  <2>6. Charge'
    BY <1>1, <1>4, <1>5, <2>3, <2>4, <2>5
    DEF IInv, Charge, ChargedOnce, Waiting, Sse, SelectOnly, InnerStream
  <2>7. Phase' = Phase
    BY <1>1, <1>5 DEF Phase
  <2> QED BY <2>1, <2>6, <2>7 DEF IInv
<1>6. CASE pc' # "sent"
  <2>1. /\ pc' = "say" /\ status' = 200 /\ ~IsErrorPayload
        /\ script' = ToolsScript \/ script' = MergedScript \/ script' \in ResponsesScripts
    BY <1>6 DEF Replies, Sends
  <2>2. Sendable("idle", script') /\ script' # <<>>
    <3>1. Sendable("idle", MergedScript) /\ MergedScript # <<>>
        BY MergedLeads DEF Sendable, Leads, After
    <3> QED BY <1>3, <2>1, <3>1, ToolsLeads, ResponsesLead
  <2>4. Types'
    BY <1>1, <2>1 DEF IInv, Types, Sse
  <2>5. \E S : wire' \in Seq(S) /\ \A f \in S : f.ev # "error"
    BY <1>1 DEF IInv, Wire, Waiting
  <2>6. Wire'
    BY <1>1, <1>2, <2>1, <2>2, <2>5 DEF Wire, Waiting
  <2>7. ASSUME resp.routed PROVE ~SelectOnly /\ Len(billed) = 1
    <3>1. ~SelectOnly /\ billed # <<>>
        BY <1>4, <2>1, <2>7 DEF IsErrorPayload
    <3>2. Len(billed) <= 1
        BY <1>4, <2>7
    <3>3. Len(billed) \in Nat \ {0}
        BY <1>4, <3>1
    <3>4. \A n \in Nat \ {0} : n <= 1 => n = 1
        OBVIOUS
    <3> QED BY <3>1, <3>2, <3>3, <3>4
  <2>8. Charge'
    BY <1>1, <1>2, <1>4, <2>1, <2>7 DEF IInv, Charge, ChargedOnce, Waiting, Sse, SelectOnly, InnerStream
  <2>9. Phase' = Phase
    BY <1>1, <2>1 DEF Phase
  <2> QED BY <2>4, <2>6, <2>8, <2>9 DEF IInv
<1> QED BY <1>5, <1>6

-----------------------------------------------------------------------------
(* The stream *)

\* A frame, or none, is sent, and the phase follows.
LEMMA SpokenStep ==
    ASSUME IInv, pc \in {"stream", "cascade"},
           NEW said, wire' = Says(said)
    PROVE  /\ Told' = "message"
           /\ \E S : wire' \in Seq(S) /\ \A f \in S : f.ev # "error"
<1>1. \E S : wire \in Seq(S) /\ \A x \in S : x.ev # "error"
    BY DEF IInv, Wire, Sse
<1>2. Told = "message"
    BY DEF IInv, Wire
<1>3. CASE said = <<>>
    BY <1>1, <1>2, <1>3 DEF Says, Told
<1>4. CASE said # <<>>
  <2>1. wire' = Append(wire, TextFrame(said)) /\ TextFrame(said).ev = "text"
    BY <1>4 DEF Says, TextFrame
  <2>2. /\ After("idle", Append(wire, TextFrame(said))) = "message"
        /\ \E S : Append(wire, TextFrame(said)) \in Seq(S) /\ \A x \in S : x.ev # "error"
    BY <1>1, <2>1, SentWell, Phases
  <2> QED BY <2>1, <2>2 DEF Told
<1> QED BY <1>3, <1>4

\* Between the frames of a generator nobody is charged.
LEMMA Unfinished ==
    ASSUME IInv, pc \in Sse, pc' \in Sse,
           UNCHANGED <<req, status, resp, chain, billed>>,
           Wire',
           pc' = "say" => pc = "say",
           pc' # "say" => pc # "say" \/ chain # <<>>
    PROVE  IInv'
<1>1. Types'
    BY DEF IInv, Types
<1>2. Charge'
  <2>1. Len(billed) <= 1 /\ pc' # "sent"
    BY DEF IInv, Charge, ChargedOnce, Sse
  <2> QED BY <2>1 DEF IInv, Charge, ChargedOnce, Sse, Waiting, SelectOnly, InnerStream
<1> QED BY <1>1, <1>2 DEF IInv

\* The next frame of a script.
LEMMA ScriptStep == ASSUME IInv, Says1 PROVE IInv' /\ Follows(Told, Told')
<1> DEFINE f == Head(script)
<1>1. /\ pc \in {"say", "closing"} /\ script # <<>> /\ wire' = Append(wire, f) /\ script' = Tail(script)
      /\ UNCHANGED <<req, status, resp, chain, billed>>
    BY DEF Says1, KeepsStream
<1>2. /\ pc' = IF script' # <<>> \/ pc = "closing" THEN pc
               ELSE IF SelectOnly /\ chain # <<>> THEN "stream"
               ELSE IF Torn THEN "cut" ELSE "sent"
    BY DEF Says1
<1>3. Sendable(Told, script)
    BY <1>1 DEF IInv, Wire
<1>4. /\ f \in FrameType /\ f.ev # "error" /\ Follows(Told, PhaseOf(f.ev))
      /\ Sendable(PhaseOf(f.ev), script')
    BY <1>1, <1>3, FewerFrames
<1>5. \E S : wire \in Seq(S) /\ \A x \in S : x.ev # "error"
    BY <1>1 DEF IInv, Wire, Sse
<1> HIDE DEF f
<1>6. /\ Told' = PhaseOf(f.ev)
      /\ \E S : wire' \in Seq(S) /\ \A x \in S : x.ev # "error"
      /\ \A i \in DOMAIN wire' : wire'[i].ev # "error"
    BY <1>1, <1>4, <1>5, SentWell DEF Told
<1>8. pc = "say" /\ chain # <<>> => script = <<Frame("role")>> /\ script' = <<>> /\ Told' = "message"
  <2>1. ASSUME pc = "say", chain # <<>> PROVE script = <<Frame("role")>>
    BY <2>1 DEF IInv, Wire
  <2>2. script = <<Frame("role")>> => f = Frame("role") /\ script' = <<>>
    BY <1>1 DEF f
  <2>3. PhaseOf(Frame("role").ev) = "message"
    BY Plain, Phases DEF Events
  <2> QED BY <1>6, <2>1, <2>2, <2>3
<1>9. pc = "say" /\ chain # <<>> => SelectOnly
    BY DEF IInv, Charge
<1>10. CASE pc' \in Sse
  <2>1. Wire'
    BY <1>1, <1>2, <1>4, <1>6, <1>8, <1>10 DEF Wire, Waiting, Sse
  <2>2. pc \in Sse /\ (pc' = "say" => pc = "say") /\ (pc' # "say" => pc # "say" \/ chain # <<>>)
    BY <1>1, <1>2, <1>10 DEF Sse
  <2> QED BY <1>1, <1>4, <1>6, <1>10, <2>1, <2>2, Unfinished
<1>11. CASE pc' \notin Sse
  <2>1. pc = "say" /\ pc' \in Ended /\ chain = <<>>
    BY <1>1, <1>2, <1>9, <1>11 DEF Sse, Ended
  <2>2. Types' /\ Wire'
    BY <1>1, <2>1 DEF IInv, Types, Ended, Wire, Waiting, Sse
  <2>3. "error" \notin Frames'
    BY <1>6 DEF Frames
  <2>4. status = 200 /\ IF resp.routed THEN ~SelectOnly /\ Len(billed) = 1 ELSE billed = <<>>
    BY <2>1 DEF IInv, Charge, Sse
  <2>5. Len(<<>>) = 0
    OBVIOUS
  <2>6. Charge'
    <3>1. resp.routed => ~SelectOnly /\ billed # <<>> /\ Len(billed) = 1
        BY <2>4, <2>5
    <3>2. ~resp.routed => billed = <<>>
        BY <2>4
    <3>3. SelectOnly' = SelectOnly
        BY <1>1 DEF SelectOnly, InnerStream
    <3>4. status' = 200 /\ billed' = billed /\ resp' = resp
        BY <1>1, <2>4
    <3>5. Len(billed') <= 1
      <4>1. Len(billed) <= 1
        BY <1>1 DEF IInv, Charge, ChargedOnce
      <4> QED BY <3>4, <4>1
    <3>6. ~(status' # 200 \/ "error" \in Frames')
        BY <2>3, <3>4
    <3>7. resp'.routed => billed' # <<>> /\ ~SelectOnly'
        BY <3>1, <3>3, <3>4
    <3>8. ChargedOnce'
        BY <3>5, <3>6, <3>7 DEF ChargedOnce
    <3>9. resp'.kind = "badtools" => resp'.routed /\ ~SelectOnly'
        BY <3>3, <3>4 DEF IInv, Charge
    <3> QED BY <2>1, <3>8, <3>9 DEF Charge, Sse, Ended, Waiting
  <2> QED BY <1>4, <1>6, <2>2, <2>6 DEF IInv
<1> QED BY <1>10, <1>11

\* A delta of the first worker, or of a fallback.
LEMMA DeltaSteps ==
    ASSUME IInv, NEW k \in Kinds, Delta(k) \/ FallbackDelta(k)
    PROVE  IInv' /\ Follows(Told, Told')
<1>1. /\ pc \in {"stream", "cascade"} /\ pc' = pc /\ \E said : wire' = Says(said)
      /\ UNCHANGED <<req, status, resp, chain, billed>>
    BY DEF Delta, FallbackDelta, KeepsStream
<1>2. Told = "message" /\ Told' = "message" /\ \E S : wire' \in Seq(S) /\ \A f \in S : f.ev # "error"
    BY <1>1, SpokenStep DEF IInv, Wire
<1>3. Wire'
    BY <1>1, <1>2 DEF Wire, Waiting, Sse
<1> QED BY <1>1, <1>2, <1>3, Unfinished DEF Sse, Follows

\* A worker's stream ends, and the closing script begins.
LEMMA EndSteps ==
    ASSUME IInv, StreamEnds \/ FallbackEnds
    PROVE  IInv' /\ Follows(Told, Told')
<1>1. /\ pc \in {"stream", "cascade"} /\ pc' = "closing" /\ script' = ClosingScript
      /\ UNCHANGED <<req, status, resp, chain, billed>>
      /\ \E said : wire' = Says(said)
  <2>1. wire = Says(<<>>)
    BY DEF Says
  <2> QED BY <2>1 DEF StreamEnds, FallbackEnds, KeepsStream
<1>2. Told = "message" /\ Told' = "message" /\ \E S : wire' \in Seq(S) /\ \A f \in S : f.ev # "error"
    BY <1>1, SpokenStep DEF IInv, Wire
<1>3. Sendable(Told', script')
  <2>1. ClosingScript' = ClosingScript
    BY <1>1 DEF ClosingScript, UsageFrame
  <2> QED BY <1>1, <1>2, ClosingLeads DEF Sendable
<1>4. Wire'
    BY <1>1, <1>2, <1>3 DEF Wire, Waiting, Sse
<1> QED BY <1>1, <1>2, <1>4, Unfinished DEF Sse, Follows

\* A worker's stream breaks: the next worker, or the error event.
LEMMA FailSteps ==
    ASSUME IInv, StreamFails \/ FallbackFails
    PROVE  IInv' /\ Follows(Told, Told')
<1>1. /\ pc \in {"stream", "cascade"} /\ UNCHANGED <<req, status, resp, chain, billed>>
      /\ \/ pc' = "cascade" /\ wire' = wire
         \/ pc' = "sent" /\ wire' = Append(wire, Frame("error"))
    BY DEF StreamFails, FallbackFails, FallsBack, KeepsStream
<1>2. Told = "message"
    BY <1>1 DEF IInv, Wire
<1>3. \E S : wire \in Seq(S) /\ \A f \in S : f.ev # "error"
    BY <1>1 DEF IInv, Wire, Sse
<1>4. CASE pc' = "cascade" /\ wire' = wire
  <2>1. Wire' /\ Told' = Told
    BY <1>2, <1>3, <1>4 DEF Wire, Waiting, Sse, Told
  <2> QED BY <1>1, <1>4, <2>1, Unfinished DEF Sse, Follows
<1>5. CASE pc' = "sent" /\ wire' = Append(wire, Frame("error"))
  <2>1. Told' = "failed"
    <3>1. After("idle", Append(wire, Frame("error"))) = PhaseOf(Frame("error").ev)
        BY <1>3, SentLast
    <3>2. Frame("error").ev = "error"
        BY Plain DEF Events
    <3> QED BY <1>5, <3>1, <3>2, Phases DEF Told
  <2>2. Types' /\ Wire'
    BY <1>1, <1>5 DEF IInv, Types, Ended, Wire, Waiting, Sse
  <2>3. "error" \in Frames'
    <3>1. Len(wire) + 1 \in DOMAIN wire' /\ wire'[Len(wire) + 1] = Frame("error") /\ Frame("error").ev = "error"
        BY <1>3, <1>5, SentLast, Plain DEF Events
    <3> QED BY <3>1 DEF Frames
  <2>4. billed = <<>> /\ Len(<<>>) = 0 /\ resp.kind # "badtools"
    BY <1>1 DEF IInv, Charge
  <2>5. Charge'
    BY <1>1, <1>5, <2>3, <2>4 DEF Charge, ChargedOnce, Sse, Waiting
  <2> QED BY <1>2, <2>1, <2>2, <2>5 DEF IInv, Follows
<1> QED BY <1>1, <1>4, <1>5

\* A stream that was closed is charged.
LEMMA BillStep == ASSUME IInv, Bills PROVE IInv' /\ Told' = Told
<1>1. /\ pc = "closing" /\ pc' = "sent" /\ UNCHANGED <<req, status, resp, chain, wire, nth, heard, fheard>>
      /\ billed' = IF Full # <<>> THEN Append(billed, resp.worker) ELSE billed
    BY DEF Bills, KeepsStream
<1>2. billed = <<>> /\ SelectOnly /\ status = 200
  <2>1. billed = <<>> /\ SelectOnly
    BY <1>1 DEF IInv, Charge
  <2>2. status = 200
    BY <1>1 DEF IInv, Charge, Sse
  <2> QED BY <2>1, <2>2
<1>3. resp.worker \in Named
    BY DEF IInv, Types, Reply
<1>4. /\ billed' \in Seq(Named) /\ Len(billed') <= 1
      /\ billed' = <<>> <=> Full = <<>>
  <2>1. <<>> \in Seq(Named) /\ Len(<<>>) = 0
    OBVIOUS
  <2>2. Append(<<>>, resp.worker) \in Seq(Named) /\ Len(Append(<<>>, resp.worker)) = 1 /\ Append(<<>>, resp.worker) # <<>>
    BY <1>3, <2>1
  <2> QED BY <1>1, <1>2, <2>1, <2>2
<1>5. "error" \notin Frames'
  <2>1. PICK S : wire \in Seq(S) /\ \A f \in S : f.ev # "error"
    BY <1>1 DEF IInv, Wire, Sse
  <2>2. \A i \in DOMAIN wire : wire[i] \in S
    BY <2>1
  <2> QED BY <1>1, <2>1, <2>2 DEF Frames
<1>6. Types' /\ Wire'
    BY <1>1, <1>4 DEF IInv, Types, Ended, Wire, Waiting, Sse
<1>7. SelectOnly' /\ Full' = Full
    BY <1>1, <1>2 DEF SelectOnly, InnerStream, Full
<1>8. Charge'
    BY <1>1, <1>2, <1>4, <1>5, <1>7 DEF IInv, Charge, ChargedOnce, Sse, Waiting
<1> QED BY <1>1, <1>6, <1>8 DEF IInv, Told

\* The client hangs up, or its generator is cancelled.
LEMMA ClientSteps == ASSUME IInv, HangsUp \/ Cancelled PROVE IInv' /\ Told' = Told
<1>1. /\ pc \in Sse /\ (pc' = pc \/ pc' = "cut")
      /\ UNCHANGED <<req, status, resp, chain, billed, wire, script>>
    BY DEF HangsUp, Cancelled, KeepsStream
<1>2. Told' = Told
    BY <1>1 DEF Told
<1>3. Wire'
    BY <1>1, <1>2 DEF IInv, Wire, Waiting, Sse, Told
<1>4. CASE pc' = pc
    BY <1>1, <1>2, <1>3, <1>4, Unfinished DEF Sse
<1>5. CASE pc' = "cut"
  <2>1. Types'
    BY <1>1, <1>5 DEF IInv, Types, Ended
  <2>2. Charge'
    BY <1>1, <1>5 DEF IInv, Charge, ChargedOnce, Sse, Waiting, SelectOnly, InnerStream
  <2> QED BY <1>2, <1>3, <2>1, <2>2 DEF IInv
<1> QED BY <1>1, <1>4, <1>5

-----------------------------------------------------------------------------
(* Billing, and the protocol *)

\* The refinement mapping in terms of what was told.
LEMMA PhaseIsTold == Phase = IF pc = "cut" /\ Told \notin {"closed", "failed"} THEN "cut" ELSE Told
    BY DEF Phase, Told, After

\* What may follow is what EventStream allows.
LEMMA PhaseMoves ==
    ASSUME Follows(Told, Told'), pc # "cut", pc' # "cut"
    PROVE  [Stream!Next]_Phase
<1>1. Phase = Told
    BY PhaseIsTold
<1>2. Phase' = Told'
    BY DEF Phase, Told, After
<1> QED BY <1>1, <1>2 DEF Follows, Stream!Next, Stream!Opens, Stream!Begins, Stream!Ends,
               Stream!Finishes, Stream!Closes, Stream!Breaks, Stream!Fails

\* A stream that is cut off may have said its last just then, and one that is
\* over cannot be cut off.
LEMMA CutOff ==
    ASSUME Follows(Told, Told'), pc # "cut", pc' = "cut" PROVE [Stream!Next]_Phase
<1>1. Phase = Told
    BY PhaseIsTold
<1>2. Phase' = IF Told' \notin {"closed", "failed"} THEN "cut" ELSE Told'
    BY DEF Phase, Told, After
<1>3. CASE Told' \in {"closed", "failed"}
    BY <1>1, <1>2, <1>3 DEF Follows, Stream!Next, Stream!Closes, Stream!Fails
<1>4. CASE Told' \notin {"closed", "failed"}
  <2>1. Phase' = "cut" /\ Told \notin {"closed", "failed"}
    BY <1>2, <1>4 DEF Follows
  <2> QED BY <1>1, <2>1 DEF Stream!Next, Stream!Cut
<1> QED BY <1>3, <1>4

\* Every step keeps the invariant, and is a step of EventStream or none.
LEMMA StepKeeps == ASSUME IInv, [Next]_vars PROVE IInv' /\ [Stream!Next]_Phase
<1>1. CASE RefusesBody \/ ReadsChunk \/ BodyEnds \/ BodyCut
    BY <1>1, BodySteps
<1>2. CASE CacheHits \/ CapHit \/ Admits \/ DecomposeStep \/ ImageChecked \/ ImageAnswers
    BY <1>2, EarlySteps
<1>3. CASE Selects \/ Routed \/ Replies
    BY <1>3, SelectStep, RoutedStep, ReplyStep
<1>4. CASE Says1
  <2>1. pc # "cut"
    BY <1>4 DEF Says1
  <2> QED BY <1>4, <2>1, ScriptStep, PhaseMoves, CutOff
<1>5. ASSUME NEW k \in Kinds, Delta(k) \/ FallbackDelta(k) PROVE IInv' /\ [Stream!Next]_Phase
  <2>1. pc # "cut" /\ pc' # "cut"
    BY <1>5 DEF Delta, FallbackDelta
  <2> QED BY <1>5, <2>1, DeltaSteps, PhaseMoves
<1>6. CASE StreamEnds \/ FallbackEnds
  <2>1. pc # "cut" /\ pc' # "cut"
    BY <1>6 DEF StreamEnds, FallbackEnds
  <2> QED BY <1>6, <2>1, EndSteps, PhaseMoves
<1>7. CASE StreamFails \/ FallbackFails
  <2>1. pc # "cut" /\ pc' # "cut"
    BY <1>7 DEF StreamFails, FallbackFails, FallsBack
  <2> QED BY <1>7, <2>1, FailSteps, PhaseMoves
<1>8. CASE Bills
  <2>1. pc # "cut" /\ pc' # "cut"
    BY <1>8 DEF Bills
  <2> QED BY <1>8, <2>1, BillStep, PhaseMoves DEF Follows
<1>9. CASE HangsUp
  <2>1. pc # "cut" /\ pc' # "cut"
    BY <1>9 DEF HangsUp, Sse
  <2> QED BY <1>9, <2>1, ClientSteps, PhaseMoves DEF Follows
<1>10. CASE Cancelled
  <2>1. pc # "cut" /\ pc' = "cut"
    BY <1>10 DEF Cancelled, Sse
  <2> QED BY <1>10, <2>1, ClientSteps, CutOff DEF Follows
<1>11. CASE UNCHANGED vars
  <2>1. UNCHANGED <<req, pc, status, resp, chain, nth, heard, fheard, script, wire, billed>>
    BY <1>11 DEF vars, rvars
  <2>2. Types' /\ Wire'
    BY <2>1 DEF IInv, Types, Wire, Told
  <2>3. Charge'
    BY <2>1 DEF IInv, Charge, ChargedOnce, SelectOnly, InnerStream, Full, Frames
  <2>4. Phase' = Phase
    BY <2>1 DEF Phase
  <2> QED BY <2>2, <2>3, <2>4 DEF IInv
<1> QED BY <1>1, <1>2, <1>3, <1>4, <1>5, <1>6, <1>7, <1>8, <1>9, <1>10, <1>11 DEF Next

\* The invariant holds in every reachable state.
THEOREM Inductive == Spec => []IInv
<1>1. IInv /\ [Next]_vars => IInv'
    BY StepKeeps
<1> QED BY <1>1, Started, PTL DEF Spec

\* A reply is charged at most once, and one that came to its end exactly if its
\* client was sent an answer and no error (server.py, append_log).
THEOREM BilledOnce == Spec => []ChargedOnce
<1>1. IInv => ChargedOnce
    BY DEF IInv, Charge
<1> QED BY <1>1, Inductive, PTL

\* The frames of every reply keep to the protocol of EventStream: ChatReply
\* implements it.
THEOREM RepliesFollowProtocol == Spec => ImplementsEventStream
<1>1. Init => Stream!Init
    BY DEF Init, Stream!Init, Phase
<1>2. IInv /\ [Next]_vars => [Stream!Next]_Phase
    BY StepKeeps
<1> QED BY <1>1, <1>2, Inductive, PTL DEF Spec, ImplementsEventStream, Stream!Spec

-----------------------------------------------------------------------------
(* The merged answer *)

\* The subtasks before the one in flight have their answers, under their ids;
\* an answer is merged only at the end.
Parts ==
    /\ parts \in [Ids -> [of : Nat, is : Answers]]
    /\ stage \in {"part", "again"} =>
         /\ plan \in Seq(Ids) /\ at \in 1..Len(plan)
         /\ DistinctIds => \A i \in 1..at - 1 : parts[plan[i]].of = i
    /\ path \in {"forced", "triggered"} => stage = "over"
    /\ MergedWhole

\* No part is answered at first.
LEMMA PartsBegin == Init => Parts
    BY DEF Init, DInit, Parts, NoPart, Answers, MergedWhole

\* An answer kept is the subtask's own, and disturbs no other's.
LEMMA PartKept ==
    ASSUME Parts, stage \in {"part", "again"}, NEW mode, NEW a \in Answers,
           Keeps(mode, a), plan' = plan
    PROVE  Parts'
<1>1. plan \in Seq(Ids) /\ at \in 1..Len(plan) /\ plan[at] \in Ids /\ at \in Nat /\ Len(plan) \in Nat
    BY DEF Parts
<1>2. parts' = [parts EXCEPT ![plan[at]] = [of |-> at, is |-> a]]
    BY DEF Keeps
<1>3. parts' \in [Ids -> [of : Nat, is : Answers]]
    BY <1>1, <1>2 DEF Parts
<1>4. ASSUME DistinctIds, NEW i \in 1..at PROVE parts'[plan[i]].of = i
  <2>1. i \in 1..Len(plan) /\ plan[i] \in Ids /\ at \in DOMAIN plan /\ i \in DOMAIN plan
    BY <1>1
  <2>2. CASE i = at
    BY <1>1, <1>2, <2>2 DEF Parts
  <2>3. CASE i # at
    <3>1. plan[i] # plan[at]
        BY <1>4, <2>1, <2>3 DEF DistinctIds
    <3>2. i \in 1..at - 1
        BY <1>1, <2>3
    <3>3. parts[plan[i]].of = i
        BY <1>4, <3>2 DEF Parts
    <3> QED BY <1>1, <1>2, <2>1, <3>1, <3>3 DEF Parts
  <2> QED BY <2>2, <2>3
<1>5. DistinctIds' = DistinctIds
    BY DEF DistinctIds
<1>6. CASE stage' = "part" /\ at' = at + 1 /\ path' = path /\ at + 1 <= Len(plan)
  <2>1. path \notin {"forced", "triggered"} /\ at' \in 1..Len(plan) /\ at' - 1 = at
    BY <1>1, <1>6 DEF Parts
  <2> QED BY <1>1, <1>3, <1>4, <1>5, <1>6, <2>1 DEF Parts, MergedWhole
<1>7. CASE stage' = "over" /\ at + 1 > Len(plan)
  <2>1. at = Len(plan)
    BY <1>1, <1>7
  <2>2. DistinctIds => \A i \in DOMAIN plan : parts'[plan[i]].of = i
    BY <1>1, <1>4, <2>1
  <2>3. MergedWhole'
    BY <1>5, <2>2 DEF MergedWhole, Combined
  <2> QED BY <1>3, <1>7, <2>3 DEF Parts
<1>8. CASE stage' = "over" /\ path' = "raised"
    BY <1>3, <1>8 DEF Parts, MergedWhole
<1> QED BY <1>6, <1>7, <1>8 DEF Keeps, TurnsTo

\* Each step of a decomposition.
LEMMA PartSteps == ASSUME Parts, NEW mode, DNext(mode) PROVE Parts'
<1>1. CASE CheapAnswers \/ JudgeAnswers
    BY <1>1 DEF CheapAnswers, JudgeAnswers, Parts, MergedWhole
<1>2. CASE PlanFails(mode)
    BY <1>2 DEF PlanFails, Parts, MergedWhole
<1>3. CASE PlanArrives(mode)
  <2>1. stage = "plan" /\ parts' = parts /\ path \notin {"forced", "triggered"}
    BY <1>3 DEF PlanArrives, Parts
  <2>2. PICK n \in 0..MaxParts : plan' \in [1..n -> Ids]
    BY <1>3 DEF PlanArrives, Plans
  <2>3. n \in Nat /\ plan' \in Seq(Ids) /\ Len(plan') = n
    BY <2>2, ChatReplyAssumption
  <2>4. CASE stage' = "over" /\ 1 > Len(plan')
    <3>1. DOMAIN plan' = {}
        BY <2>3, <2>4
    <3> QED BY <2>1, <2>4, <3>1 DEF Parts, MergedWhole
  <2>5. CASE stage' = "part" /\ at' = 1 /\ path' = path /\ 1 <= Len(plan')
    <3>1. 1 \in 1..Len(plan') /\ 1..1 - 1 = {}
        BY <2>3, <2>5
    <3> QED BY <2>1, <2>3, <2>5, <3>1 DEF Parts, MergedWhole
  <2>6. CASE stage' = "over" /\ path' = "raised"
    BY <2>1, <2>6 DEF Parts, MergedWhole
  <2> QED BY <1>3, <2>4, <2>5, <2>6 DEF PlanArrives, TurnsTo
<1>4. CASE PartAnswers(mode)
  <2>1. CASE Keeps(mode, "text")
    BY <1>4, <2>1, PartKept DEF PartAnswers, Answers
  <2>2. CASE stage' = "again" /\ UNCHANGED <<at, parts, path>>
    BY <1>4, <2>2 DEF PartAnswers, Parts, MergedWhole, DistinctIds
  <2> QED BY <1>4, <2>1, <2>2 DEF PartAnswers
<1>5. CASE AgainAnswers(mode)
    BY <1>5, PartKept DEF AgainAnswers
<1> QED BY <1>1, <1>2, <1>3, <1>4, <1>5 DEF DNext

\* Only a decomposition touches the parts.
LEMMA PartsKeep == ASSUME Parts, [Next]_vars PROVE Parts'
<1>1. CASE Admits
    BY <1>1 DEF Admits, BeginsDecompose, FirstStage, Parts, MergedWhole
<1>2. CASE DecomposeStep
    BY <1>2, PartSteps DEF DecomposeStep
<1>3. ASSUME UNCHANGED dvars PROVE Parts'
    BY <1>3 DEF dvars, Parts, MergedWhole, DistinctIds, Combined
<1>4. CASE RefusesBody \/ ReadsChunk \/ BodyEnds \/ BodyCut
    BY <1>3, <1>4 DEF RefusesBody, ReadsChunk, BodyEnds, BodyCut, KeepsBody
<1>5. CASE CacheHits \/ CapHit \/ Selects \/ Routed \/ Replies \/ ImageChecked \/ ImageAnswers
    BY <1>3, <1>5 DEF CacheHits, CapHit, Selects, Routed, Replies, ImageChecked, ImageAnswers
<1>6. ASSUME NEW k \in Kinds, Delta(k) \/ FallbackDelta(k) PROVE Parts'
    BY <1>3, <1>6 DEF Delta, FallbackDelta, KeepsStream
<1>7. CASE Says1 \/ StreamEnds \/ FallbackEnds \/ StreamFails \/ FallbackFails \/ Bills \/ Cancelled
    BY <1>3, <1>7 DEF Says1, StreamEnds, FallbackEnds, StreamFails, FallbackFails, Bills, Cancelled, KeepsStream
<1>8. CASE HangsUp
    BY <1>3, <1>8 DEF HangsUp
<1>9. CASE UNCHANGED vars
    BY <1>3, <1>9 DEF vars
<1> QED BY <1>1, <1>2, <1>4, <1>5, <1>6, <1>7, <1>8, <1>9 DEF Next

\* A merged answer has the answer to each subtask at its place, provided the
\* planner named the subtasks apart (routing_decompose.py).
THEOREM MergedAnswersWhole == Spec => []MergedWhole
<1>1. Parts /\ [Next]_vars => Parts'
    BY PartsKeep
<1>2. Parts => MergedWhole
    BY DEF Parts
<1> QED BY <1>1, <1>2, PartsBegin, PTL DEF Spec
-----------------------------------------------------------------------------
(* Loops *)

\* Of finite sets there is a smallest: one that has no other within it.
LEMMA SmallestExists ==
    ASSUME NEW S, IsFiniteSet(S), NEW F, F \subseteq SUBSET S, F # {}
    PROVE  \E T \in F : \A U \in F : U \subseteq T => U = T
<1>1. F \subseteq FiniteSubsetsOf(S)
    BY FS_Subset DEF FiniteSubsetsOf
<1>2. PICK T \in F : \A U \in F : ~(<<U, T>> \in StrictSubsetOrdering(S))
    BY <1>1, FS_StrictSubsetOrderingWellFounded, WFMin
<1>3. ASSUME NEW U \in F, U \subseteq T, U # T PROVE FALSE
    BY <1>2, <1>3 DEF StrictSubsetOrdering
<1> QED BY <1>3

\* A set of naturals that is not empty has a least member.
LEMMA LeastExists ==
    ASSUME NEW S, S \subseteq Nat, S # {}
    PROVE  \E n \in S : \A m \in S : n <= m
<1>1. PICK k \in S : TRUE
    OBVIOUS
<1> DEFINE F == {0..n : n \in S \cap 0..k}
           upTo == 0..k
<1>2. PICK T \in F : \A U \in F : U \subseteq T => U = T
  <2>1. IsFiniteSet(upTo)
    BY FS_Interval
  <2>2. F \subseteq SUBSET upTo /\ F # {}
    BY <1>1
  <2> HIDE DEF F, upTo
  <2> QED BY ONLY <2>1, <2>2, SmallestExists
<1>3. PICK n \in S \cap 0..k : T = 0..n
    BY <1>2
<1>4. ASSUME NEW m \in S, m < n PROVE FALSE
  <2>1. 0..m \in F
    BY <1>3, <1>4
  <2>2. 0..m \subseteq 0..n /\ n \in 0..n /\ n \notin 0..m
    BY <1>3, <1>4
  <2> QED BY <1>2, <1>3, <2>1, <2>2
<1> QED BY <1>3, <1>4

\* A loop over 1..n whose step keeps to a set runs to its end, and stays there.
IsLoop(n, T, s0, step) == n \in Nat /\ s0 \in T /\ step \in [T \X (1..n) -> T]
LoopDone(n, T, s0, step, t) ==
    /\ t \in [0..n -> T] /\ t[0] = s0
    /\ \A i \in 1..n : t[i] = step[<<t[i - 1], i>>]

\* By the smallest number of rounds that a loop could not make.
LEMMA LoopRuns ==
    ASSUME NEW n, NEW T, NEW s0, NEW step, IsLoop(n, T, s0, step)
    PROVE  \E t : LoopDone(n, T, s0, step, t)
<1> USE DEF IsLoop
<1> DEFINE Runs(k, t) == LoopDone(k, T, s0, step, t)
           Bad == {k \in 0..n : ~\E t : Runs(k, t)}
<1> SUFFICES ASSUME Bad # {} PROVE FALSE
  <2>1. n \notin Bad
    OBVIOUS
  <2> QED BY <2>1
<1>1. PICK k \in Bad : \A m \in Bad : k <= m
  <2>1. Bad \subseteq Nat
    OBVIOUS
  <2> HIDE DEF Bad
  <2> QED BY <2>1, LeastExists
<1>2. CASE k = 0
  <2>1. Runs(0, [i \in 0..0 |-> s0])
    BY DEF LoopDone
  <2> QED BY <1>1, <1>2, <2>1
<1>3. CASE k > 0
  <2>1. k \in 1..n
    BY <1>1, <1>3
  <2> HIDE DEF Bad
  <2>5. k - 1 \notin Bad
    BY <1>1, <2>1
  <2> USE DEF Bad
  <2>2. PICK t : Runs(k - 1, t)
    BY <2>1, <2>5
  <2> DEFINE u == [i \in 0..k |-> IF i = k THEN step[<<t[k - 1], k>>] ELSE t[i]]
  <2>3. step[<<t[k - 1], k>>] \in T
    BY <2>1, <2>2 DEF LoopDone
  <2>4. Runs(k, u)
    <3>1. u \in [0..k -> T] /\ u[0] = s0
        BY <2>1, <2>2, <2>3 DEF LoopDone
    <3>2. ASSUME NEW i \in 1..k PROVE u[i] = step[<<u[i - 1], i>>]
      <4>1. CASE i = k
        <5>1. u[i - 1] = t[k - 1] /\ u[i] = step[<<t[k - 1], k>>]
            BY <2>1, <4>1
        <5> QED BY <4>1, <5>1
      <4>2. CASE i # k
          BY <2>1, <2>2, <4>2 DEF LoopDone
      <4> QED BY <4>1, <4>2
    <3> HIDE DEF u
    <3> QED BY <3>1, <3>2 DEF LoopDone
  <2> QED BY <1>1, <2>4
<1> QED BY <1>1, <1>2, <1>3

-----------------------------------------------------------------------------
(* What is shown of a text *)

Nothing == [out |-> <<>>, mode |-> "show"]
Views == [out : Seq(Workers), mode : {"show", "think", "cut"}]

\* A delta adds one token to what is shown, or none.
LEMMA ShowsType ==
    ASSUME NEW v \in Views, NEW d \in Token
    PROVE  /\ Shows(v, d) \in Views
           /\ Shows(v, d).out = v.out \/ Shows(v, d).out = Append(v.out, d.by)
<1>1. v.out \in Seq(Workers) /\ d.by \in Workers /\ d.kind \in Kinds
    BY DEF Views, Token
<1>2. Append(v.out, d.by) \in Seq(Workers)
    BY <1>1
<1>3. \/ Shows(v, d) = [v EXCEPT !.out = Append(v.out, d.by)]
      \/ \E m \in {"show", "think", "cut"} : Shows(v, d) = [v EXCEPT !.mode = m]
      \/ Shows(v, d) = v
    BY <1>1 DEF Shows, Kinds, Views
<1> QED BY <1>1, <1>2, <1>3 DEF Views

\* Two loops that begin alike and take the same steps agree.
Alike(a, n, t, u) ==
    /\ t[a] = u[a]
    /\ \A i \in a..n : i # a /\ t[i - 1] = u[i - 1] => t[i] = u[i]

LEMMA LoopsAgree ==
    ASSUME NEW n \in Nat, NEW a \in 0..n, NEW t, NEW u, Alike(a, n, t, u)
    PROVE  \A i \in a..n : t[i] = u[i]
<1> DEFINE Bad == {i \in a..n : t[i] # u[i]}
<1> SUFFICES ASSUME Bad # {} PROVE FALSE
    OBVIOUS
<1>1. PICK k \in Bad : \A m \in Bad : k <= m
  <2>1. Bad \subseteq Nat
    OBVIOUS
  <2> HIDE DEF Bad
  <2> QED BY <2>1, LeastExists
<1>2. k \in a..n /\ k # a /\ k - 1 \in a..n /\ k - 1 \notin Bad
  <2>1. k \in a..n /\ k # a /\ k - 1 \in a..n /\ ~(k <= k - 1)
    BY <1>1 DEF Alike
  <2> HIDE DEF Bad
  <2> QED BY <1>1, <2>1
<1>3. t[k - 1] = u[k - 1]
    BY <1>2
<1> QED BY <1>1, <1>2, <1>3 DEF Alike

\* The views of the prefixes of a text.
Viewed(s, f) ==
    /\ f \in [0..Len(s) -> Views] /\ f[0] = Nothing
    /\ \A i \in 1..Len(s) : f[i] = Shows(f[i - 1], s[i])

LEMMA ViewRuns ==
    ASSUME NEW s \in Seq(Token)
    PROVE  \E f : Viewed(s, f) /\ View(s) = f[Len(s)]
<1> DEFINE n == Len(s)
           Accs(f) == f = [i \in 0..n |-> IF i = 0 THEN Nothing ELSE Shows(f[i - 1], s[i])]
           acc == CHOOSE f : Accs(f)
           step == [vi \in Views \X (1..n) |-> Shows(vi[1], s[vi[2]])]
<1>1. n \in Nat /\ \A i \in 1..n : s[i] \in Token
    OBVIOUS
<1>2. Nothing \in Views
    BY DEF Nothing, Views
<1>3. PICK t : /\ t \in [0..n -> Views] /\ t[0] = Nothing
               /\ \A i \in 1..n : t[i] = step[<<t[i - 1], i>>]
  <2>1. step \in [Views \X (1..n) -> Views]
    BY <1>1, ShowsType
  <2> HIDE DEF step, n
  <2>2. IsLoop(n, Views, Nothing, step)
    BY <1>1, <1>2, <2>1 DEF IsLoop
  <2>3. \E t : LoopDone(n, Views, Nothing, step, t)
    BY ONLY <2>2, LoopRuns
  <2> QED BY ONLY <2>3 DEF LoopDone
<1> HIDE DEF n
<1>4. ASSUME NEW i \in 1..n PROVE t[i] = Shows(t[i - 1], s[i])
  <2>1. t[i - 1] \in Views
    BY <1>1, <1>3
  <2>2. step[<<t[i - 1], i>>] = Shows(t[i - 1], s[i])
    BY <2>1
  <2> QED BY <1>3, <2>2
<1>5. Accs(t)
  <2>1. ASSUME NEW i \in 0..n PROVE t[i] = IF i = 0 THEN Nothing ELSE Shows(t[i - 1], s[i])
    <3>1. i = 0 \/ i \in 1..n
        BY <1>1
    <3> QED BY <1>3, <1>4, <3>1
  <2> QED BY <1>3, <2>1
<1>6. Accs(acc)
  <2> HIDE DEF Accs
  <2> QED BY <1>5
<1>7. View(s) = acc[n]
    BY DEF View, Nothing, n
<1> HIDE DEF acc
<1>8. \A i \in 0..n : acc[i] = t[i]
  <2>1. /\ acc[0] = t[0]
        /\ \A i \in 0..n : i # 0 /\ acc[i - 1] = t[i - 1] => acc[i] = t[i]
    BY <1>1, <1>3, <1>4, <1>6
  <2>2. Alike(0, n, acc, t) /\ 0 \in 0..n /\ n \in Nat
    BY <1>1, <2>1 DEF Alike
  <2> QED BY <2>2, LoopsAgree
<1> QED BY <1>1, <1>3, <1>4, <1>7, <1>8 DEF Viewed, n

\* Of no text nothing is shown.
LEMMA ViewOfNothing == View(<<>>) = Nothing /\ Visible(<<>>) = <<>>
<1>1. <<>> \in Seq(Token) /\ Len(<<>>) = 0
    OBVIOUS
<1>2. PICK f : Viewed(<<>>, f) /\ View(<<>>) = f[Len(<<>>)]
    BY <1>1, ViewRuns
<1>3. View(<<>>) = Nothing
    BY <1>1, <1>2 DEF Viewed
<1> QED BY <1>3 DEF Visible, Nothing

\* What a delta adds is what it shows after the text before it.
LEMMA ViewGrows ==
    ASSUME NEW s \in Seq(Token), NEW d \in Token
    PROVE  View(Append(s, d)) = Shows(View(s), d) /\ View(s) \in Views
<1> DEFINE n == Len(s)
           s1 == Append(s, d)
<1>1. /\ n \in Nat /\ s1 \in Seq(Token) /\ Len(s1) = n + 1 /\ s1[n + 1] = d
      /\ \A i \in 1..n : s1[i] = s[i]
    OBVIOUS
<1>2. PICK f : Viewed(s, f) /\ View(s) = f[n]
    BY ViewRuns
<1>3. PICK g : Viewed(s1, g) /\ View(s1) = g[n + 1]
    BY <1>1, ViewRuns
<1> HIDE DEF n, s1
<1>4. \A i \in 0..n : f[i] = g[i]
  <2>1. f[0] = g[0]
    BY <1>2, <1>3 DEF Viewed
  <2>2. ASSUME NEW i \in 0..n, i # 0, f[i - 1] = g[i - 1] PROVE f[i] = g[i]
    <3>1. i \in 1..n /\ i \in 1..Len(s1) /\ s1[i] = s[i]
        BY <1>1, <2>2
    <3>2. f[i] = Shows(f[i - 1], s[i]) /\ g[i] = Shows(g[i - 1], s1[i])
        BY <1>2, <1>3, <3>1 DEF Viewed, n
    <3> QED BY <2>2, <3>1, <3>2
  <2>3. Alike(0, n, f, g) /\ 0 \in 0..n
    BY <1>1, <2>1, <2>2 DEF Alike
  <2> QED BY <1>1, <2>3, LoopsAgree
<1>5. g[n + 1] = Shows(g[(n + 1) - 1], s1[n + 1]) /\ (n + 1) - 1 = n
    BY <1>1, <1>3 DEF Viewed
<1>6. f[n] \in Views
    BY <1>1, <1>2 DEF Viewed, n
<1> QED BY <1>1, <1>2, <1>3, <1>4, <1>5, <1>6 DEF s1

\* What is shown are tokens of the text.
LEMMA VisibleType ==
    ASSUME NEW s \in Seq(Token)
    PROVE  Visible(s) \in Seq(Workers) /\ Len(Visible(s)) <= Len(s)
<1>1. PICK f : Viewed(s, f) /\ View(s) = f[Len(s)]
    BY ViewRuns
<1> DEFINE n == Len(s)
           Bad == {i \in 0..n : ~(Len(f[i].out) <= i)}
<1>2. n \in Nat /\ \A i \in 1..n : s[i] \in Token
    OBVIOUS
<1>3. f \in [0..n -> Views] /\ f[0] = Nothing /\ \A i \in 1..n : f[i] = Shows(f[i - 1], s[i])
    BY <1>1 DEF Viewed
<1> HIDE DEF n
<1>4. Bad = {}
  <2> SUFFICES ASSUME Bad # {} PROVE FALSE
    OBVIOUS
  <2>1. PICK k \in Bad : \A m \in Bad : k <= m
    <3>1. Bad \subseteq Nat
        BY <1>2
    <3> HIDE DEF Bad
    <3> QED BY <3>1, LeastExists
  <2>2. k \in 1..n
    <3>1. Len(f[0].out) = 0
        BY <1>3 DEF Nothing
    <3> QED BY <1>2, <2>1, <3>1
  <2>3. k - 1 \in 0..n /\ k - 1 \notin Bad
    <3>1. k - 1 \in 0..n /\ ~(k <= k - 1)
        BY <1>2, <2>2
    <3> HIDE DEF Bad
    <3> QED BY <2>1, <3>1
  <2>4. f[k - 1] \in Views /\ s[k] \in Token /\ Len(f[k - 1].out) <= k - 1
    BY <1>2, <1>3, <2>2, <2>3
  <2>5. f[k].out = f[k - 1].out \/ f[k].out = Append(f[k - 1].out, s[k].by)
    BY <1>3, <2>2, <2>4, ShowsType
  <2>6. f[k - 1].out \in Seq(Workers) /\ s[k].by \in Workers
    BY <2>4 DEF Views, Token
  <2>7. Len(f[k].out) <= k
    BY <2>2, <2>4, <2>5, <2>6
  <2> QED BY <2>1, <2>7
<1>5. f[n] \in Views /\ Len(f[n].out) <= n
    BY <1>2, <1>3, <1>4
<1> QED BY <1>1, <1>5 DEF Visible, Views, n

-----------------------------------------------------------------------------
(* The text of frames *)

\* One member more.
LEMMA Appended ==
    ASSUME NEW X, NEW s \in Seq(X), NEW x \in X
    PROVE  /\ Len(s) \in Nat /\ DOMAIN s = 1..Len(s) /\ Append(s, x) # <<>>
           /\ Append(s, x) \in Seq(X) /\ Len(Append(s, x)) = Len(s) + 1
           /\ Append(s, x)[Len(s) + 1] = x
           /\ \A i \in 1..Len(s) : s[i] \in X /\ Append(s, x)[i] = s[i]
    OBVIOUS

\* The texts that the prefixes of n texts make.
Flat(n, ss, X, f) ==
    /\ f \in [1..n -> Seq(X)] /\ f[1] = ss[1]
    /\ \A i \in 1..n : i # 1 => f[i] = f[i - 1] \o ss[i]

LEMMA FlattenRuns ==
    ASSUME NEW X, NEW n \in Nat \ {0}, NEW ss, Len(ss) = n, \A i \in 1..n : ss[i] \in Seq(X)
    PROVE  \E f : Flat(n, ss, X, f) /\ FlattenSeq(ss) = f[n]
<1> DEFINE T == Seq(X)
           Accs(f) == f = [i \in 1..n |-> IF i = 1 THEN ss[i] ELSE f[i - 1] \o ss[i]]
           acc == CHOOSE f : Accs(f)
           step == [vi \in T \X (1..n) |-> vi[1] \o ss[vi[2]]]
<1>1. /\ <<>> \in T /\ \A i \in 1..n : ss[i] \in T
      /\ \A a, b \in T : a \o b \in T
      /\ \A a \in T : <<>> \o a = a
    OBVIOUS
<1> HIDE DEF T
<1>2. PICK t : /\ t \in [0..n -> T] /\ t[0] = <<>>
               /\ \A i \in 1..n : t[i] = step[<<t[i - 1], i>>]
  <2>1. step \in [T \X (1..n) -> T]
    BY <1>1
  <2> HIDE DEF step
  <2>2. IsLoop(n, T, <<>>, step)
    BY <1>1, <2>1 DEF IsLoop
  <2>3. \E t : LoopDone(n, T, <<>>, step, t)
    BY ONLY <2>2, LoopRuns
  <2> QED BY ONLY <2>3 DEF LoopDone
<1>3. ASSUME NEW i \in 1..n PROVE t[i] = t[i - 1] \o ss[i] /\ t[i] \in T
  <2>1. t[i - 1] \in T /\ i \in 0..n
    BY <1>2
  <2>2. step[<<t[i - 1], i>>] = t[i - 1] \o ss[i]
    BY <2>1
  <2> QED BY <1>2, <2>1, <2>2
<1>4. t[1] = ss[1]
  <2>1. 1 \in 1..n /\ 1 - 1 = 0
    OBVIOUS
  <2>2. t[1] = t[0] \o ss[1] /\ ss[1] \in T
    BY <1>1, <1>3, <2>1
  <2> QED BY <1>1, <1>2, <2>2
<1> DEFINE u == [i \in 1..n |-> t[i]]
<1>5. u \in [1..n -> T] /\ \A i \in 1..n : u[i] = t[i]
    BY <1>3
<1>6. u[1] = ss[1] /\ \A i \in 1..n : i # 1 => u[i] = u[i - 1] \o ss[i]
  <2> HIDE DEF u
  <2>1. ASSUME NEW i \in 1..n, i # 1 PROVE u[i] = u[i - 1] \o ss[i]
    <3>1. i - 1 \in 1..n
        BY <2>1
    <3>2. t[i] = t[i - 1] \o ss[i]
        BY <1>3
    <3> QED BY <1>5, <3>1, <3>2
  <2> QED BY <1>4, <1>5, <2>1
<1> HIDE DEF u
<1>7. Accs(u)
  <2>1. \A i \in 1..n : u[i] = IF i = 1 THEN ss[i] ELSE u[i - 1] \o ss[i]
    BY <1>6
  <2> QED BY <1>5, <2>1
<1>8. Accs(acc)
  <2> HIDE DEF Accs
  <2> QED BY <1>7
<1>9. FlattenSeq(ss) = acc[n]
    BY DEF FlattenSeq
<1> HIDE DEF acc
<1>10. \A i \in 1..n : acc[i] = u[i]
  <2>0. \A i \in 1..n : acc[i] = IF i = 1 THEN ss[i] ELSE acc[i - 1] \o ss[i]
    BY <1>8
  <2> HIDE DEF Accs
  <2>1. acc[1] = u[1]
    BY <1>6, <2>0
  <2>2. ASSUME NEW i \in 1..n, i # 1, acc[i - 1] = u[i - 1] PROVE acc[i] = u[i]
    <3>1. acc[i] = acc[i - 1] \o ss[i] /\ u[i] = u[i - 1] \o ss[i]
        BY <1>6, <2>0, <2>2
    <3> QED BY <2>2, <3>1
  <2>3. Alike(1, n, acc, u) /\ 1 \in 0..n /\ n \in Nat
    BY <2>1, <2>2 DEF Alike
  <2> QED BY <2>3, LoopsAgree
<1>11. Flat(n, ss, X, u)
    BY <1>5, <1>6 DEF Flat, T
<1> QED BY <1>9, <1>10, <1>11

\* A text more comes after the others.
LEMMA FlattenGrows ==
    ASSUME NEW X, NEW ss \in Seq(Seq(X)), NEW x \in Seq(X)
    PROVE  FlattenSeq(ss) \in Seq(X) /\ FlattenSeq(Append(ss, x)) = FlattenSeq(ss) \o x
<1> DEFINE n == Len(ss)
           s1 == Append(ss, x)
<1>1. /\ n \in Nat /\ Len(s1) = n + 1 /\ s1[n + 1] = x
      /\ \A i \in 1..n : ss[i] \in Seq(X) /\ s1[i] = ss[i]
    BY Appended
<1>2. ss = <<>> <=> n = 0
    OBVIOUS
<1> SUFFICES ASSUME NEW m \in Nat, NEW s, m = n, s = s1
             PROVE  FlattenSeq(ss) \in Seq(X) /\ FlattenSeq(s) = FlattenSeq(ss) \o x
    BY <1>1
<1> HIDE DEF n, s1
<1>3. PICK g : Flat(m + 1, s, X, g) /\ FlattenSeq(s) = g[m + 1]
  <2>1. m + 1 \in Nat \ {0} /\ Len(s) = m + 1
    BY <1>1
  <2>2. \A i \in 1..m + 1 : s[i] \in Seq(X)
    <3>1. \A i \in 1..m + 1 : i = m + 1 \/ i \in 1..m
        OBVIOUS
    <3> QED BY <1>1, <3>1
  <2> QED BY <2>1, <2>2, FlattenRuns
<1>4. CASE m = 0
  <2>1. ss = <<>> /\ FlattenSeq(ss) = <<>>
    BY <1>2, <1>4 DEF FlattenSeq
  <2>2. <<>> \in Seq(X) /\ <<>> \o x = x
    OBVIOUS
  <2>3. g[m + 1] = x
    BY <1>1, <1>3, <1>4 DEF Flat
  <2> QED BY <1>3, <2>1, <2>2, <2>3
<1>5. CASE m # 0
  <2>1. m \in Nat \ {0} /\ Len(ss) = m
    BY <1>1, <1>5 DEF n
  <2>2. PICK f : Flat(m, ss, X, f) /\ FlattenSeq(ss) = f[m]
    BY <1>1, <2>1, FlattenRuns
  <2>3. \A i \in 1..m : f[i] = g[i]
    <3>1. f[1] = g[1]
        BY <1>1, <1>3, <2>1, <2>2 DEF Flat
    <3>2. ASSUME NEW i \in 1..m, i # 1, f[i - 1] = g[i - 1] PROVE f[i] = g[i]
      <4>1. i \in 1..m + 1 /\ s[i] = ss[i]
          BY <1>1
      <4>2. f[i] = f[i - 1] \o ss[i] /\ g[i] = g[i - 1] \o s[i]
          BY <1>3, <2>2, <3>2, <4>1 DEF Flat
      <4> QED BY <3>2, <4>1, <4>2
    <3>3. Alike(1, m, f, g) /\ 1 \in 0..m
        BY <2>1, <3>1, <3>2 DEF Alike
    <3> QED BY <3>3, LoopsAgree
  <2>4. g[m + 1] = g[m] \o x
    <3>1. m + 1 \in 1..m + 1 /\ m + 1 # 1 /\ (m + 1) - 1 = m
        BY <2>1
    <3>2. g[m + 1] = g[(m + 1) - 1] \o s[m + 1]
        BY <1>3, <3>1 DEF Flat
    <3> QED BY <1>1, <3>1, <3>2
  <2>5. m \in 1..m /\ f[m] \in Seq(X)
    BY <2>1, <2>2 DEF Flat
  <2> QED BY <1>3, <2>2, <2>3, <2>4, <2>5
<1> QED BY <1>4, <1>5

\* The text that frames tell, and with one frame more.
Saying(w) == FlattenSeq([i \in DOMAIN w |-> w[i].said])

LEMMA SayingGrows ==
    ASSUME NEW w \in Seq(FrameType), NEW f \in FrameType
    PROVE  Saying(w) \in Seq(Named) /\ Saying(Append(w, f)) = Saying(w) \o f.said
<1> DEFINE w1 == Append(w, f)
           ss == [i \in DOMAIN w |-> w[i].said]
           s1 == [i \in DOMAIN w1 |-> w1[i].said]
<1>1. /\ Len(w) \in Nat /\ DOMAIN w = 1..Len(w) /\ DOMAIN w1 = 1..Len(w) + 1
      /\ w1[Len(w) + 1] = f /\ \A i \in 1..Len(w) : w1[i] = w[i] /\ w[i].said \in Seq(Named)
  <2>1. /\ Len(w) \in Nat /\ DOMAIN w = 1..Len(w) /\ w1 \in Seq(FrameType)
        /\ Len(w1) = Len(w) + 1 /\ w1[Len(w) + 1] = f
        /\ \A i \in 1..Len(w) : w[i] \in FrameType /\ w1[i] = w[i]
    BY Appended
  <2>2. DOMAIN w1 = 1..Len(w) + 1
    BY <2>1
  <2> QED BY <2>1, <2>2 DEF FrameType
<1>2. f.said \in Seq(Named)
    BY DEF FrameType
<1>3. ss \in Seq(Seq(Named)) /\ Len(ss) = Len(w) /\ \A i \in 1..Len(w) : ss[i] = w[i].said
    BY <1>1
<1>4. s1 = Append(ss, f.said)
  <2> DEFINE s2 == Append(ss, f.said)
  <2>1. /\ s2 \in [1..Len(w) + 1 -> Seq(Named)] /\ s2[Len(w) + 1] = f.said
        /\ \A i \in 1..Len(w) : s2[i] = w[i].said
    <3> HIDE DEF ss
    <3>1. /\ s2 \in Seq(Seq(Named)) /\ Len(s2) = Len(ss) + 1 /\ s2[Len(ss) + 1] = f.said
          /\ \A i \in 1..Len(ss) : s2[i] = ss[i]
        BY <1>2, <1>3, Appended
    <3> HIDE DEF s2
    <3>2. s2 \in [1..Len(s2) -> Seq(Named)]
        BY <3>1
    <3> QED BY <1>3, <3>1, <3>2
  <2> HIDE DEF s2, ss, w1
  <2>2. ASSUME NEW i \in 1..Len(w) + 1 PROVE s2[i] = w1[i].said
    <3>1. i = Len(w) + 1 \/ i \in 1..Len(w)
        BY <1>1
    <3> QED BY <1>1, <2>1, <3>1
  <2>3. s2 = [i \in 1..Len(w) + 1 |-> w1[i].said]
    BY <2>1, <2>2
  <2> QED BY <1>1, <2>3 DEF s2
<1> HIDE DEF ss, s1
<1>5. FlattenSeq(ss) \in Seq(Named) /\ FlattenSeq(Append(ss, f.said)) = FlattenSeq(ss) \o f.said
    BY <1>2, <1>3, FlattenGrows
<1> QED BY <1>4, <1>5 DEF Saying, ss, s1

\* No frames tell nothing.
LEMMA SayingNothing == Saying(<<>>) = <<>>
<1> DEFINE ss == [i \in DOMAIN <<>> |-> <<>>[i].said]
<1>1. DOMAIN <<>> = {}
    OBVIOUS
<1>2. ss = <<>>
    BY <1>1
<1>3. FlattenSeq(<<>>) = <<>>
    BY DEF FlattenSeq
<1> HIDE DEF ss
<1>4. FlattenSeq(ss) = <<>>
    BY <1>2, <1>3
<1> QED BY <1>4 DEF Saying, ss

-----------------------------------------------------------------------------
(* The text of a reply *)

\* Frames without text.
Silent(frames) == frames \in Seq(FrameType) /\ \A i \in 1..Len(frames) : frames[i].said = <<>>

\* The chain of a stream, and the worker it is charged to.
Chosen ==
    /\ chain \in Seq(Workers) /\ nth \in 0..Len(chain)
    /\ chain # <<>> => nth # 0 /\ resp.worker \in Workers
    /\ pc \in {"stream", "cascade", "closing"} => chain # <<>>
    /\ billed \in Seq(Workers)

\* How much has been sent is how much is shown, first of what the first worker
\* said and then of what the fallbacks did.
Texts ==
    /\ wire \in Seq(FrameType)
    /\ heard \in Seq(Token) /\ fheard \in Seq(Token)
    /\ emitted = Len(Visible(heard)) /\ femitted = Len(Visible(fheard))
    /\ pc \in Waiting \cup {"say"} => heard = <<>>
    /\ pc \in Waiting \cup {"say", "stream"} => fheard = <<>>
    /\ pc = "closing" => Silent(script)
    /\ TextIsWhole

LEMMA ShownIsSaying == Shown = Saying(wire) /\ Shown' = Saying(wire')
    BY DEF Shown, Saying

\* What is pending after one token more is that token.
LEMMA PendingIs ==
    ASSUME NEW v \in Seq(Workers), NEW x \in Workers, NEW u, u = v \/ u = Append(v, x)
    PROVE  /\ SubSeq(u, Len(v) + 1, Len(u)) \in Seq(Workers)
           /\ v \o SubSeq(u, Len(v) + 1, Len(u)) = u
<1>1. Len(v) \in Nat
    OBVIOUS
<1>2. CASE u = v
  <2>1. SubSeq(v, Len(v) + 1, Len(v)) = <<>>
    BY <1>1
  <2> QED BY <1>2, <2>1
<1>3. CASE u = Append(v, x)
  <2>1. u \in Seq(Workers) /\ Len(u) = Len(v) + 1 /\ u[Len(v) + 1] = x
    BY <1>3
  <2>2. SubSeq(u, Len(v) + 1, Len(v) + 1) = <<x>>
    <3> DEFINE q == SubSeq(u, Len(v) + 1, Len(v) + 1)
    <3>1. q \in Seq(Workers) /\ Len(q) = 1 /\ q[1] = x
        BY <1>1, <2>1
    <3> HIDE DEF q
    <3>2. <<x>> \in Seq(Workers) /\ Len(<<x>>) = 1 /\ <<x>>[1] = x
        OBVIOUS
    <3>3. \A i \in 1..Len(q) : q[i] = <<x>>[i]
        BY <3>1, <3>2
    <3>4. q = <<x>>
        BY <3>1, <3>2, <3>3, SeqEqual
    <3> QED BY <3>4 DEF q
  <2>3. v \o <<x>> = Append(v, x) /\ <<x>> \in Seq(Workers)
    OBVIOUS
  <2> QED BY <1>3, <2>1, <2>2, <2>3
<1> QED BY <1>2, <1>3

\* Text that is sent, if there is any, is told after the rest.
LEMMA SaysTells ==
    ASSUME wire \in Seq(FrameType), NEW said \in Seq(Workers), wire' = Says(said)
    PROVE  wire' \in Seq(FrameType) /\ Saying(wire) \in Seq(Named) /\ Saying(wire') = Saying(wire) \o said
<1>1. TextFrame(said) \in FrameType /\ TextFrame(said).said = said
    BY DEF TextFrame, FrameType, Events, Named
<1>2. Saying(wire) \in Seq(Named) /\ Saying(Append(wire, TextFrame(said))) = Saying(wire) \o said
    BY <1>1, SayingGrows
<1>3. CASE said = <<>>
    BY <1>2, <1>3 DEF Says
<1>4. CASE said # <<>>
    BY <1>1, <1>2, <1>4 DEF Says
<1> QED BY <1>3, <1>4

\* So is a frame without text.
LEMMA SilentTells ==
    ASSUME wire \in Seq(FrameType), NEW f \in FrameType, f.said = <<>>, wire' = Append(wire, f)
    PROVE  Saying(wire') = Saying(wire)
<1>1. Saying(wire) \in Seq(Named) /\ Saying(wire') = Saying(wire) \o <<>>
    BY SayingGrows
<1> QED BY <1>1

\* A delta, of whichever worker: what it adds to the text shown is sent.
LEMMA Heard ==
    ASSUME wire \in Seq(FrameType), NEW text \in Seq(Token), NEW d \in Token,
           wire' = Says(Pending(Append(text, d), Len(Visible(text))))
    PROVE  /\ wire' \in Seq(FrameType) /\ Append(text, d) \in Seq(Token)
           /\ \A before \in Seq(Workers) :
                 Saying(wire) = before \o Visible(text)
                 => Saying(wire') = before \o Visible(Append(text, d))
<1> DEFINE v == Visible(text)
           u == Visible(Append(text, d))
           said == SubSeq(u, Len(v) + 1, Len(u))
<1>1. v \in Seq(Workers) /\ d.by \in Workers /\ (u = v \/ u = Append(v, d.by))
    BY ViewGrows, ShowsType, VisibleType DEF Visible, Token
<1>2. Pending(Append(text, d), Len(Visible(text))) = said
    BY DEF Pending
<1>3. Append(text, d) \in Seq(Token)
    OBVIOUS
<1> HIDE DEF u, v
<1>4. said \in Seq(Workers) /\ v \o said = u
    BY <1>1, PendingIs
<1> HIDE DEF said
<1>5. wire' \in Seq(FrameType) /\ Saying(wire') = Saying(wire) \o said
    BY <1>2, <1>4, SaysTells
<1>6. ASSUME NEW before \in Seq(Workers), Saying(wire) = before \o v
      PROVE  Saying(wire') = before \o u
  <2>1. v \in Seq(Workers) /\ said \in Seq(Workers)
    BY <1>1, <1>4
  <2>2. (before \o v) \o said = before \o (v \o said)
    BY ONLY <2>1, ConcatAssociative
  <2> QED BY <1>4, <1>5, <1>6, <2>2
<1> QED BY <1>3, <1>5, <1>6 DEF u, v

\* Before the first frame there is no text.
LEMMA QuietTexts ==
    ASSUME IInv, Texts, pc \in Waiting, pc' \in Waiting \cup {"sent", "say"},
           UNCHANGED <<wire, heard, emitted, fheard, femitted>>
    PROVE  Texts'
<1>1. wire = <<>> /\ heard = <<>> /\ fheard = <<>>
    BY DEF IInv, Wire, Texts
<1>2. Shown' = <<>>
    BY <1>1, ShownIsSaying, SayingNothing
<1>3. Visible(<<>>) \o Visible(<<>>) = <<>>
    BY ViewOfNothing
<1>4. TextIsWhole'
    BY <1>1, <1>2, <1>3 DEF TextIsWhole
<1> QED BY <1>1, <1>4 DEF Texts, Waiting

\* After the last nothing is added to it.
LEMMA EndTexts ==
    ASSUME Texts, pc' = pc \/ pc' \in Ended,
           UNCHANGED <<req, resp, wire, heard, emitted, fheard, femitted, script>>
    PROVE  Texts'
<1>1. TextIsWhole'
    BY DEF Texts, TextIsWhole, Shown, SelectOnly, InnerStream
<1> QED BY <1>1 DEF Texts, Waiting, Ended

\* What the first worker says is sent as it is shown.
LEMMA DeltaTexts == ASSUME IInv, Chosen, Texts, NEW k \in Kinds, Delta(k) PROVE Texts'
<1> DEFINE d == [by |-> chain[1], kind |-> k]
<1>1. /\ pc = "stream" /\ pc' = "stream" /\ heard' = Append(heard, d)
      /\ wire' = Says(Pending(heard', emitted)) /\ emitted' = Len(Visible(heard'))
      /\ UNCHANGED <<req, resp, fheard, femitted>>
    BY DEF Delta, KeepsStream
<1>2. d \in Token
  <2>1. chain \in Seq(Workers) /\ chain # <<>>
    BY <1>1 DEF Chosen
  <2>2. chain[1] \in Workers
    BY <2>1
  <2> QED BY <2>2 DEF Token
<1> HIDE DEF d
<1>3. /\ wire \in Seq(FrameType) /\ heard \in Seq(Token) /\ fheard = <<>>
      /\ emitted = Len(Visible(heard)) /\ femitted = Len(Visible(fheard))
    BY <1>1 DEF Texts
<1>4. Visible(fheard) = <<>> /\ Visible(heard) \in Seq(Workers) /\ heard' \in Seq(Token)
      /\ Visible(heard') \in Seq(Workers)
  <2>1. heard' \in Seq(Token)
    BY <1>1, <1>2, <1>3
  <2> QED BY <1>3, <2>1, ViewOfNothing, VisibleType
<1>5. wire' = Says(Pending(Append(heard, d), Len(Visible(heard))))
    BY <1>1, <1>3
<1>6. wire' \in Seq(FrameType)
    BY <1>2, <1>3, <1>5, Heard
<1>7. TextIsWhole'
  <2> SUFFICES ASSUME SelectOnly, resp.routed
               PROVE  Shown' = Visible(heard') \o Visible(fheard')
    BY <1>1 DEF TextIsWhole, SelectOnly, InnerStream
  <2>1. Saying(wire) = <<>> \o Visible(heard)
    BY <1>4, ShownIsSaying DEF Texts, TextIsWhole
  <2>2. <<>> \in Seq(Workers)
    OBVIOUS
  <2>3. Saying(wire') = <<>> \o Visible(Append(heard, d))
    BY <1>2, <1>3, <1>5, <2>1, <2>2, Heard
  <2> QED BY <1>1, <1>4, <2>3, ShownIsSaying
<1> QED BY <1>1, <1>3, <1>4, <1>6, <1>7 DEF Texts, Waiting

\* What a fallback says is sent as it is shown, after what the first worker said.
LEMMA FallbackTexts == ASSUME IInv, Chosen, Texts, NEW k \in Kinds, FallbackDelta(k) PROVE Texts'
<1> DEFINE d == [by |-> chain[nth], kind |-> k]
<1>1. /\ pc = "cascade" /\ pc' = "cascade" /\ fheard' = Append(fheard, d)
      /\ wire' = Says(Pending(fheard', femitted)) /\ femitted' = Len(Visible(fheard'))
      /\ UNCHANGED <<req, resp, heard, emitted>>
    BY DEF FallbackDelta, KeepsStream
<1>2. d \in Token
  <2>1. chain \in Seq(Workers) /\ nth \in 1..Len(chain)
    BY <1>1 DEF Chosen
  <2>2. chain[nth] \in Workers
    BY <2>1
  <2> QED BY <2>2 DEF Token
<1> HIDE DEF d
<1>3. /\ wire \in Seq(FrameType) /\ heard \in Seq(Token) /\ fheard \in Seq(Token)
      /\ emitted = Len(Visible(heard)) /\ femitted = Len(Visible(fheard))
    BY DEF Texts
<1>4. wire' = Says(Pending(Append(fheard, d), Len(Visible(fheard))))
    BY <1>1, <1>3
<1>5. wire' \in Seq(FrameType) /\ fheard' \in Seq(Token)
    BY <1>1, <1>2, <1>3, <1>4, Heard
<1>6. TextIsWhole'
  <2> SUFFICES ASSUME SelectOnly, resp.routed
               PROVE  Shown' = Visible(heard') \o Visible(fheard')
    BY <1>1 DEF TextIsWhole, SelectOnly, InnerStream
  <2>1. Saying(wire) = Visible(heard) \o Visible(fheard) /\ Visible(heard) \in Seq(Workers)
    BY <1>3, ShownIsSaying, VisibleType DEF Texts, TextIsWhole
  <2>2. Saying(wire') = Visible(heard) \o Visible(Append(fheard, d))
    BY <1>2, <1>3, <1>4, <2>1, Heard
  <2> QED BY <1>1, <2>2, ShownIsSaying
<1> QED BY <1>1, <1>3, <1>5, <1>6 DEF Texts, Waiting

\* The script of a stream of text has none.
LEMMA ScriptTexts == ASSUME IInv, Chosen, Texts, Says1 PROVE Texts'
<1> DEFINE f == Head(script)
<1>1. /\ pc \in {"say", "closing"} /\ script # <<>> /\ wire' = Append(wire, f) /\ script' = Tail(script)
      /\ pc' \in {pc, "stream", "sent", "cut"} /\ (pc = "closing" => pc' = pc)
      /\ UNCHANGED <<req, resp, chain, heard, emitted, fheard, femitted>>
    BY DEF Says1, KeepsStream
<1>2. f \in FrameType
  <2>1. Sendable(Told, script)
    BY <1>1 DEF IInv, Wire
  <2> QED BY <1>1, <2>1, FewerFrames
<1>3. pc = "closing" => f.said = <<>> /\ Silent(script')
  <2> SUFFICES ASSUME pc = "closing" PROVE f.said = <<>> /\ Silent(script')
    OBVIOUS
  <2>1. script \in Seq(FrameType) /\ \A i \in 1..Len(script) : script[i].said = <<>>
    BY DEF Texts, Silent
  <2>2. /\ script' \in Seq(FrameType) /\ Len(script') = Len(script) - 1 /\ Len(script) \in Nat \ {0}
        /\ \A i \in 1..Len(script') : script'[i] = script[i + 1]
        /\ f = script[1]
    BY <1>1, <2>1
  <2>3. 1 \in 1..Len(script) /\ \A i \in 1..Len(script') : i + 1 \in 1..Len(script)
    BY <2>2
  <2> HIDE DEF f
  <2> QED BY <2>1, <2>2, <2>3 DEF Silent
<1>4. pc = "say" /\ SelectOnly /\ resp.routed => f.said = <<>>
  <2> SUFFICES ASSUME pc = "say", SelectOnly, resp.routed PROVE f.said = <<>>
    OBVIOUS
  <2>1. chain # <<>>
    BY DEF IInv, Charge
  <2>2. script = <<Frame("role")>>
    BY <2>1 DEF IInv, Wire
  <2>3. f = Frame("role")
    BY <2>2
  <2> QED BY <2>3 DEF Frame
<1> HIDE DEF f
<1>5. wire \in Seq(FrameType) /\ wire' \in Seq(FrameType)
  <2>1. wire \in Seq(FrameType)
    BY DEF Texts
  <2> QED BY <1>1, <1>2, <2>1
<1>6. TextIsWhole'
  <2> SUFFICES ASSUME SelectOnly, resp.routed
               PROVE  Shown' = Visible(heard') \o Visible(fheard')
    BY <1>1 DEF TextIsWhole, SelectOnly, InnerStream
  <2>1. f.said = <<>>
    BY <1>1, <1>3, <1>4
  <2>2. Saying(wire') = Saying(wire)
    BY <1>1, <1>2, <1>5, <2>1, SilentTells
  <2>3. Saying(wire) = Visible(heard) \o Visible(fheard)
    BY ShownIsSaying DEF Texts, TextIsWhole
  <2> QED BY <1>1, <2>2, <2>3, ShownIsSaying
<1> QED BY <1>1, <1>3, <1>5, <1>6 DEF Texts, Waiting

\* The frames that close a stream have no text.
LEMMA ClosingSilent == Silent(ClosingScript)
<1>1. ClosingScript \in Seq(FrameType)
    BY ClosingLeads DEF Leads
<1>2. \A ev \in Events : Frame(ev).said = <<>> /\ Frame(ev) \in FrameType
    BY Plain DEF Frame
<1> DEFINE S == {f \in FrameType : f.said = <<>>}
<1>3. <<Frame("stop")>> \in Seq(S) /\ <<Frame("usage")>> \in Seq(S) /\ <<Frame("done")>> \in Seq(S)
  <2>1. Frame("stop") \in S /\ Frame("usage") \in S /\ Frame("done") \in S
    BY <1>2 DEF Events
  <2> HIDE DEF S
  <2> QED BY <2>1
<1> HIDE DEF S
<1>4. ClosingScript \in Seq(S)
  <2>1. UsageFrame \in Seq(S)
    BY <1>3 DEF UsageFrame
  <2> QED BY <1>3, <2>1 DEF ClosingScript
<1>5. \A i \in 1..Len(ClosingScript) : ClosingScript[i] \in S
    BY <1>4
<1> QED BY <1>1, <1>5 DEF Silent, S

\* A stream that ends has nothing left to flush.
LEMMA ClosingTexts == ASSUME IInv, Texts, StreamEnds \/ FallbackEnds PROVE Texts'
<1>1. /\ pc \in {"stream", "cascade"} /\ pc' = "closing" /\ script' = ClosingScript
      /\ UNCHANGED <<req, resp, heard, fheard, femitted>>
    BY DEF StreamEnds, FallbackEnds, KeepsStream
<1>2. wire' = wire /\ emitted' = emitted
  <2>1. CASE FallbackEnds
    BY <2>1 DEF FallbackEnds
  <2>2. CASE StreamEnds
    <3>1. emitted = Len(Visible(heard)) /\ Visible(heard) \in Seq(Workers)
        BY VisibleType DEF Texts
    <3>2. Len(Visible(heard)) \in Nat
        BY <3>1
    <3>3. Pending(heard, emitted) = <<>>
        BY <3>1, <3>2, SubSeqEmpty DEF Pending
    <3>4. wire' = Says(<<>>) /\ emitted' = Len(Visible(heard'))
        BY <2>2, <3>3 DEF StreamEnds
    <3> QED BY <1>1, <3>1, <3>4 DEF Says
  <2> QED BY <2>1, <2>2
<1>3. Silent(script')
    BY <1>1, ClosingSilent DEF ClosingScript, UsageFrame
<1>4. TextIsWhole'
    BY <1>1, <1>2 DEF Texts, TextIsWhole, Shown, SelectOnly, InnerStream
<1> QED BY <1>1, <1>2, <1>3, <1>4 DEF Texts, Waiting

\* Nor does the error event.
LEMMA FailTexts == ASSUME IInv, Texts, StreamFails \/ FallbackFails PROVE Texts'
<1>1. /\ pc \in {"stream", "cascade"} /\ UNCHANGED <<req, resp, heard, emitted, fheard, femitted>>
      /\ \/ pc' = "cascade" /\ wire' = wire
         \/ pc' = "sent" /\ wire' = Append(wire, Frame("error"))
    BY DEF StreamFails, FallbackFails, FallsBack, KeepsStream
<1>2. Frame("error") \in FrameType /\ Frame("error").said = <<>> /\ wire \in Seq(FrameType)
  <2>1. Frame("error") \in FrameType
    BY Plain DEF Events
  <2> QED BY <2>1 DEF Frame, Texts
<1>3. wire' \in Seq(FrameType) /\ Saying(wire') = Saying(wire)
    BY <1>1, <1>2, SilentTells
<1>4. TextIsWhole'
    BY <1>1, <1>3, ShownIsSaying DEF Texts, TextIsWhole, SelectOnly, InnerStream
<1> QED BY <1>1, <1>3, <1>4 DEF Texts, Waiting

-----------------------------------------------------------------------------
(* Types *)

\* The workers of a chain that are not cooling are workers.
LEMMA WarmType ==
    ASSUME NEW c \in Seq(Workers), NEW cooling PROVE Warm(c, cooling) \in Seq(Workers)
<1> DEFINE n == Len(c)
           Adds(v, i) == IF c[i] \in cooling THEN v ELSE Append(v, c[i])
           Accs(f) == f = [i \in 0..n |->
                               IF i = 0 THEN <<>>
                               ELSE IF c[i] \in cooling THEN f[i - 1] ELSE Append(f[i - 1], c[i])]
           acc == CHOOSE f : Accs(f)
           step == [vi \in Seq(Workers) \X (1..n) |-> Adds(vi[1], vi[2])]
<1>1. /\ n \in Nat /\ <<>> \in Seq(Workers)
      /\ \A v \in Seq(Workers) : \A i \in 1..n : Adds(v, i) \in Seq(Workers)
    OBVIOUS
<1> HIDE DEF n, Adds
<1>2. PICK t : /\ t \in [0..n -> Seq(Workers)] /\ t[0] = <<>>
               /\ \A i \in 1..n : t[i] = step[<<t[i - 1], i>>]
  <2>1. step \in [Seq(Workers) \X (1..n) -> Seq(Workers)]
    BY <1>1
  <2> HIDE DEF step
  <2>2. IsLoop(n, Seq(Workers), <<>>, step)
    BY <1>1, <2>1 DEF IsLoop
  <2>3. \E t : LoopDone(n, Seq(Workers), <<>>, step, t)
    BY ONLY <2>2, LoopRuns
  <2> QED BY ONLY <2>3 DEF LoopDone
<1>3. ASSUME NEW i \in 1..n PROVE t[i] = Adds(t[i - 1], i)
  <2>1. t[i - 1] \in Seq(Workers)
    BY <1>1, <1>2
  <2>2. step[<<t[i - 1], i>>] = Adds(t[i - 1], i)
    BY <2>1
  <2> QED BY <1>2, <2>2
<1>4. Accs(t)
  <2>1. ASSUME NEW i \in 0..n
        PROVE  t[i] = IF i = 0 THEN <<>>
                      ELSE IF c[i] \in cooling THEN t[i - 1] ELSE Append(t[i - 1], c[i])
    <3>1. i = 0 \/ i \in 1..n
        BY <1>1
    <3> QED BY <1>2, <1>3, <3>1 DEF Adds
  <2> QED BY <1>2, <2>1
<1>5. Accs(acc)
  <2> HIDE DEF Accs
  <2> QED BY <1>4
<1>6. Warm(c, cooling) = acc[n]
    BY DEF Warm, n
<1> HIDE DEF acc
<1>7. \A i \in 0..n : acc[i] = t[i]
  <2>1. acc[0] = t[0]
    BY <1>1, <1>2, <1>5
  <2>2. ASSUME NEW i \in 0..n, i # 0, acc[i - 1] = t[i - 1] PROVE acc[i] = t[i]
    <3>1. i \in 1..n
        BY <1>1, <2>2
    <3>2. acc[i] = Adds(acc[i - 1], i) /\ t[i] = Adds(t[i - 1], i)
        BY <1>3, <1>5, <2>2, <3>1 DEF Adds
    <3> QED BY <2>2, <3>2
  <2>3. Alike(0, n, acc, t) /\ 0 \in 0..n
    BY <1>1, <2>1, <2>2 DEF Alike
  <2> QED BY <1>1, <2>3, LoopsAgree
<1> HIDE DEF step, Accs
<1>8. n \in 0..n /\ acc[n] = t[n] /\ t[n] \in Seq(Workers)
    BY <1>1, <1>2, <1>7
<1> QED BY <1>6, <1>8

\* The worker that a stream is charged to is chosen with its chain.
LEMMA SelectChosen == ASSUME Chosen, Selects PROVE Chosen'
<1>1. PICK c \in Chains, cooling \in SUBSET Workers :
        /\ chain' = IF Warm(c, cooling) = <<>> THEN <<c[1]>> ELSE Warm(c, cooling)
        /\ resp' = [worker |-> c[1], kind |-> "deferred", routed |-> TRUE]
    BY DEF Selects
<1>2. nth' = 1 /\ billed' = billed
    BY DEF Selects
<1>3. c \in Seq(Workers) /\ c[1] \in Workers
    BY ChatReplyAssumption
<1>4. chain' \in Seq(Workers) /\ chain' # <<>>
  <2>1. <<c[1]>> \in Seq(Workers) /\ <<c[1]>> # <<>>
    BY <1>3
  <2>2. Warm(c, cooling) \in Seq(Workers)
    BY <1>3, WarmType
  <2> QED BY <1>1, <2>1, <2>2
<1>5. 1 \in 0..Len(chain')
    BY <1>4
<1> QED BY <1>1, <1>2, <1>3, <1>4, <1>5 DEF Chosen

\* Every step keeps to the chain.
LEMMA ChosenKeeps == ASSUME IInv, Chosen, [Next]_vars PROVE Chosen'
<1>1. ASSUME pc \in Waiting, pc' \in Waiting \cup {"sent", "say"},
             UNCHANGED <<chain, nth>>, billed' \in Seq(Workers)
      PROVE  Chosen'
  <2>1. chain = <<>>
    BY <1>1 DEF IInv, Wire
  <2> QED BY <1>1, <2>1 DEF Chosen, Waiting
<1>2. ASSUME UNCHANGED <<chain, nth, resp, billed>>, pc' \in Ended \/ pc' = pc
      PROVE  Chosen'
    BY <1>2 DEF Chosen, Ended
<1>3. CASE RefusesBody \/ ReadsChunk \/ BodyEnds \/ BodyCut
  <2>1. pc \in Waiting /\ pc' \in Waiting \cup {"sent"} /\ UNCHANGED <<chain, nth, billed>>
    BY <1>3 DEF RefusesBody, ReadsChunk, BodyEnds, BodyCut, KeepsBody, Sends, Waiting
  <2> QED BY <1>1, <2>1 DEF Chosen
<1>4. CASE CacheHits \/ CapHit \/ Admits \/ DecomposeStep \/ ImageChecked \/ ImageAnswers \/ Replies
  <2>1. pc \in Waiting /\ pc' \in Waiting \cup {"sent", "say"} /\ UNCHANGED <<chain, nth, billed>>
    BY <1>4 DEF CacheHits, CapHit, Admits, DecomposeStep, AfterDecompose, ImageChecked,
                ImageAnswers, Replies, KeepsReply, Sends, Waiting
  <2> QED BY <1>1, <2>1 DEF Chosen
<1>5. CASE Routed
  <2>1. PICK w \in Workers : billed' = billed \/ billed' = Append(billed, w)
    BY <1>5 DEF Routed
  <2>2. billed' \in Seq(Workers)
    BY <2>1 DEF Chosen
  <2>3. pc = "route" /\ pc' = "reply" /\ UNCHANGED <<chain, nth>>
    BY <1>5 DEF Routed, KeepsReply
  <2> QED BY <1>1, <2>2, <2>3 DEF Waiting
<1>6. CASE Selects
    BY <1>6, SelectChosen
<1>7. CASE Says1
  <2>1. /\ UNCHANGED <<chain, nth, resp, billed>> /\ pc \in {"say", "closing"}
        /\ pc' = pc \/ (pc' = "stream" /\ chain # <<>>) \/ pc' \in {"sent", "cut"}
    BY <1>7 DEF Says1, KeepsStream
  <2> QED BY <2>1 DEF Chosen
<1>8. ASSUME NEW k \in Kinds, Delta(k) \/ FallbackDelta(k) PROVE Chosen'
    BY <1>2, <1>8 DEF Delta, FallbackDelta, KeepsStream
<1>9. CASE StreamEnds \/ FallbackEnds
    BY <1>9 DEF StreamEnds, FallbackEnds, KeepsStream, Chosen
<1>10. CASE StreamFails \/ FallbackFails
  <2>1. /\ pc \in {"stream", "cascade"} /\ UNCHANGED <<chain, resp, billed>>
        /\ \/ pc' = "cascade" /\ nth < Len(chain) /\ nth' = nth + 1
           \/ pc' = "sent" /\ nth' = nth
    BY <1>10 DEF StreamFails, FallbackFails, FallsBack, KeepsStream
  <2>2. Len(chain) \in Nat /\ nth \in 0..Len(chain)
    BY DEF Chosen
  <2>3. nth' \in 0..Len(chain) /\ (nth # 0 => nth' # 0)
    BY <2>1, <2>2
  <2> QED BY <2>1, <2>3 DEF Chosen
<1>11. CASE Bills
  <2>1. /\ pc = "closing" /\ pc' = "sent" /\ UNCHANGED <<chain, nth, resp>>
        /\ billed' = IF Full # <<>> THEN Append(billed, resp.worker) ELSE billed
    BY <1>11 DEF Bills, KeepsStream
  <2>2. billed' \in Seq(Workers)
    BY <2>1 DEF Chosen
  <2> QED BY <2>1, <2>2 DEF Chosen
<1>12. CASE HangsUp \/ Cancelled
    BY <1>2, <1>12 DEF HangsUp, Cancelled, KeepsStream, Ended
<1>13. CASE UNCHANGED vars
    BY <1>2, <1>13 DEF vars, rvars
<1> QED BY <1>3, <1>4, <1>5, <1>6, <1>7, <1>8, <1>9, <1>10, <1>11, <1>12, <1>13 DEF Next

\* Every step tells the text as it is shown.
LEMMA TextsKeep == ASSUME IInv, Chosen, Texts, [Next]_vars PROVE Texts'
<1>1. CASE RefusesBody \/ ReadsChunk \/ BodyEnds \/ BodyCut
  <2>1. /\ pc \in Waiting /\ pc' \in Waiting \cup {"sent"}
        /\ UNCHANGED <<wire, heard, emitted, fheard, femitted>>
    BY <1>1 DEF RefusesBody, ReadsChunk, BodyEnds, BodyCut, KeepsBody, Sends, Waiting
  <2> QED BY <2>1, QuietTexts
<1>2. CASE CacheHits \/ CapHit \/ Admits \/ DecomposeStep \/ ImageChecked \/ ImageAnswers
           \/ Selects \/ Routed \/ Replies
  <2>1. /\ pc \in Waiting /\ pc' \in Waiting \cup {"sent", "say"}
        /\ UNCHANGED <<wire, heard, emitted, fheard, femitted>>
    BY <1>2 DEF CacheHits, CapHit, Admits, DecomposeStep, AfterDecompose, ImageChecked,
                ImageAnswers, Selects, Routed, Replies, KeepsReply, Sends, Waiting
  <2> QED BY <2>1, QuietTexts
<1>3. CASE Bills \/ HangsUp \/ Cancelled \/ UNCHANGED vars
  <2>1. /\ pc' = pc \/ pc' \in Ended
        /\ UNCHANGED <<req, resp, wire, heard, emitted, fheard, femitted, script>>
    BY <1>3 DEF Bills, HangsUp, Cancelled, KeepsStream, vars, rvars, Ended
  <2> QED BY <2>1, EndTexts
<1> QED BY <1>1, <1>2, <1>3, ScriptTexts, DeltaTexts, FallbackTexts, ClosingTexts, FailTexts DEF Next

\* What the text does not depend on: the body, the status, the decomposition.
Rest ==
    /\ DTypeOK
    /\ got \in 0..MaxBody + 1
    /\ status \in {0, 200, 400, 413, 429, 499, 500, 502, 503}
    /\ gone \in BOOLEAN /\ stored \in BOOLEAN

\* A part is kept under one of the planner's ids.
LEMMA KeepTypes ==
    ASSUME DTypeOK, Parts, stage \in {"part", "again"}, NEW mode, NEW a \in Answers,
           Keeps(mode, a), UNCHANGED <<cheap, plan>>
    PROVE  DTypeOK'
<1>1. PICK n \in 0..MaxParts : plan \in [1..n -> Ids]
    BY DEF DTypeOK, Plans
<1>2. n \in Nat /\ MaxParts \in Nat /\ Len(plan) = n /\ at \in 1..n
    BY <1>1, ChatReplyAssumption DEF Parts
<1>3. at \in 0..MaxParts /\ at + 1 \in Nat /\ (at + 1 <= Len(plan) => at + 1 \in 0..MaxParts)
    BY <1>2
<1>4. [of |-> at, is |-> a] \in [of : 0..MaxParts, is : Answers]
    BY <1>3
<1>5. parts' \in [Ids -> [of : 0..MaxParts, is : Answers]]
    BY <1>4 DEF Keeps, DTypeOK
<1> QED BY <1>3, <1>5 DEF Keeps, TurnsTo, DTypeOK, Done

LEMMA DecomposeTypes == ASSUME DTypeOK, Parts, NEW mode, DNext(mode) PROVE DTypeOK'
<1>1. CASE CheapAnswers \/ JudgeAnswers \/ PlanFails(mode)
    BY <1>1 DEF CheapAnswers, JudgeAnswers, PlanFails, DTypeOK
<1>2. CASE PlanArrives(mode)
  <2>1. PICK n \in 0..MaxParts : plan' \in [1..n -> Ids]
    BY <1>2 DEF PlanArrives, Plans
  <2>2. 1 <= Len(plan') => 1 \in 0..MaxParts
    <3>1. n \in Nat /\ MaxParts \in Nat /\ n <= MaxParts /\ Len(plan') = n
        BY <2>1, ChatReplyAssumption
    <3> QED BY <3>1
  <2> QED BY <1>2, <2>2 DEF PlanArrives, TurnsTo, DTypeOK, Done
<1>3. CASE PartAnswers(mode)
  <2>1. CASE Keeps(mode, "text")
    BY <1>3, <2>1, KeepTypes DEF PartAnswers, Answers
  <2>2. CASE stage' = "again" /\ UNCHANGED <<at, parts, path>>
    BY <1>3, <2>2 DEF PartAnswers, DTypeOK
  <2> QED BY <1>3, <2>1, <2>2 DEF PartAnswers
<1>4. CASE AgainAnswers(mode)
    BY <1>4, KeepTypes DEF AgainAnswers
<1> QED BY <1>1, <1>2, <1>3, <1>4 DEF DNext

LEMMA RestKeeps == ASSUME Rest, Parts, [Next]_vars PROVE Rest'
<1>1. CASE RefusesBody \/ ReadsChunk \/ BodyEnds \/ BodyCut
  <2>1. got' \in 0..MaxBody + 1
    <3>1. MaxBody \in Nat /\ got \in 0..MaxBody + 1
        BY ChatReplyAssumption DEF Rest
    <3>2. got' = got \/ got' = 0 \/ (got <= MaxBody /\ got' = got + 1)
        BY <1>1 DEF RefusesBody, ReadsChunk, BodyEnds, BodyCut
    <3> QED BY <3>1, <3>2
  <2>2. status' \in {status, 413, 499} /\ UNCHANGED <<gone, stored, dvars>>
    BY <1>1 DEF RefusesBody, ReadsChunk, BodyEnds, BodyCut, KeepsBody, Sends
  <2> QED BY <2>1, <2>2 DEF Rest, DTypeOK, dvars
<1>2. CASE Admits
    BY <1>2 DEF Admits, KeepsReply, BeginsDecompose, FirstStage, Rest, DTypeOK
<1>3. CASE DecomposeStep
  <2>1. DTypeOK'
    BY <1>3, DecomposeTypes DEF DecomposeStep, Rest
  <2>2. status' \in {status, 500} /\ UNCHANGED <<got, gone, stored>>
    BY <1>3 DEF DecomposeStep, KeepsReply, Sends
  <2> QED BY <2>1, <2>2 DEF Rest
<1>4. ASSUME UNCHANGED <<got, dvars>>, status' \in {status, 200, 400, 429, 500, 502, 503},
             gone' \in BOOLEAN, stored' \in BOOLEAN
      PROVE  Rest'
    BY <1>4 DEF Rest, DTypeOK, dvars
<1>5. CASE CacheHits \/ CapHit \/ ImageChecked \/ ImageAnswers \/ Selects \/ Routed
  <2>1. UNCHANGED <<got, dvars, gone, stored>> /\ status' \in {status, 200, 400, 429, 500, 502, 503}
    BY <1>5 DEF CacheHits, CapHit, ImageChecked, ImageAnswers, Selects, Routed, KeepsReply, Sends
  <2> QED BY <1>4, <2>1 DEF Rest
<1>6. CASE Replies
  <2>1. UNCHANGED <<got, dvars, gone>> /\ status' \in {500, 503, 200}
        /\ (stored' = stored \/ stored' = Stores)
    BY <1>6 DEF Replies, KeepsReply, Sends
  <2>2. Stores \in BOOLEAN
    BY DEF Stores
  <2> QED BY <1>4, <2>1, <2>2 DEF Rest
<1>7. ASSUME NEW k \in Kinds, Delta(k) \/ FallbackDelta(k) PROVE Rest'
    BY <1>4, <1>7 DEF Delta, FallbackDelta, KeepsStream, Rest
<1>8. CASE Says1 \/ StreamEnds \/ FallbackEnds \/ StreamFails \/ FallbackFails \/ Bills \/ Cancelled
    BY <1>4, <1>8 DEF Says1, StreamEnds, FallbackEnds, StreamFails, FallbackFails, Bills, Cancelled,
                      KeepsStream, Rest
<1>9. CASE HangsUp \/ UNCHANGED vars
  <2>1. UNCHANGED <<got, dvars, status, stored>> /\ gone' \in {gone, TRUE}
    BY <1>9 DEF HangsUp, vars, rvars
  <2>2. status' \in {status, 200, 400, 429, 500, 502, 503} /\ gone' \in BOOLEAN /\ stored' \in BOOLEAN
    BY <2>1 DEF Rest
  <2> QED BY <1>4, <2>1, <2>2
<1> QED BY <1>1, <1>2, <1>3, <1>5, <1>6, <1>7, <1>8, <1>9 DEF Next

\* A request begins with nothing said.
LEMMA TextsBegin == Init => Chosen /\ Texts /\ Rest
<1> SUFFICES ASSUME Init PROVE Chosen /\ Texts /\ Rest
    OBVIOUS
<1>1. <<>> \in Seq(Workers) /\ <<>> \in Seq(Token) /\ <<>> \in Seq(FrameType) /\ Len(<<>>) = 0
    OBVIOUS
<1>2. Chosen
    BY <1>1 DEF Init, Chosen
<1>3. Texts
    BY <1>1, ViewOfNothing DEF Init, Texts, TextIsWhole
<1>4. Rest
  <2>1. 0 \in 0..MaxBody + 1 /\ 0 \in 0..MaxParts
    BY ChatReplyAssumption
  <2>2. <<>> \in Plans
    <3>1. <<>> \in [1..0 -> Ids]
        OBVIOUS
    <3> QED BY <2>1, <3>1 DEF Plans
  <2> QED BY <2>1, <2>2 DEF Init, DInit, Rest, DTypeOK, NoPart, Answers
<1> QED BY <1>2, <1>3, <1>4

\* A streamed reply shows all that may be shown of what its workers said, once
\* and in order (server.py, _emitted_len and _fb_emitted).
THEOREM StreamedTextsWhole == Spec => []TextIsWhole
<1>1. IInv /\ Chosen /\ Texts /\ [Next]_vars => Chosen' /\ Texts'
    BY ChosenKeeps, TextsKeep
<1>2. Texts => TextIsWhole
    BY DEF Texts
<1> QED BY <1>1, <1>2, TextsBegin, Inductive, PTL DEF Spec

\* Every variable of a request keeps its type; in particular no more of a text
\* is sent than was heard, and a stream falls back on workers of its chain only.
THEOREM TypesAreKept == Spec => []TypeOK
<1>1. IInv /\ Chosen /\ Texts /\ [Next]_vars => Chosen' /\ Texts'
    BY ChosenKeeps, TextsKeep
<1>2. Parts /\ Rest /\ [Next]_vars => Parts' /\ Rest'
    BY PartsKeep, RestKeeps
<1>3. IInv /\ Chosen /\ Texts /\ Rest => TypeOK
  <2> SUFFICES ASSUME IInv, Chosen, Texts, Rest PROVE TypeOK
    OBVIOUS
  <2>1. heard \in Seq(Token) /\ fheard \in Seq(Token)
    BY DEF Texts
  <2>2. \A s \in Seq(Token) : Len(Visible(s)) \in 0..Len(s)
    <3>1. ASSUME NEW s \in Seq(Token) PROVE Len(Visible(s)) \in 0..Len(s)
      <4>1. Visible(s) \in Seq(Workers) /\ Len(Visible(s)) <= Len(s) /\ Len(s) \in Nat
          BY VisibleType
      <4> QED BY <4>1
    <3> QED BY <3>1
  <2>3. emitted \in 0..Len(heard) /\ femitted \in 0..Len(fheard)
    BY <2>1, <2>2 DEF Texts
  <2> QED BY <2>1, <2>3 DEF TypeOK, IInv, Types, Reply, Named, Waiting, Chosen, Rest
<1> QED BY <1>1, <1>2, <1>3, TextsBegin, PartsBegin, Inductive, PTL DEF Spec
=============================================================================
