---------------------------- MODULE ToolProtocol ----------------------------
(***************************************************************************)
(* How a conversation with tools is repaired before a vendor sees it        *)
(* (tool_protocol.py), and how the items of the Responses API become one    *)
(* (server.py).  The repair is one pass over the messages, which keeps the  *)
(* calls of the last turn until each has its result.                        *)
(*                                                                         *)
(* An id is a number: 0 is a missing one, n up to MaxHeard * MaxHeard is    *)
(* "call_fallback_n", the others are the client's.  A body is the place of  *)
(* its message, 0 where the repair made an empty one.                       *)
(***************************************************************************)
EXTENDS Integers, Sequences, SequencesExt, FiniteSets, FiniteSetsExt

CONSTANTS
    Apis,           \* of {"chat", "responses"}
    CallIds,        \* the ids that clients send
    Turns,          \* the lists of ids of an assistant's calls
    MaxHeard        \* bound: messages of a conversation

ASSUME ToolAssumption ==
    /\ Apis \subseteq {"chat", "responses"}
    /\ CallIds \subseteq Nat /\ Turns \subseteq Seq(CallIds) /\ MaxHeard \in Nat

VARIABLES
    api,
    heard           \* the messages, or the items, that have come

toolVars == <<api, heard>>

Unavailable == -1   \* _MISSING_TOOL_OUTPUT

\* Messages of any role have the same fields; a "call" is an item only, and so is
\* an "empty" one: of no role and without text, a reasoning for one.
Message(role, calls, id, body) == [role |-> role, calls |-> calls, id |-> id, body |-> body]
Letters(body) ==
    {Message("user", <<>>, 0, body), Message("assistant", <<>>, 0, body)}
    \cup {Message("tool", <<>>, id, body) : id \in CallIds}
    \cup {Message("assistant", calls, 0, body) : calls \in Turns}
    \cup IF api = "responses"
         THEN {Message("call", <<>>, id, body) : id \in CallIds} \cup {Message("empty", <<>>, 0, body)}
         ELSE {}

ToolTypeOK ==
    /\ api \in Apis
    /\ Len(heard) <= MaxHeard
    /\ \A i \in DOMAIN heard : heard[i] \in Letters(i)

ToolInit == api \in Apis /\ heard = <<>>
Hears == \E m \in Letters(Len(heard) + 1) : heard' = Append(heard, m) /\ UNCHANGED api
ToolNext == Len(heard) < MaxHeard /\ Hears
ToolSpec == ToolInit /\ [][ToolNext]_toolVars

-----------------------------------------------------------------------------
\* normalize_tool_protocol(): "pending" are the calls of the active turn, each
\* with the body of its result (0 is none yet); "anonymous" the results that
\* named no call.
Start == [out |-> <<>>, used |-> {}, counter |-> 0, pending |-> <<>>, anonymous |-> <<>>]

\* Fault: a client's id is kept where it is used already.
FreshIdKept(t, raw) ==
    IF raw # 0 THEN [id |-> raw, counter |-> t.counter]
    ELSE [id |-> t.counter + 1, counter |-> t.counter + 1]

\* fresh_id(): of the loop's state t, with the id that was taken.
FreshId(t, raw) ==
    IF raw # 0 /\ raw \notin t.used THEN [id |-> raw, counter |-> t.counter]
    ELSE LET n == Min(((t.counter + 1)..(t.counter + 1 + Cardinality(t.used))) \ t.used)
         IN  [id |-> n, counter |-> n]
Takes(t, fresh) == [t EXCEPT !.used = @ \cup {fresh.id}, !.counter = fresh.counter]

Unanswered(t) == {i \in DOMAIN t.pending : t.pending[i].body = 0}

\* flush_pending(): every call has a result, its own, one that named no call,
\* or a stand-in.
Flushed(t) ==
    LET Result(i) ==
            LET rank == Cardinality(Unanswered(t) \cap 1..i)
            IN  IF i \notin Unanswered(t) THEN t.pending[i].body
                ELSE IF rank <= Len(t.anonymous) THEN t.anonymous[rank] ELSE Unavailable
    IN  IF t.pending = <<>> THEN t
        ELSE [t EXCEPT !.out = @ \o [i \in DOMAIN t.pending |->
                                        Message("tool", <<>>, t.pending[i].id, Result(i))],
                       !.pending = <<>>, !.anonymous = <<>>]

\* Fault: a turn is left open when it is whole.
FlushedIfWholeNever(t) == t

FlushedIfWhole(t) == IF Cardinality(Unanswered(t)) = Len(t.anonymous) THEN Flushed(t) ELSE t

\* Fault: a result without a call keeps its id.
OrphanKept(t, m) ==
    [t EXCEPT !.out = @ \o <<Message("assistant", <<m.id>>, 0, 0), Message("tool", <<>>, m.id, m.body)>>]

\* emit_orphan(): the result has a call of its own.
Orphan(t, m) ==
    LET fresh == FreshId(t, m.id)
    IN  [Takes(t, fresh) EXCEPT
           !.out = @ \o <<Message("assistant", <<fresh.id>>, 0, 0),
                          Message("tool", <<>>, fresh.id, m.body)>>]

\* Fault: a result answers the first call that has none.
TargetsAny(t, id) == {i \in DOMAIN t.pending : t.pending[i].body = 0}

\* The calls of the active turn that a result may answer.
Targets(t, id) == {i \in DOMAIN t.pending : t.pending[i].raw = id /\ t.pending[i].body = 0}

Answer(t, m) ==
    CASE m.id = 0 /\ t.pending # <<>> ->
           FlushedIfWhole([t EXCEPT !.anonymous = Append(@, m.body)])
      [] m.id # 0 /\ Targets(t, m.id) # {} ->
           FlushedIfWhole([t EXCEPT !.pending[Min(Targets(t, m.id))].body = m.body])
      [] OTHER -> Orphan(Flushed(t), m)

TakesCall(t, raw) ==
    LET fresh == FreshId(t, raw)
    IN  [Takes(t, fresh) EXCEPT !.pending = Append(@, [id |-> fresh.id, raw |-> raw, body |-> 0])]

\* Any other message ends the active turn, and begins one if it calls.
Turn(t, m) ==
    LET turn == FoldLeft(TakesCall, Flushed(t), m.calls)
    IN  [turn EXCEPT !.out = Append(@, [m EXCEPT !.calls = [i \in DOMAIN turn.pending |-> turn.pending[i].id]])]

Normalized(messages) ==
    Flushed(FoldLeft(LAMBDA t, m : IF m.role = "tool" THEN Answer(t, m) ELSE Turn(t, m),
                     Start, messages)).out

\* _responses_input_to_messages(): adjacent calls are one turn, an item of a role
\* takes its calls along, and one without text is dropped.
Raw(items) ==
    FoldLeft(LAMBDA raw, i :
                CASE items[i].role = "call" /\ i > 1 /\ items[i - 1].role = "call" ->
                       [raw EXCEPT ![Len(raw)].calls = Append(@, items[i].id)]
                  [] items[i].role = "call" /\ (i = 1 \/ items[i - 1].role # "call") ->
                       Append(raw, Message("assistant", <<items[i].id>>, 0, items[i].body))
                  [] items[i].role = "empty" -> raw
                  [] OTHER -> Append(raw, items[i]),
             <<>>, [i \in DOMAIN items |-> i])

\* Where nothing is said, an empty question is asked.
Spoken(messages) == IF messages = <<>> THEN <<Message("user", <<>>, 0, 0)>> ELSE messages

\* What the vendor is sent: of items, what was repaired is repaired once more.
Messages == IF api = "chat" THEN heard ELSE Raw(heard)
Sent == IF api = "chat" THEN Normalized(heard) ELSE Normalized(Spoken(Normalized(Raw(heard))))

-----------------------------------------------------------------------------
Results(list) == {i \in DOMAIN list : list[i].role = "tool"}

\* "An assistant tool-call turn is immediately followed by exactly one tool
\* result per call, in declaration order", with "non-empty, conversation-unique"
\* ids (tool_protocol.py:6-9), and no result stands anywhere else.
Follows(list, i, j, k) == i = j + k /\ list[i].id = list[j].calls[k]
IsStrict(list) ==
    /\ \A j \in DOMAIN list : \A k \in DOMAIN list[j].calls :
         /\ list[j].calls[k] # 0
         /\ \A h \in DOMAIN list : \A l \in DOMAIN list[h].calls :
              list[h].calls[l] = list[j].calls[k] => h = j /\ l = k
         /\ \E i \in Results(list) : Follows(list, i, j, k)
    /\ \A i \in Results(list) :
         \E j \in DOMAIN list : \E k \in DOMAIN list[j].calls : Follows(list, i, j, k)
Strict == IsStrict(Sent)

\* "The repair is deterministic and idempotent" (tool_protocol.py:69): what has been
\* repaired is repaired again as it is, so it does not matter that items of the
\* Responses API pass twice.
Idempotent == Normalized(Sent) = Sent

\* Nothing that is said is lost, said twice or made up: each message reaches the
\* vendor at one place, as what it was and with as many calls, results late,
\* repeated or misnamed as they may be; and the other messages come in their order.
\* Of items, each is its message, but that a call is a call of the turn its run
\* began, and that one without a role and without text is dropped.
NothingLost ==
    LET sent == Sent
        messages == Messages
        OfClient(i) == sent[i].role # "tool" /\ sent[i].body # 0
    IN  /\ \A m \in ToSet(messages) : \E i \in DOMAIN sent :
             /\ {h \in DOMAIN sent : sent[h].body = m.body} = {i}
             /\ sent[i].role = m.role /\ Len(sent[i].calls) = Len(m.calls)
        /\ \A i \in DOMAIN sent :
             sent[i].body \in {0, Unavailable} \/ \E m \in ToSet(messages) : sent[i].body = m.body
        /\ \A i, j \in DOMAIN sent :
             i < j /\ OfClient(i) /\ OfClient(j) => sent[i].body < sent[j].body
        /\ \A i \in DOMAIN heard :
             CASE heard[i].role = "call" ->
                    \E m \in ToSet(messages) : \E k \in DOMAIN m.calls :
                      m.body + k - 1 = i /\ m.calls[k] = heard[i].id
               [] heard[i].role = "empty" -> \A m \in ToSet(messages) : m.body # i
               [] OTHER -> heard[i] \in ToSet(messages)
        /\ \A m \in ToSet(messages) :
             \/ m = heard[m.body]
             \/ /\ heard[m.body].role = "call"
                /\ \A k \in DOMAIN m.calls : heard[m.body + k - 1].role = "call"

\* The results at q + 1 to p follow the turn at q, one at most for a call of it that
\* they name, and no more than it has calls.
Regular(messages, q, p) ==
    LET calls == messages[q].calls
        since == (q + 1)..p
    IN  /\ q < p /\ messages[q].role # "tool" /\ p - q <= Len(calls)
        /\ \A i \in since : messages[i].role = "tool" /\ messages[i].id \in {0} \cup ToSet(calls)
        /\ \A i, j \in since : messages[i].id = messages[j].id /\ messages[i].id # 0 => i = j
        /\ IsInjective(calls)

\* A result that names a call of the turn it follows is that call's result, also
\* where other results of the turn came in another order or named no call.
AnswersItsCall ==
    LET sent == Sent
        messages == Messages
    IN  \A q, p \in DOMAIN messages : Regular(messages, q, p) =>
          \A k \in DOMAIN messages[q].calls :
            messages[p].id = messages[q].calls[k] /\ messages[p].id # 0 =>
              \E j \in DOMAIN sent : /\ sent[j].body = messages[q].body
                                     /\ j + k \in DOMAIN sent /\ sent[j + k].body = messages[p].body
=============================================================================
