--------------------------- MODULE KeyPoolProofs ---------------------------
(* What KeyPool promises for every number of keys, every set of requests    *)
(* and every choice of durations.                                           *)
EXTENDS KeyPool, FiniteSetTheorems, TLAPS

Places == {"idle", "calling", "opening", "streaming", "done"}
Failures == [secs : Nat, window : Nat]
DeadKey == [secs |-> PerKeySecs, window |-> 0]

LEMMA ClampType ==
    ASSUME NEW v \in Int
    PROVE  Clamp(v) \in Nat
BY KeyPoolAssumption DEF Clamp

LEMMA FailureTypes == ChatFailures \subseteq Failures /\ StreamFailures \subseteq Nat /\ DeadKey \in Failures
<1>1. ChatFailures \subseteq Failures
  BY KeyPoolAssumption, ClampType DEF ChatFailures, Failures
<1>2. QED
  BY <1>1, KeyPoolAssumption DEF StreamFailures, Failures, DeadKey

LEMMA CooledType ==
    ASSUME NEW left \in [Keys -> Nat], NEW k \in Keys, NEW secs \in Nat
    PROVE  Cooled(left, k, secs) \in [Keys -> Nat]
BY DEF Cooled, Larger

LEMMA NextIdxType == \A i \in 0..(NKeys - 1) : NextIdx(i) \in 0..(NKeys - 1)
BY KeyPoolAssumption DEF NextIdx

LEMMA ReplyTypes ==
    /\ \A n \in Nat : Limited(n) \in Replies /\ Limited(n).kind = "limited"
    /\ \A kind \in {"ok", "raised", "denied", "stillborn"} :
         Ended(kind) \in Replies /\ Ended(kind).kind = kind
    /\ NoReply \in Replies /\ NoReply.kind = "none"
BY DEF Limited, Ended, NoReply, Replies, Larger

-----------------------------------------------------------------------------
(* The strengthening.  A request in flight is still due an answer; the keys  *)
(* that are neither to come in its list nor in the list of its stream have   *)
(* been asked; and each key has been asked no more often than the lists say. *)

\* How often k may have been asked so far: in its turn, in the stream that is
\* open, and in one stream for each turn that is over.
Spent(r, k) ==
    IF r \in Streams
    THEN IF k \in tried[r] THEN 1 ELSE 0
    ELSE (IF k \in todo[r] THEN 0 ELSE 1) + (IF k \in tried[r] THEN 1 ELSE 0)
           + (IF EmptyRetry THEN NKeys - Cardinality(todo[r]) - 1 ELSE 0)

Flight(r) ==
    /\ reply[r] = NoReply
    /\ stodo[r] \cap tried[r] = {}
    /\ \A k \in Keys : asked[r][k] <= Spent(r, k)

StreamLists(r) ==
    /\ tried[r] \cup stodo[r] = Keys
    /\ \A k \in tried[r] : asked[r][k] > 0
    /\ pc[r] # "calling"

ChatLists(r) ==
    /\ key[r] \notin todo[r]
    /\ \A k \in Keys \ todo[r] : asked[r][k] > 0
    /\ pc[r] # "calling" => EmptyRetry

Bound(r) == IF r \in Chats /\ EmptyRetry THEN 1 + NKeys ELSE 1

Landed(r) ==
    /\ reply[r].kind = "limited" => \A k \in Keys : asked[r][k] > 0
    /\ r \in Chats => reply[r].kind \notin {"denied", "stillborn"}
    /\ \A k \in Keys : asked[r][k] <= Bound(r)

Inv(r) ==
    /\ InFlight(r) => Flight(r)
    /\ InFlight(r) /\ r \in Streams => StreamLists(r)
    /\ InFlight(r) /\ r \in Chats => ChatLists(r)
    /\ ~InFlight(r) => Landed(r)
    /\ pc[r] \notin {"opening", "streaming"} => tried[r] = {} /\ stodo[r] = {}

IInv == PoolTypeOK /\ \A r \in Requests : Inv(r)

LEMMA KeysFinite ==
    /\ IsFiniteSet(Keys) /\ Cardinality(Keys) = NKeys
    /\ \A S \in SUBSET Keys : Cardinality(S) \in 0..NKeys
    /\ \A S \in SUBSET Keys : \A k \in S : Cardinality(S \ {k}) = Cardinality(S) - 1
    /\ \A S \in SUBSET Keys : \A k \in Keys \ S : Cardinality(S) <= NKeys - 1
<1>1. IsFiniteSet(Keys) /\ Cardinality(Keys) = NKeys
  <2>1. 1 \in Int /\ NKeys \in Int /\ 1 <= NKeys
    BY KeyPoolAssumption
  <2>2. IsFiniteSet(1..NKeys) /\ Cardinality(1..NKeys) = NKeys - 1 + 1
    BY <2>1, FS_Interval
  <2>3. QED
    BY <2>1, <2>2 DEF Keys
<1>2. ASSUME NEW S \in SUBSET Keys
      PROVE  IsFiniteSet(S) /\ Cardinality(S) \in 0..NKeys
  <2>1. IsFiniteSet(S) /\ Cardinality(S) <= Cardinality(Keys)
    BY <1>1, FS_Subset
  <2>2. Cardinality(S) \in Nat
    BY <2>1, FS_CardinalityType
  <2>3. QED
    BY <1>1, <2>1, <2>2, KeyPoolAssumption
<1>3. ASSUME NEW S \in SUBSET Keys, NEW k \in S
      PROVE  Cardinality(S \ {k}) = Cardinality(S) - 1
  BY <1>2, FS_RemoveElement
<1>4. ASSUME NEW S \in SUBSET Keys, NEW k \in Keys \ S
      PROVE  Cardinality(S) <= NKeys - 1
  <2>1. Cardinality(S \cup {k}) = Cardinality(S) + 1
    BY <1>2, FS_AddElement
  <2>2. Cardinality(S \cup {k}) \in 0..NKeys /\ Cardinality(S) \in 0..NKeys
    BY <1>2
  <2>3. QED
    BY <2>1, <2>2, KeyPoolAssumption
<1>5. QED
  BY <1>1, <1>2, <1>3, <1>4

LEMMA SpentType ==
    ASSUME PoolTypeOK, NEW r \in Requests, NEW k \in Keys
    PROVE  asked[r][k] \in Int /\ Spent(r, k) \in Int /\ Bound(r) \in Int
<1>1. todo[r] \in SUBSET Keys /\ asked[r] \in [Keys -> Nat] /\ NKeys \in Nat
  BY KeyPoolAssumption DEF PoolTypeOK
<1>2. Cardinality(todo[r]) \in 0..NKeys
  BY <1>1, KeysFinite
<1>3. QED
  BY <1>1, <1>2 DEF Spent, Bound

\* What is spent on a key never passes its bound.
LEMMA SpentBound ==
    ASSUME PoolTypeOK, NEW r \in Requests, InFlight(r), Inv(r), NEW k \in Keys
    PROVE  Spent(r, k) <= Bound(r)
<1>1. CASE r \in Streams
  BY <1>1, KeyPoolAssumption DEF Spent, Bound
<1>2. CASE r \in Chats
  <2>1. key[r] \in Keys \ todo[r] /\ todo[r] \in SUBSET Keys
    BY <1>2 DEF Inv, ChatLists, PoolTypeOK
  <2>2. Cardinality(todo[r]) \in 0..NKeys /\ Cardinality(todo[r]) <= NKeys - 1
    BY <2>1, KeysFinite
  <2>3. r \notin Streams
    BY <1>2, KeyPoolAssumption
  <2>4. CASE EmptyRetry
    BY <1>2, <2>2, <2>3, <2>4, KeyPoolAssumption DEF Spent, Bound
  <2>5. CASE ~EmptyRetry
    <3>1. tried[r] = {}
      BY <1>2, <2>5 DEF Inv, ChatLists, Flight
    <3>2. QED
      BY <1>2, <2>3, <2>5, <3>1 DEF Spent, Bound
  <2>6. QED
    BY <2>4, <2>5
<1>3. QED
  BY <1>1, <1>2 DEF Requests

-----------------------------------------------------------------------------
(* One request's step leaves the others where they were. *)

Frame(r) ==
    \A q \in Requests \ {r} :
        /\ pc'[q] = pc[q] /\ reply'[q] = reply[q] /\ asked'[q] = asked[q]
        /\ key'[q] = key[q] /\ todo'[q] = todo[q]
        /\ stodo'[q] = stodo[q] /\ tried'[q] = tried[q]

LEMMA FrameKeeps ==
    ASSUME IInv, NEW r \in Requests, Frame(r), PoolTypeOK', Inv(r)'
    PROVE  IInv'
<1>1. ASSUME NEW q \in Requests \ {r} PROVE Inv(q)'
  <2>1. Inv(q)
    BY DEF IInv
  <2>2. InFlight(q)' <=> InFlight(q)
    BY DEF Frame, InFlight
  <2>3. \A k \in Keys : Spent(q, k)' = Spent(q, k)
    BY DEF Frame, Spent
  <2>4. Flight(q) => Flight(q)'
    BY <2>3 DEF Frame, Flight
  <2>5. (StreamLists(q) => StreamLists(q)') /\ (ChatLists(q) => ChatLists(q)')
    BY DEF Frame, StreamLists, ChatLists
  <2>6. Landed(q) => Landed(q)'
    BY DEF Frame, Landed, Bound
  <2>7. QED
    BY <2>1, <2>2, <2>4, <2>5, <2>6 DEF Inv, Frame
<1>2. QED
  BY <1>1 DEF IInv

\* A request that ends has had what it is told.
LEMMA FinishKeeps ==
    ASSUME IInv, NEW r \in Requests, InFlight(r), NEW outcome \in Replies,
           Finish(r, outcome),
           outcome.kind = "limited" => \A k \in Keys : asked[r][k] > 0,
           r \in Chats => outcome.kind \notin {"denied", "stillborn"},
           idx' \in [Requests -> 0..(NKeys - 1)], keyLeft' \in [Requests -> [Keys -> Nat]]
    PROVE  IInv'
<1>1. 1 \in Keys
  BY KeyPoolAssumption DEF Keys
<1>2. PoolTypeOK'
  BY <1>1 DEF IInv, PoolTypeOK, Finish, LeaveStream
<1>3. Frame(r)
  BY DEF IInv, PoolTypeOK, Finish, LeaveStream, Frame
<1>4. \A k \in Keys : asked[r][k] <= Bound(r)
  <2>1. SUFFICES ASSUME NEW k \in Keys PROVE asked[r][k] <= Bound(r)
    OBVIOUS
  <2>2. asked[r][k] <= Spent(r, k) /\ Spent(r, k) <= Bound(r)
    BY SpentBound DEF IInv, Inv, Flight
  <2>3. asked[r][k] \in Int /\ Spent(r, k) \in Int /\ Bound(r) \in Int
    BY SpentType DEF IInv
  <2>4. QED
    BY <2>2, <2>3
<1>5. /\ asked' = asked /\ reply'[r] = outcome /\ ~InFlight(r)'
      /\ tried'[r] = {} /\ stodo'[r] = {}
  BY DEF IInv, PoolTypeOK, Finish, LeaveStream, InFlight
<1>6. Inv(r)'
  BY <1>4, <1>5 DEF Inv, Landed, Bound, InFlight
<1>7. QED
  BY <1>2, <1>3, <1>6, FrameKeeps

LEMMA RotatesKeeps ==
    ASSUME IInv, NEW r \in Chats, InFlight(r), NEW window \in Nat, ChatRotates(r, window),
           idx' \in [Requests -> 0..(NKeys - 1)], keyLeft' \in [Requests -> [Keys -> Nat]]
    PROVE  IInv'
<1>0. r \in Requests /\ r \notin Streams /\ 1 \in Keys
  BY KeyPoolAssumption DEF Requests, Keys
<1>1. PICK k \in todo[r] :
         /\ key' = [key EXCEPT ![r] = k]
         /\ todo' = [todo EXCEPT ![r] = @ \ {k}]
         /\ asked' = [asked EXCEPT ![r][k] = @ + 1]
  BY DEF ChatRotates
<1>2. /\ maxRA' = [maxRA EXCEPT ![r] = window]
      /\ pc' = [pc EXCEPT ![r] = "calling"]
      /\ LeaveStream(r)
      /\ UNCHANGED reply
  BY DEF ChatRotates
<1>3. k \in Keys
  BY <1>0, <1>1 DEF IInv, PoolTypeOK
<1>4. PoolTypeOK'
  BY <1>0, <1>1, <1>2, <1>3 DEF IInv, PoolTypeOK, LeaveStream
<1>5. Frame(r)
  BY <1>0, <1>1, <1>2 DEF IInv, PoolTypeOK, LeaveStream, Frame
<1>6. Flight(r) /\ ChatLists(r)
  BY <1>0 DEF IInv, Inv
<1>7. /\ pc'[r] = "calling" /\ reply'[r] = NoReply /\ key'[r] = k
      /\ todo'[r] = todo[r] \ {k} /\ tried'[r] = {} /\ stodo'[r] = {}
      /\ asked'[r] = [asked[r] EXCEPT ![k] = @ + 1]
  BY <1>0, <1>1, <1>2, <1>6 DEF IInv, PoolTypeOK, LeaveStream, Flight
<1>8. ChatLists(r)'
  BY <1>0, <1>3, <1>6, <1>7 DEF ChatLists, IInv, PoolTypeOK
<1>9. \A j \in Keys : asked'[r][j] <= Spent(r, j)'
  <2>1. SUFFICES ASSUME NEW j \in Keys PROVE asked'[r][j] <= Spent(r, j)'
    OBVIOUS
  <2>2. todo[r] \in SUBSET Keys /\ asked[r] \in [Keys -> Nat]
    BY <1>0 DEF IInv, PoolTypeOK
  <2>3. Cardinality(todo[r]) \in 0..NKeys /\ Cardinality(todo'[r]) = Cardinality(todo[r]) - 1
    BY <1>1, <1>7, <2>2, KeysFinite
  <2>4. asked[r][j] <= Spent(r, j)
    BY <1>6 DEF Flight
  <2>5. CASE EmptyRetry
    BY <1>0, <1>1, <1>7, <2>2, <2>3, <2>4, <2>5, KeyPoolAssumption DEF Spent
  <2>6. CASE ~EmptyRetry
    <3>1. tried[r] = {}
      BY <1>0, <1>6, <2>6 DEF ChatLists, IInv, Inv
    <3>2. QED
      BY <1>0, <1>1, <1>7, <2>2, <2>4, <2>6, <3>1 DEF Spent
  <2>7. QED
    BY <2>5, <2>6
<1>10. Flight(r)'
  BY <1>7, <1>9 DEF Flight
<1>11. Inv(r)'
  BY <1>0, <1>7, <1>8, <1>10 DEF Inv, InFlight
<1>12. QED
  BY <1>0, <1>4, <1>5, <1>11, FrameKeeps

\* A key's failure, in the call or in the stream of its empty answer.
LEMMA KeyFailsKeeps ==
    ASSUME IInv, NEW r \in Chats, InFlight(r), NEW left \in [Keys -> Nat],
           NEW failure \in Failures, KeyFails(r, left, failure),
           idx' \in [Requests -> 0..(NKeys - 1)]
    PROVE  IInv'
<1> DEFINE window == Larger(maxRA[r], failure.window)
<1>0. r \in Requests
  BY DEF Requests
<1>1. window \in Nat /\ Larger(All429Secs, window) \in Nat
  BY <1>0, KeyPoolAssumption DEF IInv, PoolTypeOK, Larger, Failures
<1>2. keyLeft' \in [Requests -> [Keys -> Nat]]
  BY <1>0, CooledType DEF KeyFails, IInv, PoolTypeOK, Failures
<1>3. CASE ChatRotates(r, window)
  BY <1>1, <1>2, <1>3, RotatesKeeps
<1>4. CASE ChatGivesUp(r, window)
  <2>1. \A k \in Keys : asked[r][k] > 0
    BY <1>0, <1>4 DEF ChatGivesUp, IInv, Inv, ChatLists
  <2>2. Finish(r, Limited(Larger(All429Secs, window)))
    BY <1>4 DEF ChatGivesUp
  <2>3. QED
    BY <1>0, <1>1, <1>2, <2>1, <2>2, ReplyTypes, FinishKeeps
<1>5. QED
  BY <1>3, <1>4 DEF KeyFails

LEMMA StreamRaisesKeeps ==
    ASSUME IInv, NEW r \in Requests, InFlight(r), NEW left \in [Keys -> Nat],
           NEW outcome \in Replies, StreamRaises(r, left, outcome),
           r \in Streams /\ outcome.kind = "limited" => \A k \in Keys : asked[r][k] > 0,
           idx' \in [Requests -> 0..(NKeys - 1)]
    PROVE  IInv'
<1>1. CASE r \in Chats /\ KeyFails(r, left, DeadKey)
  BY <1>1, FailureTypes, KeyFailsKeeps
<1>2. CASE /\ r \in Streams
           /\ keyLeft' = [keyLeft EXCEPT ![r] = left]
           /\ Finish(r, outcome)
  <2>1. r \notin Chats
    BY <1>2, KeyPoolAssumption
  <2>2. QED
    BY <1>2, <2>1, FinishKeeps DEF IInv, PoolTypeOK
<1>3. QED
  BY <1>1, <1>2 DEF StreamRaises, DeadKey

-----------------------------------------------------------------------------
(* A stream asks with a key that it has not tried. *)

\* The key j is asked in r's stream: the rest of the pass is `rest`.
TriesKey(r, j, rest) ==
    /\ skey' = [skey EXCEPT ![r] = j]
    /\ stodo' = [stodo EXCEPT ![r] = rest]
    /\ tried' = [tried EXCEPT ![r] = @ \cup {j}]
    /\ asked' = [asked EXCEPT ![r][j] = @ + 1]
    /\ pc' = [pc EXCEPT ![r] = "opening"]
    /\ UNCHANGED <<key, todo, maxRA, reply>>

LEMMA TriesKeyKeeps ==
    ASSUME IInv, NEW r \in Requests, InFlight(r), pc[r] = "calling" => r \in Chats /\ EmptyRetry,
           NEW j \in Keys, NEW rest \in SUBSET Keys, TriesKey(r, j, rest),
           j \notin tried[r], rest \cap tried[r] = {}, j \notin rest,
           r \in Streams => stodo[r] \subseteq rest \cup {j},
           idx' \in [Requests -> 0..(NKeys - 1)], keyLeft' \in [Requests -> [Keys -> Nat]]
    PROVE  IInv'
<1>1. PoolTypeOK'
  <2>1. tried' \in [Requests -> SUBSET Keys] /\ stodo' \in [Requests -> SUBSET Keys]
    BY DEF IInv, PoolTypeOK, TriesKey
  <2>2. asked' \in [Requests -> [Keys -> Nat]]
    BY DEF IInv, PoolTypeOK, TriesKey
  <2>3. pc' \in [Requests -> Places] /\ skey' \in [Requests -> Keys]
    BY DEF IInv, PoolTypeOK, TriesKey, Places
  <2>4. QED
    BY <2>1, <2>2, <2>3 DEF IInv, PoolTypeOK, TriesKey, Places
<1>2. Frame(r)
  BY DEF IInv, PoolTypeOK, TriesKey, Frame
<1>3. /\ pc'[r] = "opening" /\ reply'[r] = reply[r] /\ key'[r] = key[r] /\ todo'[r] = todo[r]
      /\ tried'[r] = tried[r] \cup {j} /\ stodo'[r] = rest
      /\ asked'[r] = [asked[r] EXCEPT ![j] = @ + 1]
  BY DEF IInv, PoolTypeOK, TriesKey
<1>t. asked[r] \in [Keys -> Nat] /\ todo[r] \in SUBSET Keys
  BY DEF IInv, PoolTypeOK
<1>4. Flight(r)
  BY DEF IInv, Inv
<1>5. \A k \in Keys : asked'[r][k] <= Spent(r, k)'
  <2>1. SUFFICES ASSUME NEW k \in Keys PROVE asked'[r][k] <= Spent(r, k)'
    OBVIOUS
  <2>2. asked[r][k] <= Spent(r, k)
    BY <1>4 DEF Flight
  <2>3. Cardinality(todo[r]) \in 0..NKeys
    BY <1>t, KeysFinite
  <2>4. QED
    BY <1>3, <1>t, <2>2, <2>3, KeyPoolAssumption DEF Spent
<1>6. Flight(r)'
  BY <1>3, <1>4, <1>5 DEF Flight
<1>7. r \in Streams => StreamLists(r)'
  BY <1>3 DEF StreamLists, IInv, Inv, PoolTypeOK
<1>8. r \in Chats => ChatLists(r)'
  BY <1>3 DEF ChatLists, IInv, Inv, PoolTypeOK, InFlight
<1>9. Inv(r)'
  BY <1>3, <1>6, <1>7, <1>8 DEF Inv, InFlight
<1>10. QED
  BY <1>1, <1>2, <1>9, FrameKeeps

LEMMA PassKeysType == ASSUME NEW left PROVE PassKeys(left) \in SUBSET Keys
BY DEF PassKeys, AvailKeys

\* A new pass of an open stream, or the first pass inside a chat.
LEMMA StreamPassKeeps ==
    ASSUME IInv, NEW r \in Requests, InFlight(r), NEW left, NEW at,
           StreamPass(r, left, at, tried[r]), Asks(r), stodo[r] = {},
           pc[r] = "calling" => r \in Chats /\ EmptyRetry,
           UNCHANGED <<key, todo, maxRA, reply>>,
           idx' \in [Requests -> 0..(NKeys - 1)], keyLeft' \in [Requests -> [Keys -> Nat]]
    PROVE  IInv'
<1>1. PICK k \in PassKeys(left) \ tried[r] :
         /\ skey' = [skey EXCEPT ![r] = k]
         /\ stodo' = [stodo EXCEPT ![r] = (PassKeys(left) \ tried[r]) \ {k}]
         /\ tried' = [tried EXCEPT ![r] = tried[r] \cup {k}]
         /\ pc' = [pc EXCEPT ![r] = "opening"]
  BY DEF StreamPass
<1>2. k \in Keys /\ PassKeys(left) \in SUBSET Keys
  BY PassKeysType
<1>3. skey'[r] = k
  BY <1>1, <1>2 DEF IInv, PoolTypeOK
<1>4. TriesKey(r, k, (PassKeys(left) \ tried[r]) \ {k})
  BY <1>1, <1>3 DEF TriesKey, Asks
<1>5. QED
  BY <1>1, <1>2, <1>4, TriesKeyKeeps

LEMMA StreamOpenFailsKeeps ==
    ASSUME IInv, NEW r \in Requests, StreamOpenFails(r)
    PROVE  IInv'
<1>0. pc[r] = "opening" /\ InFlight(r) /\ skey[r] \in Keys /\ keyLeft[r] \in [Keys -> Nat]
  BY DEF StreamOpenFails, InFlight, IInv, PoolTypeOK
<1>1. PICK secs \in StreamFailures :
         LET left == Cooled(keyLeft[r], skey[r], secs) IN
         \/ \E k \in stodo[r] :
              /\ FirstFrom(skey[r], k, stodo[r])
              /\ skey' = [skey EXCEPT ![r] = k]
              /\ stodo' = [stodo EXCEPT ![r] = @ \ {k}]
              /\ tried' = [tried EXCEPT ![r] = @ \cup {k}]
              /\ keyLeft' = [keyLeft EXCEPT ![r] = left]
              /\ Asks(r)
              /\ UNCHANGED <<idx, pc, key, todo, maxRA, reply>>
         \/ /\ stodo[r] = {}
            /\ StreamPass(r, left, idx[r], tried[r])
            /\ idx' = [idx EXCEPT ![r] = NextIdx(@)]
            /\ keyLeft' = [keyLeft EXCEPT ![r] = left]
            /\ Asks(r)
            /\ UNCHANGED <<key, todo, maxRA, reply>>
         \/ StreamGivesUp(r, left)
  BY DEF StreamOpenFails
<1> DEFINE left == Cooled(keyLeft[r], skey[r], secs)
<1>2. left \in [Keys -> Nat]
  BY <1>0, FailureTypes, CooledType
<1> HIDE DEF left
<1>3. ASSUME NEW k \in stodo[r],
             /\ skey' = [skey EXCEPT ![r] = k]
             /\ stodo' = [stodo EXCEPT ![r] = @ \ {k}]
             /\ tried' = [tried EXCEPT ![r] = @ \cup {k}]
             /\ keyLeft' = [keyLeft EXCEPT ![r] = left]
             /\ Asks(r)
             /\ UNCHANGED <<idx, pc, key, todo, maxRA, reply>>
      PROVE  IInv'
  <2>1. k \in Keys /\ stodo[r] \in SUBSET Keys /\ skey'[r] = k
    BY <1>3 DEF IInv, PoolTypeOK
  <2>2. pc' = [pc EXCEPT ![r] = "opening"]
    BY <1>0, <1>3 DEF IInv, PoolTypeOK
  <2>3. TriesKey(r, k, stodo[r] \ {k})
    BY <1>3, <2>1, <2>2 DEF TriesKey, Asks, IInv, PoolTypeOK
  <2>4. stodo[r] \cap tried[r] = {}
    BY <1>0 DEF IInv, Inv, Flight
  <2>5. idx' \in [Requests -> 0..(NKeys - 1)] /\ keyLeft' \in [Requests -> [Keys -> Nat]]
    BY <1>2, <1>3 DEF IInv, PoolTypeOK
  <2>6. QED
    BY <1>0, <2>1, <2>3, <2>4, <2>5, TriesKeyKeeps
<1>4. CASE /\ stodo[r] = {}
           /\ StreamPass(r, left, idx[r], tried[r])
           /\ idx' = [idx EXCEPT ![r] = NextIdx(@)]
           /\ keyLeft' = [keyLeft EXCEPT ![r] = left]
           /\ Asks(r)
           /\ UNCHANGED <<key, todo, maxRA, reply>>
  <2>1. idx' \in [Requests -> 0..(NKeys - 1)] /\ keyLeft' \in [Requests -> [Keys -> Nat]]
    BY <1>2, <1>4, NextIdxType DEF IInv, PoolTypeOK
  <2>2. QED
    BY <1>0, <1>4, <2>1, StreamPassKeeps
<1>5. CASE StreamGivesUp(r, left)
  <2>1. PICK n \in {left[k] : k \in Keys} : StreamRaises(r, left, Limited(n))
    BY <1>5 DEF StreamGivesUp
  <2>2. Limited(n) \in Replies
    BY <1>2, ReplyTypes
  <2>3. idx' \in [Requests -> 0..(NKeys - 1)]
    BY <1>5, NextIdxType DEF StreamGivesUp, IInv, PoolTypeOK
  <2>4. r \in Streams => \A k \in Keys : asked[r][k] > 0
    BY <1>0, <1>5 DEF StreamGivesUp, IInv, Inv, StreamLists
  <2>5. QED
    BY <1>0, <1>2, <2>1, <2>2, <2>3, <2>4, StreamRaisesKeeps
<1>6. QED
  BY <1>1, <1>3, <1>4, <1>5 DEF left

LEMMA StreamAnsweredKeeps ==
    ASSUME IInv, NEW r \in Requests, StreamAnswered(r)
    PROVE  IInv'
<1>0. /\ InFlight(r) /\ idx \in [Requests -> 0..(NKeys - 1)]
      /\ keyLeft[r] \in [Keys -> Nat] /\ PoolTypeOK
  BY DEF StreamAnswered, StreamOpenFails, StreamDenied, StreamOpens, StreamCompletes,
         StreamBreaks, InFlight, IInv, PoolTypeOK
<1>1. CASE StreamOpenFails(r)
  BY <1>1, StreamOpenFailsKeeps
<1>2. CASE StreamDenied(r) \/ StreamBreaks(r)
  <2>1. PICK o \in Replies : o.kind # "limited" /\ StreamRaises(r, keyLeft[r], o) /\ UNCHANGED idx
    BY <1>2, ReplyTypes DEF StreamDenied, StreamBreaks
  <2>2. QED
    BY <1>0, <2>1, StreamRaisesKeeps
<1>3. CASE StreamOpens(r)
  <2>1. PoolTypeOK' /\ Frame(r)
    BY <1>0, <1>3 DEF StreamOpens, PoolTypeOK, pool, locals, Frame
  <2>2. pc[r] = "opening" /\ pc'[r] = "streaming" /\ UNCHANGED <<pool, locals, reply, asked>>
    BY <1>0, <1>3 DEF StreamOpens, PoolTypeOK
  <2>3. \A k \in Keys : Spent(r, k)' = Spent(r, k)
    BY <2>2 DEF Spent, locals
  <2>4. Flight(r)'
    BY <1>0, <2>2, <2>3 DEF IInv, Inv, Flight, locals
  <2>5. (r \in Streams => StreamLists(r)') /\ (r \in Chats => ChatLists(r)')
    BY <1>0, <2>2 DEF IInv, Inv, StreamLists, ChatLists, locals
  <2>6. Inv(r)'
    BY <2>2, <2>4, <2>5 DEF Inv, InFlight
  <2>7. QED
    BY <2>1, <2>6, FrameKeeps
<1>4. CASE StreamCompletes(r)
  <2>1. CASE Finish(r, Ended("ok")) /\ UNCHANGED pool
    BY <1>0, <2>1, ReplyTypes, FinishKeeps DEF PoolTypeOK, pool
  <2>2. CASE r \in Chats /\ KeyFails(r, keyLeft[r], DeadKey) /\ UNCHANGED idx
    BY <1>0, <2>2, FailureTypes, KeyFailsKeeps
  <2>3. QED
    BY <1>4, <2>1, <2>2 DEF StreamCompletes, DeadKey
<1>5. QED
  BY <1>1, <1>2, <1>3, <1>4 DEF StreamAnswered

-----------------------------------------------------------------------------

\* What build_client() leaves well typed.
LEMMA NewPoolType ==
    ASSUME PoolTypeOK, NEW r \in Requests, NewPool(r)
    PROVE  /\ idx' \in [Requests -> 0..(NKeys - 1)] /\ keyLeft' \in [Requests -> [Keys -> Nat]]
           /\ reply' \in [Requests -> Replies] /\ reply'[r] = NoReply
           /\ \A q \in Requests \ {r} : reply'[q] = reply[q]
<1>1. NextIdx(0) \in 0..(NKeys - 1) /\ Fresh \in [Keys -> Nat]
  BY NextIdxType, KeyPoolAssumption DEF Fresh
<1>2. QED
  BY <1>1, ReplyTypes DEF PoolTypeOK, NewPool

LEMMA ChatBeginKeeps == ASSUME IInv, NEW r \in Chats, ChatBegin(r) PROVE IInv'
<1>0. r \in Requests /\ r \notin Streams /\ PoolTypeOK
  BY KeyPoolAssumption DEF Requests, IInv
<1>1. PICK k \in Keys :
         /\ key' = [key EXCEPT ![r] = k]
         /\ todo' = [todo EXCEPT ![r] = Keys \ {k}]
         /\ asked' = [asked EXCEPT ![r] = [Fresh EXCEPT ![k] = 1]]
  BY DEF ChatBegin
<1>2. /\ pc[r] \in {"idle", "done"} /\ NewPool(r)
      /\ pc' = [pc EXCEPT ![r] = "calling"] /\ UNCHANGED <<skey, stodo, tried, maxRA>>
  BY DEF ChatBegin, NewPool
<1>3. PoolTypeOK' /\ reply'[r] = NoReply /\ Frame(r)
  BY <1>0, <1>1, <1>2, NewPoolType DEF PoolTypeOK, Frame, Fresh
<1>4. /\ pc'[r] = "calling" /\ key'[r] = k /\ todo'[r] = Keys \ {k}
      /\ asked'[r] = [Fresh EXCEPT ![k] = 1] /\ tried'[r] = tried[r] /\ stodo'[r] = stodo[r]
  BY <1>0, <1>1, <1>2 DEF PoolTypeOK
<1>5. Cardinality(Keys \ {k}) = NKeys - 1
  BY KeysFinite
<1>6. tried[r] = {} /\ stodo[r] = {}
  BY <1>0, <1>2 DEF IInv, Inv
<1>7. \A j \in Keys : asked'[r][j] <= Spent(r, j)'
  BY <1>0, <1>4, <1>5, KeyPoolAssumption DEF Spent, Fresh
<1>8. Inv(r)'
  BY <1>0, <1>3, <1>4, <1>6, <1>7 DEF Inv, InFlight, Flight, ChatLists, Fresh
<1>9. QED
  BY <1>0, <1>3, <1>8, FrameKeeps

\* Every key of a new pool is available, so the first pass is over all of them.
LEMMA StreamBeginKeeps == ASSUME IInv, NEW r \in Streams, StreamBegin(r) PROVE IInv'
<1>0. r \in Requests /\ r \notin Chats /\ PoolTypeOK
  BY KeyPoolAssumption DEF Requests, IInv
<1>1. PassKeys(Fresh) = Keys
  BY DEF PassKeys, AvailKeys, Fresh
<1>2. PICK k \in Keys :
         /\ skey' = [skey EXCEPT ![r] = k]
         /\ stodo' = [stodo EXCEPT ![r] = Keys \ {k}]
         /\ tried' = [tried EXCEPT ![r] = {k}]
         /\ pc' = [pc EXCEPT ![r] = "opening"]
  BY <1>1 DEF StreamBegin, StreamPass
<1>3. /\ NewPool(r) /\ UNCHANGED <<key, todo, maxRA>>
      /\ asked' = [asked EXCEPT ![r] = [Fresh EXCEPT ![k] = 1]]
  BY <1>0, <1>2 DEF StreamBegin, PoolTypeOK
<1>4. PoolTypeOK' /\ reply'[r] = NoReply /\ Frame(r)
  BY <1>0, <1>2, <1>3, NewPoolType DEF PoolTypeOK, Frame, Fresh
<1>5. /\ pc'[r] = "opening" /\ stodo'[r] = Keys \ {k} /\ tried'[r] = {k}
      /\ asked'[r] = [Fresh EXCEPT ![k] = 1]
  BY <1>0, <1>2, <1>3 DEF PoolTypeOK
<1>6. \A j \in Keys : asked'[r][j] <= Spent(r, j)'
  BY <1>5 DEF Spent, Fresh
<1>7. Inv(r)'
  BY <1>0, <1>4, <1>5, <1>6 DEF Inv, InFlight, Flight, StreamLists, Fresh
<1>8. QED
  BY <1>0, <1>4, <1>7, FrameKeeps

LEMMA ChatStepKeeps == ASSUME IInv, NEW r \in Chats, ChatStep(r) PROVE IInv'
<1>0. r \in Requests /\ r \notin Streams /\ PoolTypeOK
  BY KeyPoolAssumption DEF Requests, IInv
<1>1. CASE ChatBegin(r)
  BY <1>1, ChatBeginKeeps
<1>2. CASE ChatSucceeds(r) \/ ChatRejected(r)
  <2>1. PICK o \in Replies : o.kind \in {"ok", "raised"} /\ Finish(r, o) /\ UNCHANGED pool
    BY <1>2, ReplyTypes DEF ChatSucceeds, ChatRejected
  <2>2. InFlight(r)
    BY <1>2 DEF ChatSucceeds, ChatRejected, InFlight
  <2>3. QED
    BY <1>0, <2>1, <2>2, FinishKeeps DEF PoolTypeOK, pool
<1>3. CASE ChatKeyFails(r)
  <2>1. PICK f \in Failures : KeyFails(r, keyLeft[r], f) /\ UNCHANGED idx
    BY <1>3, FailureTypes DEF ChatKeyFails
  <2>2. InFlight(r)
    BY <1>3 DEF ChatKeyFails, InFlight
  <2>3. QED
    BY <1>0, <2>1, <2>2, KeyFailsKeeps DEF PoolTypeOK
<1>4. CASE ChatEmptyReply(r)
  <2>1. /\ pc[r] = "calling" /\ EmptyRetry /\ StreamPass(r, keyLeft[r], idx[r], {})
        /\ idx' = [idx EXCEPT ![r] = NextIdx(@)] /\ Asks(r)
        /\ UNCHANGED <<keyLeft, key, todo, maxRA, reply>>
    BY <1>4 DEF ChatEmptyReply
  <2>2. tried[r] = {} /\ stodo[r] = {} /\ InFlight(r)
    BY <1>0, <2>1 DEF IInv, Inv, InFlight
  <2>3. idx' \in [Requests -> 0..(NKeys - 1)] /\ keyLeft' \in [Requests -> [Keys -> Nat]]
    BY <1>0, <2>1, NextIdxType DEF PoolTypeOK
  <2>4. StreamPass(r, keyLeft[r], idx[r], tried[r])
    BY <2>1, <2>2
  <2>5. QED
    BY <1>0, <2>1, <2>2, <2>3, <2>4, StreamPassKeeps
<1>5. QED
  BY <1>1, <1>2, <1>3, <1>4 DEF ChatStep

\* What the invariant speaks of has nothing to do with the time.
LEMMA TickKeeps == ASSUME IInv, PoolTick PROVE IInv'
<1>1. PoolTypeOK' /\ UNCHANGED <<pc, reply, asked, key, todo, skey, stodo, tried>>
  BY DEF IInv, PoolTick, OneSecondLess, PoolTypeOK, locals
<1>2. ASSUME NEW r \in Requests PROVE Inv(r)'
  BY <1>1 DEF IInv, Inv, InFlight, Flight, StreamLists, ChatLists, Landed, Bound, Spent
<1>3. QED
  BY <1>1, <1>2 DEF IInv

LEMMA Inductive == IInv /\ [PoolNext]_poolVars => IInv'
<1> SUFFICES ASSUME IInv, [PoolNext]_poolVars PROVE IInv'
  OBVIOUS
<1>1. CASE \E r \in Chats : ChatStep(r)
  BY <1>1, ChatStepKeeps
<1>2. CASE \E r \in Streams : StreamBegin(r)
  BY <1>2, StreamBeginKeeps
<1>3. CASE \E r \in Requests : StreamAnswered(r)
  BY <1>3, StreamAnsweredKeeps
<1>4. ASSUME NEW r \in Requests, Cancel(r) PROVE IInv'
  <2>1. Finish(r, Ended("raised")) /\ InFlight(r) /\ UNCHANGED pool
    BY <1>4 DEF Cancel, InFlight
  <2>2. QED
    BY <2>1, ReplyTypes, FinishKeeps DEF IInv, PoolTypeOK, pool
<1>5. CASE PoolTick
  BY <1>5, TickKeeps
<1>6. CASE UNCHANGED poolVars
  <2>1. PoolTypeOK' /\ UNCHANGED <<pc, reply, asked, key, todo, stodo, tried>>
    BY <1>6 DEF poolVars, pool, locals, PoolTypeOK, IInv
  <2>2. ASSUME NEW r \in Requests PROVE Inv(r)'
    BY <2>1 DEF IInv, Inv, InFlight, Flight, StreamLists, ChatLists, Landed, Bound, Spent
  <2>3. QED
    BY <2>1, <2>2 DEF IInv
<1>7. QED
  BY <1>1, <1>2, <1>3, <1>4, <1>5, <1>6 DEF PoolNext

LEMMA Initially == PoolInit => IInv
<1> SUFFICES ASSUME PoolInit PROVE IInv
  OBVIOUS
<1>1. PoolTypeOK
  BY KeyPoolAssumption, ReplyTypes DEF PoolInit, PoolTypeOK, Keys, Fresh
<1>2. ASSUME NEW r \in Requests PROVE Inv(r)
  BY KeyPoolAssumption, ReplyTypes DEF PoolInit, Inv, InFlight, Landed, Bound, Fresh
<1>3. QED
  BY <1>1, <1>2 DEF IInv

LEMMA Always == PoolSpec => []IInv
BY Initially, Inductive, PTL DEF PoolSpec

\* Type correctness: cursors stay inside the key list, every deadline stays a
\* whole number of seconds and every loop only holds keys of this pool.
THEOREM TypeCorrect == PoolSpec => []PoolTypeOK
<1>1. IInv => PoolTypeOK
  BY DEF IInv
<1>2. QED
  BY <1>1, Always, PTL

\* Whatever keys fail, in whatever order and inside whatever streams, a request that
\* is told that all keys are limited has asked with every one of them, and no error of
\* the stream inside a chat is what the chat ends with.
THEOREM NobodyIsRefusedUnasked == PoolSpec => []EveryKeyAsked
<1>1. IInv => EveryKeyAsked
  BY ReplyTypes DEF IInv, Inv, Flight, Landed, EveryKeyAsked
<1>2. QED
  BY <1>1, Always, PTL

\* However often the list of keys is made anew, a stream asks with each key once and a
\* chat 1 + NKeys times at most, for any number of keys and any back-offs.
THEOREM KeysAreNotHammered == PoolSpec => []NoKeyHammered
<1>1. ASSUME IInv, NEW r \in Requests, NEW k \in Keys PROVE asked[r][k] <= Bound(r)
  <2>1. CASE InFlight(r)
    <3>1. asked[r][k] <= Spent(r, k) /\ Spent(r, k) <= Bound(r)
      BY <1>1, <2>1, SpentBound DEF IInv, Inv, Flight
    <3>2. asked[r][k] \in Int /\ Spent(r, k) \in Int /\ Bound(r) \in Int
      BY <1>1, SpentType DEF IInv
    <3>3. QED
      BY <3>1, <3>2
  <2>2. CASE ~InFlight(r)
    BY <1>1, <2>2 DEF IInv, Inv, Landed
  <2>3. QED
    BY <2>1, <2>2
<1>2. IInv => NoKeyHammered
  BY <1>1 DEF NoKeyHammered, Bound
<1>3. QED
  BY <1>2, Always, PTL
=============================================================================
