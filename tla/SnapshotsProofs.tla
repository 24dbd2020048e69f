-------------------------- MODULE SnapshotsProofs --------------------------
(* One-shot requests are answered at most once, with their own response,   *)
(* and leave nothing behind: for any number of requests, stream ids,       *)
(* places in the throttle and lost connections.                            *)
EXTENDS Snapshots, TLAPS

SMP == INSTANCE StreamManagerProofs WITH
  StartStreamID <- FirstSnapId, NumStreamIds <- NumSnapIds, Subs <- Snapshots,
  NoItem <- NoSnapshot, nextIndex <- snapNext, freeStreamIds <- snapFree,
  itemArray <- snapItems

-----------------------------------------------------------------------------
(* Queues in which nothing is twice, and responses on their way.           *)

In(q, x) == \E k \in 1 .. Len(q) : q[k] = x
NoTwice(q) == \A j, k \in 1 .. Len(q) : q[j] = q[k] => j = k
Wired(w, s) == \E k \in 1 .. Len(w) : w[k].of = s
Decided(w, s) == \E k \in 1 .. Len(w) : w[k].of = s /\ w[k].state # "suspect"

(* The rest of a queue. *)
LEMMA TailOf ==
  ASSUME NEW S, NEW q \in Seq(S), q # << >>
  PROVE  /\ Head(q) \in S /\ Head(q) = q[1] /\ 1 \in 1 .. Len(q)
         /\ Tail(q) \in Seq(S)
         /\ Len(q) \in Nat /\ Len(Tail(q)) = Len(q) - 1
         /\ \A k \in 1 .. Len(Tail(q)) : /\ k + 1 \in 1 .. Len(q)
                                         /\ Tail(q)[k] = q[k + 1]
  OBVIOUS

(* The first of a queue without repetition is not in the rest. *)
LEMMA FirstLeaves ==
  ASSUME NEW S, NEW q \in Seq(S), q # << >>, NoTwice(q)
  PROVE  /\ NoTwice(Tail(q)) /\ In(q, Head(q))
         /\ \A x : In(Tail(q), x) <=> In(q, x) /\ x # Head(q)
<1> PICK t, h : t = Tail(q) /\ h = Head(q)
  OBVIOUS
<1>1. /\ h = q[1] /\ 1 \in 1 .. Len(q) /\ Len(q) \in Nat
      /\ Len(t) = Len(q) - 1
      /\ \A k \in 1 .. Len(t) : k + 1 \in 1 .. Len(q) /\ t[k] = q[k + 1]
  BY TailOf
<1>2. NoTwice(t) /\ In(q, h)
  BY <1>1 DEF NoTwice, In
<1>3. ASSUME NEW x, In(t, x)
      PROVE  In(q, x) /\ x # h
  BY <1>1, <1>3 DEF NoTwice, In
<1>4. ASSUME NEW x, In(q, x), x # h
      PROVE  In(t, x)
  <2>1. PICK k \in 1 .. Len(q) : q[k] = x
    BY <1>4 DEF In
  <2>2. k - 1 \in 1 .. Len(t)
    BY <1>1, <1>4, <2>1
  <2>3. t[k - 1] = q[k - 1 + 1]
    BY <1>1, <2>2
  <2> QED
    BY <2>1, <2>2, <2>3 DEF In
<1> QED
  BY <1>2, <1>3, <1>4

(* Who joins a queue is in it once, unless there before. *)
LEMMA LastJoins ==
  ASSUME NEW S, NEW q \in Seq(S), NEW e \in S
  PROVE  /\ \A x : In(Append(q, e), x) <=> In(q, x) \/ x = e
         /\ NoTwice(q) /\ ~In(q, e) => NoTwice(Append(q, e))
<1>1. PICK a : a = Append(q, e)
  OBVIOUS
<1>2. /\ Len(q) \in Nat /\ Len(a) = Len(q) + 1 /\ a[Len(q) + 1] = e
      /\ \A k \in 1 .. Len(q) : a[k] = q[k]
  BY <1>1
<1>3. \A x : In(a, x) <=> In(q, x) \/ x = e
  BY <1>2 DEF In
<1>4. ASSUME NoTwice(q), ~In(q, e), NEW j \in 1 .. Len(a),
             NEW k \in 1 .. Len(a), a[j] = a[k]
      PROVE  j = k
  <2>1. CASE j \in 1 .. Len(q) /\ k \in 1 .. Len(q)
    BY <1>2, <1>4, <2>1 DEF NoTwice
  <2>2. CASE j \in 1 .. Len(q) /\ k \notin 1 .. Len(q)
    BY <1>2, <1>4, <2>2 DEF In
  <2>3. CASE j \notin 1 .. Len(q) /\ k \in 1 .. Len(q)
    BY <1>2, <1>4, <2>3 DEF In
  <2>4. CASE j \notin 1 .. Len(q) /\ k \notin 1 .. Len(q)
    BY <1>2, <2>4
  <2> QED
    BY <2>1, <2>2, <2>3, <2>4
<1>5. NoTwice(q) /\ ~In(q, e) => NoTwice(a)
  BY <1>4 DEF NoTwice
<1> QED
  BY <1>1, <1>3, <1>5

(* What is left on the wire once a response was taken from it. *)
LEMMA ResponseTaken ==
  ASSUME NEW S, NEW w \in Seq(S), w # << >>
  PROVE  /\ \A s : Wired(Tail(w), s) => Wired(w, s)
         /\ \A s : Decided(w, s) => \/ Decided(Tail(w), s)
                                    \/ Head(w).of = s /\ Head(w).state # "suspect"
<1> PICK t, h : t = Tail(w) /\ h = Head(w)
  OBVIOUS
<1>1. /\ h = w[1] /\ 1 \in 1 .. Len(w) /\ Len(w) \in Nat
      /\ Len(t) = Len(w) - 1
      /\ \A k \in 1 .. Len(t) : k + 1 \in 1 .. Len(w) /\ t[k] = w[k + 1]
  BY TailOf
<1>2. ASSUME NEW s, Wired(t, s)
      PROVE  Wired(w, s)
  BY <1>1, <1>2 DEF Wired
<1>3. ASSUME NEW s, Decided(w, s), ~(h.of = s /\ h.state # "suspect")
      PROVE  Decided(t, s)
  <2>1. PICK k \in 1 .. Len(w) : w[k].of = s /\ w[k].state # "suspect"
    BY <1>3 DEF Decided
  <2>2. k - 1 \in 1 .. Len(t)
    BY <1>1, <1>3, <2>1
  <2>3. t[k - 1] = w[k - 1 + 1]
    BY <1>1, <2>2
  <2> QED
    BY <2>1, <2>2, <2>3 DEF Decided
<1> QED
  BY <1>2, <1>3

(* What is on the wire once responses were added to it. *)
LEMMA ResponsesJoin ==
  ASSUME NEW S, NEW w \in Seq(S), NEW news \in Seq(S)
  PROVE  /\ w \o news \in Seq(S)
         /\ \A s : Wired(w \o news, s) <=> Wired(w, s) \/ Wired(news, s)
         /\ \A s : Decided(w \o news, s) <=> Decided(w, s) \/ Decided(news, s)
<1>1. PICK a : a = w \o news
  OBVIOUS
<1>2. /\ Len(w) \in Nat /\ Len(news) \in Nat /\ Len(a) = Len(w) + Len(news)
      /\ \A k \in 1 .. Len(w) : a[k] = w[k]
      /\ \A k \in 1 .. Len(news) : a[Len(w) + k] = news[k]
      /\ a \in Seq(S)
  BY <1>1
<1>3. \A k \in 1 .. Len(a) : \/ k \in 1 .. Len(w) /\ a[k] = w[k]
                            \/ \E j \in 1 .. Len(news) : a[k] = news[j]
  <2> SUFFICES ASSUME NEW k \in 1 .. Len(a), k \notin 1 .. Len(w)
               PROVE  \E j \in 1 .. Len(news) : a[k] = news[j]
    BY <1>2
  <2>1. k - Len(w) \in 1 .. Len(news)
    BY <1>2
  <2>2. a[Len(w) + (k - Len(w))] = news[k - Len(w)]
    BY <1>2, <2>1
  <2>3. Len(w) + (k - Len(w)) = k
    BY <1>2
  <2> QED
    BY <2>1, <2>2, <2>3
<1>4. \A k \in 1 .. Len(w) : k \in 1 .. Len(a)
  BY <1>2
<1>5. \A k \in 1 .. Len(news) : Len(w) + k \in 1 .. Len(a)
  BY <1>2
<1>6. \A s : Wired(a, s) <=> Wired(w, s) \/ Wired(news, s)
  <2>1. ASSUME NEW s, Wired(a, s)
        PROVE  Wired(w, s) \/ Wired(news, s)
    BY <1>3, <2>1 DEF Wired
  <2>2. ASSUME NEW s, Wired(w, s)
        PROVE  Wired(a, s)
    <3>1. PICK k \in 1 .. Len(w) : w[k].of = s
      BY <2>2 DEF Wired
    <3>2. k \in 1 .. Len(a) /\ a[k].of = s
      BY <1>2, <1>4, <3>1
    <3> QED
      BY <3>2 DEF Wired
  <2>3. ASSUME NEW s, Wired(news, s)
        PROVE  Wired(a, s)
    <3>1. PICK k \in 1 .. Len(news) : news[k].of = s
      BY <2>3 DEF Wired
    <3>2. Len(w) + k \in 1 .. Len(a) /\ a[Len(w) + k].of = s
      BY <1>2, <1>5, <3>1
    <3> QED
      BY <3>2 DEF Wired
  <2> QED
    BY <2>1, <2>2, <2>3
<1>7. ASSUME NEW s
      PROVE  Decided(a, s) <=> Decided(w, s) \/ Decided(news, s)
  <2>1. ASSUME Decided(a, s)
        PROVE  Decided(w, s) \/ Decided(news, s)
    BY <1>3, <2>1 DEF Decided
  <2>2. ASSUME Decided(w, s)
        PROVE  Decided(a, s)
    BY <1>2, <1>4, <2>2 DEF Decided
  <2>3. ASSUME Decided(news, s)
        PROVE  Decided(a, s)
    <3>1. PICK k \in 1 .. Len(news) : news[k].of = s /\ news[k].state # "suspect"
      BY <2>3 DEF Decided
    <3>2. Len(w) + k \in 1 .. Len(a) /\ a[Len(w) + k] = news[k]
      BY <1>2, <1>5
    <3> QED
      BY <3>1, <3>2 DEF Decided
  <2> QED
    BY <2>1, <2>2, <2>3
<1> QED
  BY <1>1, <1>2, <1>6, <1>7

-----------------------------------------------------------------------------
(* The inductive invariant.                                                *)

Slots == 0 .. NumSnapIds - 1
Slot(s) == streamOf[s] - FirstSnapId

Responses == [id : Nat, of : Snapshots, class : {"refresh", "status"},
              state : {"nonStreaming", "closed", "suspect"}, decodes : BOOLEAN]

SnapshotTypes ==
  /\ pendingSnapshots \in Seq(Snapshots) /\ snapQueue \in Seq(Snapshots)
  /\ snapState \in [Snapshots -> {"new", "asked", "Subscribing", "Inactive", "Stale"}]
  /\ streamOf \in [Snapshots -> Nat]
  /\ hasReply \subseteq Snapshots /\ snapPending \subseteq Snapshots
  /\ owed \subseteq Snapshots /\ givenUp \subseteq Snapshots
  /\ snapWire \in Seq(Responses)
  /\ answers \in [Snapshots -> Seq([how : {"refresh", "status"}, of : Snapshots])]

Expected(s) == s \in owed \/ Wired(snapWire, s)

\* Each is in one place at a time on its way from the client to the RMDS.
Stages == \A s \in Snapshots :
  /\ In(pendingSnapshots, s) => snapState[s] = "asked"
  /\ In(snapQueue, s) => /\ s \in hasReply /\ snapState[s] = "Subscribing"
                         /\ ~Expected(s) /\ s \notin snapPending
  /\ snapState[s] \in {"new", "asked"} => s \notin hasReply /\ ~Expected(s)
  /\ s \in snapPending => s \in hasReply /\ snapState[s] = "Subscribing"

\* The table and the stream ids agree.
Owned == \A i \in Slots : \A s \in Snapshots : snapItems[i] = s =>
  Slot(s) = i /\ s \in hasReply /\ ~In(snapQueue, s)

\* Responses carry the id of their stream, and whoever owns the id now knows
\* it has been had before.
Labelled ==
  /\ \A k \in 1 .. Len(snapWire) : snapWire[k].id = streamOf[snapWire[k].of]
  /\ \A s \in Snapshots : Expected(s) =>
       Slot(s) \in Slots /\ snapItems[Slot(s)] \in {s, NoSnapshot} \cup givenUp

\* Whose exchange goes well is queued, or owns its id and will be answered.
UnderWay == \A s \in hasReply : s \notin givenUp =>
  \/ In(snapQueue, s)
  \/ /\ Slot(s) \in Slots /\ snapItems[Slot(s)] = s
     /\ snapState[s] # "Inactive" /\ (s \in owed \/ Decided(snapWire, s))

Answered == \A s \in Snapshots :
  /\ s \in hasReply \/ snapState[s] \in {"new", "asked"} => answers[s] = << >>
  /\ Len(answers[s]) <= 1
  /\ \A k \in DOMAIN answers[s] : answers[s][k].of = s \/ s \in givenUp
  /\ s \notin givenUp /\ s \notin hasReply /\ snapState[s] # "new" =>
       In(pendingSnapshots, s) \/ answers[s] # << >>

Queues == NoTwice(pendingSnapshots) /\ NoTwice(snapQueue)

TableInv == Table!TypeOK /\ Table!IdsPartitioned

Inv == /\ SnapshotTypes /\ TableInv /\ Queues /\ Stages /\ Owned /\ Labelled
       /\ UnderWay /\ Answered

-----------------------------------------------------------------------------
(* The table of stream ids.                                                *)

(* A snapshot that gets an id gets a free one. *)
LEMMA IdTaken ==
  ASSUME TableInv, NEW s \in Snapshots, Table!AddItem(s)
  PROVE  /\ TableInv'
         /\ \E i \in Slots :
              /\ snapItems[i] = NoSnapshot
              /\ snapItems' = [snapItems EXCEPT ![i] = s]
              /\ Table!Index2StreamId(Table!NextFreeIndex) = i + FirstSnapId
<1>1. SMP!StreamManagerAssumption
  BY SnapshotsAssumption DEF SMP!StreamManagerAssumption
<1>2. SMP!TypeOK /\ SMP!IdsPartitioned
  BY DEF TableInv, Table!TypeOK, SMP!TypeOK, Table!IdsPartitioned, SMP!IdsPartitioned,
         Table!IsListed, SMP!IsListed, Table!Indices, SMP!Indices
<1>3. SMP!AddItem(s)
  BY DEF Table!AddItem, SMP!AddItem, Table!HasFreeSlot, SMP!HasFreeSlot,
         Table!FreshIndexLeft, SMP!FreshIndexLeft, Table!NextFreeIndex,
         SMP!NextFreeIndex
<1>4. SMP!IdsPartitioned'
  BY <1>1, <1>2, <1>3, SMP!FreshKeepsPartition, SMP!ReuseKeepsPartition
<1>5. Table!IdsPartitioned'
  BY <1>4
  DEF Table!IdsPartitioned, SMP!IdsPartitioned, Table!IsListed, SMP!IsListed,
      Table!Indices, SMP!Indices
<1>6. PICK i : i = Table!NextFreeIndex
  OBVIOUS
<1>7. /\ Table!FreshIndexLeft \/ snapFree # << >>
      /\ snapNext \in 0 .. NumSnapIds /\ snapFree \in Seq(Slots)
      /\ snapItems \in [Slots -> Snapshots \cup {NoSnapshot}]
      /\ snapItems' = [snapItems EXCEPT ![i] = s]
  BY <1>6 DEF Table!AddItem, Table!HasFreeSlot, TableInv, Table!TypeOK, Table!Indices, Slots
<1>8. CASE Table!FreshIndexLeft
  <2>1. i = snapNext /\ i \in Slots
    BY <1>6, <1>7, <1>8, SnapshotsAssumption
    DEF Table!NextFreeIndex, Table!FreshIndexLeft, Slots
  <2>2. snapItems[i] = NoSnapshot
    BY <2>1 DEF TableInv, Table!IdsPartitioned, Table!Indices, Slots
  <2>3. snapNext' = snapNext + 1 /\ snapFree' = snapFree
    BY <1>8 DEF Table!AddItem
  <2>4. Table!TypeOK'
    <3>1. snapItems' \in [Slots -> Snapshots \cup {NoSnapshot}]
      BY <1>7, <2>1
    <3>2. snapFree' \in Seq(Slots) /\ snapNext' \in 0 .. NumSnapIds
      BY <1>7, <2>1, <2>3, SnapshotsAssumption DEF Slots
    <3> QED
      BY <3>1, <3>2 DEF Table!TypeOK, Table!Indices, Slots
  <2> QED
    BY <1>5, <1>6, <1>7, <2>1, <2>2, <2>4 DEF TableInv, Table!Index2StreamId
<1>9. CASE ~Table!FreshIndexLeft
  <2>1. i = Head(snapFree) /\ i \in Slots /\ Tail(snapFree) \in Seq(Slots)
    BY <1>6, <1>7, <1>9 DEF Table!NextFreeIndex
  <2>2. Table!IsListed(i)
    BY <1>7, <1>9, <2>1, TailOf DEF Table!IsListed
  <2>3. snapItems[i] = NoSnapshot
    BY <2>1, <2>2 DEF TableInv, Table!IdsPartitioned, Table!Indices, Slots
  <2>4. snapFree' = Tail(snapFree) /\ snapNext' = snapNext
    BY <1>9 DEF Table!AddItem
  <2>5. Table!TypeOK'
    <3>1. snapItems' \in [Slots -> Snapshots \cup {NoSnapshot}]
      BY <1>7, <2>1
    <3>2. snapFree' \in Seq(Slots) /\ snapNext' \in 0 .. NumSnapIds
      BY <1>7, <2>1, <2>4
    <3> QED
      BY <3>1, <3>2 DEF Table!TypeOK, Table!Indices, Slots
  <2> QED
    BY <1>5, <1>6, <1>7, <2>1, <2>3, <2>5 DEF TableInv, Table!Index2StreamId
<1> QED
  BY <1>8, <1>9

(* The id of a snapshot comes back to the table. *)
LEMMA IdReleased ==
  ASSUME TableInv, NEW i \in Slots, snapItems[i] # NoSnapshot,
         Table!ReleaseStreamId(i + FirstSnapId)
  PROVE  TableInv' /\ snapItems' = [snapItems EXCEPT ![i] = NoSnapshot]
<1>1. SMP!StreamManagerAssumption
  BY SnapshotsAssumption DEF SMP!StreamManagerAssumption
<1>2. SMP!TypeOK /\ SMP!IdsPartitioned
  BY DEF TableInv, Table!TypeOK, SMP!TypeOK, Table!IdsPartitioned, SMP!IdsPartitioned,
         Table!IsListed, SMP!IsListed, Table!Indices, SMP!Indices
<1>3. i \in SMP!Indices /\ SMP!ReleaseStreamId(SMP!Index2StreamId(i))
  BY DEF Slots, SMP!Indices, Table!ReleaseStreamId, SMP!ReleaseStreamId,
         SMP!Index2StreamId, Table!StreamId2Index, SMP!StreamId2Index
<1>4. SMP!IdsPartitioned'
  BY <1>1, <1>2, <1>3, SMP!ReleaseKeepsPartition
<1>5. Table!IdsPartitioned'
  BY <1>4
  DEF Table!IdsPartitioned, SMP!IdsPartitioned, Table!IsListed, SMP!IsListed,
      Table!Indices, SMP!Indices
<1>6. Table!StreamId2Index(i + FirstSnapId) = i
  BY SnapshotsAssumption DEF Slots, Table!StreamId2Index
<1>7. /\ snapItems' = [snapItems EXCEPT ![i] = NoSnapshot]
      /\ snapFree' = Append(snapFree, i) /\ snapNext' = snapNext
  BY <1>6 DEF Table!ReleaseStreamId
<1>8. Table!TypeOK'
  BY <1>7 DEF TableInv, Table!TypeOK, Table!Indices, Slots
<1> QED
  BY <1>5, <1>7, <1>8 DEF TableInv

-----------------------------------------------------------------------------
(* The client, the source and the request queue.                           *)

(* The invariant holds at first. *)
LEMMA InitEstablishes == SnapshotsInit => Inv
<1> SUFFICES ASSUME SnapshotsInit PROVE Inv
  OBVIOUS
<1>1. SnapshotTypes
  BY DEF SnapshotsInit, SnapshotTypes
<1>2. snapNext = 0 /\ snapFree = << >> /\ snapItems = [i \in Slots |-> NoSnapshot]
  BY DEF SnapshotsInit, Table!Init, Table!Indices, Slots
<1>3. TableInv
  BY <1>2, SnapshotsAssumption
  DEF TableInv, Table!TypeOK, Table!IdsPartitioned, Table!IsListed, Table!Indices, Slots
<1>4. Queues /\ Stages /\ UnderWay
  BY DEF SnapshotsInit, Queues, NoTwice, Stages, In, Expected, Wired, UnderWay
<1>5. Owned
  BY <1>2, SnapshotsAssumption DEF Owned
<1>6. Labelled
  BY DEF SnapshotsInit, Labelled, Expected, Wired
<1>7. Answered
  BY DEF SnapshotsInit, Answered
<1> QED
  BY <1>1, <1>3, <1>4, <1>5, <1>6, <1>7 DEF Inv

(* A snapshot is asked for. *)
LEMMA AskKeeps ==
  ASSUME Inv, NEW s \in Snapshots, SendSnapshotRequest(s)
  PROVE  Inv'
<1>1. /\ snapState[s] = "new" /\ snapState' = [snapState EXCEPT ![s] = "asked"]
      /\ pendingSnapshots' = Append(pendingSnapshots, s)
      /\ UNCHANGED <<snapQueue, streamOf, hasReply, snapNext, snapFree, snapItems,
                     snapPending, snapSession, losses, owed, snapWire, answers, givenUp>>
  BY DEF SendSnapshotRequest, tableVars, lineVars
<1>2. SnapshotTypes'
  BY <1>1 DEF Inv, SnapshotTypes
<1>3. TableInv'
  BY <1>1 DEF Inv, TableInv, Table!TypeOK, Table!IdsPartitioned, Table!IsListed
<1>4. ~In(pendingSnapshots, s) /\ ~In(snapQueue, s)
  BY <1>1 DEF Inv, Stages
<1>5. \A x : In(pendingSnapshots', x) <=> In(pendingSnapshots, x) \/ x = s
  BY <1>1, LastJoins DEF Inv, SnapshotTypes
<1>6. Queues'
  BY <1>1, <1>4, LastJoins DEF Inv, SnapshotTypes, Queues
<1>7. \A x : Expected(x)' <=> Expected(x)
  BY <1>1 DEF Expected
<1>8. Stages'
  BY <1>1, <1>5, <1>7 DEF Inv, Stages, SnapshotTypes
<1>9. Owned' /\ Labelled'
  BY <1>1, <1>7 DEF Inv, Owned, Labelled, Slot
<1>10. UnderWay'
  BY <1>1 DEF Inv, UnderWay, Slot, SnapshotTypes
<1>11. Answered'
  BY <1>1, <1>5 DEF Inv, Answered, SnapshotTypes
<1> QED
  BY <1>2, <1>3, <1>6, <1>8, <1>9, <1>10, <1>11 DEF Inv

(* A snapshot whose source is found joins the queue, another is given up. *)
LEMMA SourceKeeps ==
  ASSUME Inv, AddSnapshotToSource
  PROVE  Inv'
<1>1. PICK s : s = Head(pendingSnapshots)
  OBVIOUS
<1>2. /\ pendingSnapshots # << >> /\ pendingSnapshots' = Tail(pendingSnapshots)
      /\ UNCHANGED <<streamOf, snapNext, snapFree, snapItems, snapPending, owed,
                     snapWire, answers>>
      /\ \/ /\ givenUp' = givenUp \cup {s}
            /\ UNCHANGED <<snapQueue, snapState, hasReply>>
         \/ /\ snapState' = [snapState EXCEPT ![s] = "Subscribing"]
            /\ hasReply' = hasReply \cup {s}
            /\ snapQueue' = Append(snapQueue, s)
            /\ givenUp' = givenUp
  BY <1>1 DEF AddSnapshotToSource, tableVars, lineVars
<1>3. /\ s \in Snapshots /\ In(pendingSnapshots, s)
      /\ NoTwice(pendingSnapshots')
      /\ \A x : In(pendingSnapshots', x) <=> In(pendingSnapshots, x) /\ x # s
  BY <1>1, <1>2, TailOf, FirstLeaves DEF Inv, SnapshotTypes, Queues
<1>4. /\ snapState[s] = "asked" /\ s \notin hasReply /\ ~Expected(s)
      /\ s \notin snapPending /\ ~In(snapQueue, s) /\ answers[s] = << >>
  BY <1>3 DEF Inv, Stages, Answered
<1>5. \A x : Expected(x)' <=> Expected(x)
  BY <1>2 DEF Expected
<1>6. TableInv'
  BY <1>2 DEF Inv, TableInv, Table!TypeOK, Table!IdsPartitioned, Table!IsListed
<1>7. pendingSnapshots' \in Seq(Snapshots)
  BY <1>2, TailOf DEF Inv, SnapshotTypes
<1>8. CASE /\ givenUp' = givenUp \cup {s}
           /\ UNCHANGED <<snapQueue, snapState, hasReply>>
  <2>1. SnapshotTypes'
    BY <1>2, <1>3, <1>7, <1>8 DEF Inv, SnapshotTypes
  <2>2. Queues' /\ Stages'
    BY <1>2, <1>3, <1>5, <1>8 DEF Inv, Queues, Stages
  <2>3. Owned' /\ Labelled'
    BY <1>2, <1>5, <1>8 DEF Inv, Owned, Labelled, Slot
  <2>4. UnderWay'
    BY <1>2, <1>8 DEF Inv, UnderWay, Slot
  <2>5. Answered'
    BY <1>2, <1>3, <1>8 DEF Inv, Answered
  <2> QED
    BY <1>6, <2>1, <2>2, <2>3, <2>4, <2>5 DEF Inv
<1>9. CASE /\ snapState' = [snapState EXCEPT ![s] = "Subscribing"]
           /\ hasReply' = hasReply \cup {s}
           /\ snapQueue' = Append(snapQueue, s)
           /\ givenUp' = givenUp
  <2>1. SnapshotTypes'
    BY <1>2, <1>3, <1>7, <1>9 DEF Inv, SnapshotTypes
  <2>2. /\ NoTwice(snapQueue')
        /\ \A x : In(snapQueue', x) <=> In(snapQueue, x) \/ x = s
    BY <1>3, <1>4, <1>9, LastJoins DEF Inv, SnapshotTypes, Queues
  <2>3. \A x \in Snapshots : x # s => snapState'[x] = snapState[x]
    BY <1>9 DEF Inv, SnapshotTypes
  <2>4. snapState'[s] = "Subscribing"
    BY <1>3, <1>9 DEF Inv, SnapshotTypes
  <2>5. Queues' /\ Stages'
    BY <1>2, <1>3, <1>4, <1>5, <1>9, <2>2, <2>3, <2>4 DEF Inv, Queues, Stages
  <2>6. Owned'
    <3>1. ASSUME NEW i \in Slots, snapItems[i] = s
          PROVE  FALSE
      BY <1>3, <1>4, <3>1 DEF Inv, Owned
    <3> QED
      BY <1>2, <1>9, <2>2, <3>1 DEF Inv, Owned, Slot
  <2>7. Labelled'
    BY <1>2, <1>5, <1>9 DEF Inv, Labelled, Slot
  <2>8. UnderWay'
    BY <1>2, <1>9, <2>2, <2>3 DEF Inv, UnderWay, Slot, SnapshotTypes
  <2>9. Answered'
    BY <1>2, <1>3, <1>4, <1>9, <2>3, <2>4 DEF Inv, Answered
  <2> QED
    BY <1>6, <2>1, <2>5, <2>6, <2>7, <2>8, <2>9 DEF Inv
<1> QED
  BY <1>2, <1>8, <1>9

\* What the request queue's callback changes besides the queue: nothing but
\* givenUp when the table is full, otherwise the table, and who is expected.
(* A request is sent with an id of its own, or given up. *)
LEMMA RequestOf ==
  ASSUME Inv, SnapshotRequestCb, NEW s, s = Head(snapQueue)
  PROVE  /\ snapQueue # << >> /\ snapQueue' = Tail(snapQueue)
         /\ UNCHANGED <<pendingSnapshots, snapState, hasReply, snapWire, answers>>
         /\ \/ /\ givenUp' = givenUp \cup {s}
               /\ UNCHANGED <<streamOf, snapNext, snapFree, snapItems, snapPending, owed>>
            \/ /\ Table!AddItem(s)
               /\ streamOf' = [streamOf EXCEPT ![s] =
                                  Table!Index2StreamId(Table!NextFreeIndex)]
               /\ snapPending' \in {snapPending, snapPending \cup {s}}
               /\ \/ s \in givenUp' /\ owed' \in {owed, owed \cup {s}}
                  \/ owed' = owed \cup {s} /\ ~StillOnItsWay(streamOf'[s])
               /\ givenUp' \in {givenUp, givenUp \cup {s}}
<1>1. /\ snapQueue # << >> /\ snapQueue' = Tail(snapQueue)
      /\ UNCHANGED <<pendingSnapshots, snapState, hasReply, snapWire, answers>>
  BY DEF SnapshotRequestCb
<1>2. CASE /\ ~Table!HasFreeSlot
           /\ givenUp' = givenUp \cup {s}
           /\ UNCHANGED <<streamOf, tableVars, snapPending, owed>>
  BY <1>1, <1>2 DEF tableVars
<1>3. ASSUME NEW outcome \in Sending,
             Table!AddItem(s),
             streamOf' = [streamOf EXCEPT ![s] = Table!Index2StreamId(Table!NextFreeIndex)],
             IF outcome = "sent"
             THEN /\ snapPending' = snapPending \cup {s}
                  /\ owed' \in {owed \cup {s}} \cup IF snapSession = "live" THEN {} ELSE {owed}
                  /\ givenUp' = IF owed' = owed \/ StillOnItsWay(streamOf'[s])
                                THEN givenUp \cup {s} ELSE givenUp
             ELSE /\ givenUp' = givenUp \cup {s}
                  /\ UNCHANGED <<snapPending, owed>>
      PROVE  /\ snapPending' \in {snapPending, snapPending \cup {s}}
             /\ \/ s \in givenUp' /\ owed' \in {owed, owed \cup {s}}
                \/ owed' = owed \cup {s} /\ ~StillOnItsWay(streamOf'[s])
             /\ givenUp' \in {givenUp, givenUp \cup {s}}
  <2>1. CASE outcome = "sent"
    <3>1. owed' \in {owed, owed \cup {s}}
      BY <1>3, <2>1
    <3>2. CASE owed' = owed \/ StillOnItsWay(streamOf'[s])
      BY <1>3, <2>1, <3>1, <3>2
    <3>3. CASE owed' # owed /\ ~StillOnItsWay(streamOf'[s])
      BY <1>3, <2>1, <3>1, <3>3
    <3> QED
      BY <3>2, <3>3
  <2>2. CASE outcome # "sent"
    BY <1>3, <2>2
  <2> QED
    BY <2>1, <2>2
<1> QED
  BY <1>1, <1>2, <1>3 DEF SnapshotRequestCb

(* Sending a request keeps the invariant. *)
LEMMA RequestKeeps ==
  ASSUME Inv, SnapshotRequestCb
  PROVE  Inv'
<1>1. PICK s : s = Head(snapQueue)
  OBVIOUS
<1>2. /\ snapQueue # << >> /\ snapQueue' = Tail(snapQueue)
      /\ UNCHANGED <<pendingSnapshots, snapState, hasReply, snapWire, answers>>
  BY <1>1, RequestOf
<1>3. /\ s \in Snapshots /\ In(snapQueue, s) /\ NoTwice(snapQueue')
      /\ snapQueue' \in Seq(Snapshots)
      /\ \A x : In(snapQueue', x) <=> In(snapQueue, x) /\ x # s
  BY <1>1, <1>2, TailOf, FirstLeaves DEF Inv, SnapshotTypes, Queues
<1>4. /\ s \in hasReply /\ snapState[s] = "Subscribing" /\ ~Expected(s)
      /\ s \notin snapPending
  BY <1>3 DEF Inv, Stages
<1>5. Queues'
  BY <1>2, <1>3 DEF Inv, Queues
<1>6. ASSUME givenUp' = givenUp \cup {s},
             UNCHANGED <<streamOf, snapNext, snapFree, snapItems, snapPending, owed>>
      PROVE  Inv'
  <2>1. SnapshotTypes'
    BY <1>2, <1>3, <1>6 DEF Inv, SnapshotTypes
  <2>2. TableInv'
    BY <1>6 DEF Inv, TableInv, Table!TypeOK, Table!IdsPartitioned, Table!IsListed
  <2>3. \A x : Expected(x)' <=> Expected(x)
    BY <1>2, <1>6 DEF Expected
  <2>4. Stages'
    BY <1>2, <1>3, <1>6, <2>3 DEF Inv, Stages
  <2>5. Owned'
    BY <1>2, <1>3, <1>6 DEF Inv, Owned, Slot
  <2>6. Labelled'
    BY <1>2, <1>6, <2>3 DEF Inv, Labelled, Slot
  <2>7. UnderWay' /\ Answered'
    BY <1>2, <1>3, <1>6 DEF Inv, UnderWay, Answered, Slot
  <2> QED
    BY <1>5, <2>1, <2>2, <2>4, <2>5, <2>6, <2>7 DEF Inv
<1>7. ASSUME Table!AddItem(s),
             streamOf' = [streamOf EXCEPT ![s] = Table!Index2StreamId(Table!NextFreeIndex)],
             snapPending' \in {snapPending, snapPending \cup {s}},
             \/ s \in givenUp' /\ owed' \in {owed, owed \cup {s}}
             \/ owed' = owed \cup {s} /\ ~StillOnItsWay(streamOf'[s]),
             givenUp' \in {givenUp, givenUp \cup {s}}
      PROVE  Inv'
  <2>1. PICK i \in Slots :
          /\ snapItems[i] = NoSnapshot
          /\ snapItems' = [snapItems EXCEPT ![i] = s]
          /\ Table!Index2StreamId(Table!NextFreeIndex) = i + FirstSnapId
    BY <1>3, <1>7, IdTaken DEF Inv
  <2>2. TableInv'
    BY <1>3, <1>7, IdTaken DEF Inv
  <2>3. /\ streamOf' = [streamOf EXCEPT ![s] = i + FirstSnapId]
        /\ i + FirstSnapId \in Nat /\ i + FirstSnapId - FirstSnapId = i
    BY <1>7, <2>1, SnapshotsAssumption DEF Slots
  <2>4. /\ streamOf'[s] = i + FirstSnapId /\ Slot(s)' = i
        /\ \A x \in Snapshots : x # s => streamOf'[x] = streamOf[x] /\ Slot(x)' = Slot(x)
    <3>1. /\ streamOf'[s] = i + FirstSnapId
          /\ \A x \in Snapshots : x # s => streamOf'[x] = streamOf[x]
      BY <1>3, <2>3 DEF Inv, SnapshotTypes
    <3>2. Slot(s)' = i
      <4>1. Slot(s)' = streamOf'[s] - FirstSnapId
        BY DEF Slot
      <4>2. i \in Int /\ FirstSnapId \in Int
        BY SnapshotsAssumption DEF Slots
      <4> QED
        BY <3>1, <4>1, <4>2
    <3>3. \A x \in Snapshots : x # s => Slot(x)' = Slot(x)
      BY <3>1 DEF Slot
    <3> QED
      BY <3>1, <3>2, <3>3
  <2>5. /\ snapItems'[i] = s
        /\ \A j \in Slots : j # i => snapItems'[j] = snapItems[j]
    BY <2>1 DEF Inv, TableInv, Table!TypeOK, Table!Indices, Slots
  <2>6. SnapshotTypes'
    BY <1>2, <1>3, <1>7, <2>3 DEF Inv, SnapshotTypes
  <2>7. \A x : x # s => (Expected(x)' <=> Expected(x))
    BY <1>2, <1>7 DEF Expected
  <2>8. Stages'
    <3>1. ~In(snapQueue', s)
      BY <1>3
    <3>2. ASSUME NEW x \in Snapshots, x # s
          PROVE  /\ In(pendingSnapshots', x) => snapState'[x] = "asked"
                 /\ In(snapQueue', x) => /\ x \in hasReply' /\ snapState'[x] = "Subscribing"
                                         /\ ~Expected(x)' /\ x \notin snapPending'
                 /\ snapState'[x] \in {"new", "asked"} => x \notin hasReply' /\ ~Expected(x)'
                 /\ x \in snapPending' => x \in hasReply' /\ snapState'[x] = "Subscribing"
      BY <1>2, <1>3, <1>7, <2>7, <3>2 DEF Inv, Stages
    <3>3. In(pendingSnapshots', s) => snapState'[s] = "asked"
      BY <1>2, <1>3 DEF Inv, Stages
    <3> QED
      BY <1>2, <1>4, <3>1, <3>2, <3>3 DEF Stages
  <2>9. Owned'
    <3> SUFFICES ASSUME NEW j \in Slots, NEW x \in Snapshots, snapItems'[j] = x
                 PROVE  Slot(x)' = j /\ x \in hasReply' /\ ~In(snapQueue', x)
      BY DEF Owned
    <3>1. CASE j = i
      BY <1>2, <1>3, <1>4, <2>4, <2>5, <3>1
    <3>2. CASE j # i
      <4>1. snapItems[j] = x
        BY <2>5, <3>2
      <4>2. Slot(x) = j /\ x \in hasReply /\ ~In(snapQueue, x)
        BY <4>1 DEF Inv, Owned
      <4> QED
        BY <1>2, <1>3, <2>4, <4>2
    <3> QED
      BY <3>1, <3>2
  <2>10. Labelled'
    <3>1. ASSUME NEW k \in 1 .. Len(snapWire)
          PROVE  snapWire[k].id = streamOf'[snapWire[k].of]
      <4>1. snapWire[k] \in Responses
        BY DEF Inv, SnapshotTypes
      <4>2. snapWire[k].of \in Snapshots /\ snapWire[k].of # s
        BY <1>4, <4>1 DEF Responses, Expected, Wired
      <4> QED
        BY <2>4, <4>2 DEF Inv, Labelled
    <3>2. ASSUME NEW x \in Snapshots, Expected(x)'
          PROVE  Slot(x)' \in Slots /\ snapItems'[Slot(x)'] \in {x, NoSnapshot} \cup givenUp'
      <4>1. CASE x = s
        BY <2>4, <2>5, <4>1
      <4>2. CASE x # s
        <5>1. /\ Expected(x) /\ Slot(x)' = Slot(x) /\ Slot(x) \in Slots
              /\ snapItems[Slot(x)] \in {x, NoSnapshot} \cup givenUp
          BY <2>4, <2>7, <3>2, <4>2 DEF Inv, Labelled
        <5>2. CASE Slot(x) # i
          BY <1>7, <2>5, <5>1, <5>2
        <5>3. CASE Slot(x) = i
          <6>1. streamOf[x] = streamOf'[s]
            <7>1. streamOf[x] \in Nat /\ streamOf[x] - FirstSnapId = i
              BY <5>3 DEF Slot, Inv, SnapshotTypes
            <7>2. streamOf[x] = i + FirstSnapId
              BY <7>1, SnapshotsAssumption DEF Slots
            <7> QED
              BY <2>4, <7>2
          <6>2. StillOnItsWay(streamOf'[s])
            <7>1. CASE x \in owed
              BY <6>1, <7>1 DEF StillOnItsWay
            <7>2. CASE Wired(snapWire, x)
              <8>1. PICK k \in 1 .. Len(snapWire) : snapWire[k].of = x
                BY <7>2 DEF Wired
              <8>2. snapWire[k].id = streamOf'[s] /\ k \in DOMAIN snapWire
                BY <6>1, <8>1 DEF Inv, Labelled, SnapshotTypes
              <8> QED
                BY <8>2 DEF StillOnItsWay
            <7> QED
              BY <5>1, <7>1, <7>2 DEF Expected
          <6>3. s \in givenUp'
            BY <1>7, <6>2
          <6> QED
            BY <2>5, <5>1, <5>3, <6>3
        <5> QED
          BY <5>2, <5>3
      <4> QED
        BY <4>1, <4>2
    <3> QED
      BY <1>2, <3>1, <3>2 DEF Labelled
  <2>11. UnderWay'
    <3> SUFFICES ASSUME NEW x \in hasReply, x \notin givenUp'
                 PROVE  \/ In(snapQueue', x)
                        \/ /\ Slot(x)' \in Slots /\ snapItems'[Slot(x)'] = x
                           /\ snapState'[x] # "Inactive"
                           /\ (x \in owed' \/ Decided(snapWire', x))
      BY <1>2 DEF UnderWay
    <3>1. CASE x = s
      BY <1>2, <1>4, <1>7, <2>4, <2>5, <3>1
    <3>2. CASE x # s
      <4>1. x \in Snapshots /\ x \notin givenUp
        BY <1>7 DEF Inv, SnapshotTypes
      <4>2. CASE In(snapQueue, x)
        BY <1>3, <3>2, <4>2
      <4>3. CASE /\ Slot(x) \in Slots /\ snapItems[Slot(x)] = x
                 /\ snapState[x] # "Inactive" /\ (x \in owed \/ Decided(snapWire, x))
        <5>1. Slot(x) # i
          BY <2>1, <4>1, <4>3, SnapshotsAssumption
        <5> QED
          BY <1>2, <1>7, <2>4, <2>5, <3>2, <4>1, <4>3, <5>1
      <4> QED
        BY <4>1, <4>2, <4>3 DEF Inv, UnderWay
    <3> QED
      BY <3>1, <3>2
  <2>12. Answered'
    BY <1>2, <1>3, <1>4, <1>7 DEF Inv, Answered
  <2> QED
    BY <1>5, <2>2, <2>6, <2>8, <2>9, <2>10, <2>11, <2>12 DEF Inv
<1> QED
  BY <1>1, <1>6, <1>7, RequestOf

-----------------------------------------------------------------------------
(* The RMDS and its responses.                                             *)

(* The RMDS answers on the stream it was asked on, and not only in doubt. *)
LEMMA RepliesOf ==
  ASSUME Inv, NEW s \in Snapshots, RmdsReplies(s)
  PROVE  \E news \in Seq(Responses) :
           /\ snapWire' = snapWire \o news
           /\ Decided(news, s)
           /\ \A k \in 1 .. Len(news) : news[k].of = s /\ news[k].id = streamOf[s]
<1> DEFINE message(kind, decodes) ==
             CASE kind = "image"   -> Reply(s, "refresh", "nonStreaming", decodes)
               [] kind = "closed"  -> Reply(s, "refresh", "closed", decodes)
               [] kind = "refused" -> Reply(s, "status", "closed", TRUE)
               [] kind = "suspect" -> Reply(s, "status", "suspect", TRUE)
<1>1. PICK decodes \in BOOLEAN, replies \in {<<"image">>, <<"closed">>, <<"refused">>,
                                            <<"suspect", "image">>} :
        snapWire' = snapWire \o [k \in DOMAIN replies |-> message(replies[k], decodes)]
  BY DEF RmdsReplies
<1>2. PICK n \in {1, 2} : /\ DOMAIN replies = 1 .. n /\ n \in DOMAIN replies
                          /\ replies[n] \in {"image", "closed", "refused"}
                          /\ \A k \in 1 .. n : replies[k] \in {"image", "closed", "refused", "suspect"}
  BY <1>1
<1>3. PICK news : news = [k \in DOMAIN replies |-> message(replies[k], decodes)]
  OBVIOUS
<1>4. ASSUME NEW kind \in {"image", "closed", "refused", "suspect"}
      PROVE  /\ message(kind, decodes) \in Responses
             /\ message(kind, decodes).of = s
             /\ message(kind, decodes).id = streamOf[s]
             /\ kind # "suspect" => message(kind, decodes).state # "suspect"
  <2>1. streamOf[s] \in Nat
    BY DEF Inv, SnapshotTypes
  <2>2. CASE kind = "image"
    BY <2>1, <2>2 DEF Reply, Responses
  <2>3. CASE kind = "closed"
    BY <2>1, <2>3 DEF Reply, Responses
  <2>4. CASE kind = "refused"
    BY <2>1, <2>4 DEF Reply, Responses
  <2>5. CASE kind = "suspect"
    BY <2>1, <2>5 DEF Reply, Responses
  <2> QED
    BY <2>2, <2>3, <2>4, <2>5
<1> HIDE DEF message
<1>5. /\ news = [k \in 1 .. n |-> message(replies[k], decodes)]
      /\ n \in Nat /\ n \in 1 .. n
      /\ \A k \in 1 .. n : news[k] \in Responses
  BY <1>2, <1>3, <1>4
<1>6. news \in Seq(Responses) /\ Len(news) = n
  BY <1>5
<1>7. Decided(news, s)
  BY <1>2, <1>4, <1>5, <1>6 DEF Decided
<1>8. \A k \in 1 .. Len(news) : news[k].of = s /\ news[k].id = streamOf[s]
  BY <1>2, <1>4, <1>5, <1>6
<1> QED
  BY <1>1, <1>3, <1>6, <1>7, <1>8

(* An answer of the RMDS keeps the invariant. *)
LEMMA RepliesKeep ==
  ASSUME Inv, NEW s \in Snapshots, RmdsReplies(s)
  PROVE  Inv'
<1>1. /\ s \in owed /\ owed' = owed \ {s}
      /\ UNCHANGED <<pendingSnapshots, snapQueue, snapState, streamOf, hasReply, snapNext,
                     snapFree, snapItems, snapPending, answers, givenUp>>
  BY DEF RmdsReplies, objectVars, tableVars
<1>2. PICK news \in Seq(Responses) :
        /\ snapWire' = snapWire \o news
        /\ Decided(news, s)
        /\ \A k \in 1 .. Len(news) : news[k].of = s /\ news[k].id = streamOf[s]
  BY RepliesOf
<1>3. /\ snapWire' \in Seq(Responses)
      /\ \A x : Wired(snapWire', x) <=> Wired(snapWire, x) \/ Wired(news, x)
      /\ \A x : Decided(snapWire', x) <=> Decided(snapWire, x) \/ Decided(news, x)
  BY <1>2, ResponsesJoin DEF Inv, SnapshotTypes
<1>4. \A x : Wired(news, x) <=> x = s
  BY <1>2 DEF Wired, Decided
<1>5. \A x : Expected(x)' <=> Expected(x)
  BY <1>1, <1>3, <1>4 DEF Expected
<1>6. SnapshotTypes'
  BY <1>1, <1>3 DEF Inv, SnapshotTypes
<1>7. TableInv'
  BY <1>1 DEF Inv, TableInv, Table!TypeOK, Table!IdsPartitioned, Table!IsListed
<1>8. Queues' /\ Stages' /\ Owned' /\ Answered'
  BY <1>1, <1>5 DEF Inv, Queues, Stages, Owned, Answered, Slot
<1>9. Labelled'
  <2>1. ASSUME NEW k \in 1 .. Len(snapWire')
        PROVE  snapWire'[k].id = streamOf[snapWire'[k].of]
    <3>1. /\ snapWire \in Seq(Responses) /\ Len(snapWire) \in Nat
          /\ Len(news) \in Nat
      BY DEF Inv, SnapshotTypes
    <3>2. CASE k \in 1 .. Len(snapWire)
      <4>1. snapWire'[k] = snapWire[k]
        BY <1>2, <3>1, <3>2
      <4> QED
        BY <3>2, <4>1 DEF Inv, Labelled
    <3>3. CASE k \notin 1 .. Len(snapWire)
      <4>1. PICK j \in 1 .. Len(news) : snapWire'[k] = news[j]
        <5>1. /\ k - Len(snapWire) \in 1 .. Len(news)
              /\ snapWire'[k] = news[k - Len(snapWire)]
          BY <1>2, <3>1, <3>3
        <5> QED
          BY <5>1
      <4> QED
        BY <1>2, <4>1
    <3> QED
      BY <3>2, <3>3
  <2> QED
    BY <1>1, <1>5, <2>1 DEF Inv, Labelled, Slot
<1>10. UnderWay'
  BY <1>1, <1>2, <1>3 DEF Inv, UnderWay, Slot
<1> QED
  BY <1>6, <1>7, <1>8, <1>9, <1>10 DEF Inv

\* What a response does to the snapshot s that owns its id.
(* A response completes its snapshot, leaves it open, or gives it up. *)
LEMMA ResponseOf ==
  ASSUME Inv, NEW s \in hasReply, NEW m \in Responses, ~In(snapQueue, s),
         ProcessSnapshotResponse(s, m)
  PROVE  /\ streamOf' = streamOf
         /\ snapState' \in [Snapshots -> {"new", "asked", "Subscribing", "Inactive", "Stale"}]
         /\ \A x \in Snapshots : x # s => snapState'[x] = snapState[x]
         /\ snapState'[s] \notin {"new", "asked"}
         /\ snapPending' = snapPending \ {s}
         /\ \/ Answer(s, [how |-> m.class, of |-> m.of]) /\ givenUp' = givenUp
            \/ /\ UNCHANGED <<answers, hasReply, snapNext, snapFree, snapItems>>
               /\ \/ givenUp' = givenUp \cup {s}
                  \/ /\ givenUp' = givenUp
                     /\ m.state = "suspect" /\ snapState'[s] # "Inactive"
<1>1. s \in Snapshots /\ snapState[s] \in {"Subscribing", "Inactive", "Stale"}
  BY DEF Inv, SnapshotTypes, Stages
<1>2. s \in snapPending => snapState[s] = "Subscribing"
  BY <1>1 DEF Inv, Stages
<1>3. CASE snapState[s] = "Inactive"
  <2>1. s \in givenUp
    BY <1>3 DEF Inv, UnderWay
  <2>2. UNCHANGED <<snapState, streamOf, hasReply, snapNext, snapFree, snapItems, snapPending,
                    answers, givenUp>>
    BY <1>3 DEF ProcessSnapshotResponse, objectVars, tableVars
  <2>3. snapState' \in [Snapshots -> {"new", "asked", "Subscribing", "Inactive", "Stale"}]
    BY <2>2 DEF Inv, SnapshotTypes
  <2> QED
    BY <1>2, <1>3, <2>1, <2>2, <2>3
<1>4. CASE snapState[s] # "Inactive"
  <2>1. /\ snapPending' = IF snapState[s] = "Subscribing"
                          THEN snapPending \ {s} ELSE snapPending
        /\ snapState' = IF m.class = "refresh" \/ s \in Books
                        THEN [snapState EXCEPT ![s] = StateAfter(s, m)] ELSE snapState
        /\ streamOf' = streamOf
        /\ \/ Answer(s, [how |-> m.class, of |-> m.of]) /\ givenUp' = givenUp
           \/ /\ m.state = "suspect"
              /\ UNCHANGED <<answers, hasReply, snapNext, snapFree, snapItems, givenUp>>
           \/ Unanswered(s)
    BY <1>4 DEF ProcessSnapshotResponse, tableVars
  <2>2. /\ StateAfter(s, m) \in {"Subscribing", "Inactive", "Stale"}
        /\ m.state = "suspect" => StateAfter(s, m) # "Inactive"
    BY <1>1, <1>4 DEF StateAfter
  <2>3. /\ snapState' \in [Snapshots -> {"new", "asked", "Subscribing", "Inactive", "Stale"}]
        /\ \A x \in Snapshots : x # s => snapState'[x] = snapState[x]
        /\ snapState'[s] \in {StateAfter(s, m), snapState[s]}
    BY <1>1, <2>1, <2>2 DEF Inv, SnapshotTypes
  <2>4. /\ snapState'[s] \notin {"new", "asked"}
        /\ m.state = "suspect" => snapState'[s] # "Inactive"
    BY <1>1, <1>4, <2>2, <2>3
  <2>5. snapPending' = snapPending \ {s}
    BY <1>2, <2>1
  <2>6. Unanswered(s) => /\ givenUp' = givenUp \cup {s}
                         /\ UNCHANGED <<answers, hasReply, snapNext, snapFree, snapItems>>
    BY DEF Unanswered, tableVars
  <2> QED
    BY <2>1, <2>3, <2>4, <2>5, <2>6
<1> QED
  BY <1>3, <1>4

(* Handling a response keeps the invariant. *)
LEMMA ResponseKeeps ==
  ASSUME Inv, ProcessResponse
  PROVE  Inv'
<1>1. PICK m : m = Head(snapWire)
  OBVIOUS
<1>2. /\ snapWire # << >> /\ snapWire' = Tail(snapWire)
      /\ UNCHANGED <<pendingSnapshots, snapQueue, owed>>
      /\ IF Table!GetItem(m.id) = NoSnapshot
         THEN UNCHANGED <<objectVars, tableVars, snapPending, answers, givenUp>>
         ELSE ProcessSnapshotResponse(Table!GetItem(m.id), m)
  BY <1>1 DEF ProcessResponse
<1>3. /\ m \in Responses /\ snapWire' \in Seq(Responses) /\ m = snapWire[1]
      /\ 1 \in 1 .. Len(snapWire)
      /\ \A k \in 1 .. Len(snapWire') : /\ k + 1 \in 1 .. Len(snapWire)
                                       /\ snapWire'[k] = snapWire[k + 1]
  BY <1>1, <1>2, TailOf DEF Inv, SnapshotTypes
<1>4. /\ \A x : Wired(snapWire', x) => Wired(snapWire, x)
      /\ \A x : Decided(snapWire, x) =>
                  Decided(snapWire', x) \/ (m.of = x /\ m.state # "suspect")
  BY <1>1, <1>2, ResponseTaken DEF Inv, SnapshotTypes
<1>5. \A x : Expected(x)' => Expected(x)
  BY <1>2, <1>4 DEF Expected
<1>6. PICK i : i = Slot(m.of)
  OBVIOUS
<1>7. /\ m.of \in Snapshots /\ m.id = streamOf[m.of] /\ i \in Slots
      /\ snapItems[i] \in {m.of, NoSnapshot} \cup givenUp
  <2>1. m.of \in Snapshots /\ Wired(snapWire, m.of)
    BY <1>3 DEF Responses, Wired
  <2> QED
    BY <1>3, <1>6, <2>1 DEF Inv, Labelled, Expected
<1>8. Table!GetItem(m.id) = snapItems[i]
  BY <1>6, <1>7 DEF Table!GetItem, Table!StreamId2Index, Slot
<1>9. Queues'
  BY <1>2 DEF Inv, Queues
<1>10. \A k \in 1 .. Len(snapWire') : snapWire'[k].id = streamOf[snapWire'[k].of]
  BY <1>3 DEF Inv, Labelled
<1>11. CASE snapItems[i] = NoSnapshot
  <2>1. UNCHANGED <<snapState, streamOf, hasReply, snapNext, snapFree, snapItems, snapPending,
                    answers, givenUp>>
    BY <1>2, <1>8, <1>11 DEF objectVars, tableVars
  <2>2. SnapshotTypes'
    BY <1>2, <1>3, <2>1 DEF Inv, SnapshotTypes
  <2>3. TableInv'
    BY <2>1 DEF Inv, TableInv, Table!TypeOK, Table!IdsPartitioned, Table!IsListed
  <2>4. Stages' /\ Owned' /\ Answered'
    BY <1>2, <1>5, <2>1 DEF Inv, Stages, Owned, Answered, Slot
  <2>5. Labelled'
    BY <1>5, <1>10, <2>1 DEF Inv, Labelled, Slot
  <2>6. UnderWay'
    <3> SUFFICES ASSUME NEW x \in hasReply, x \notin givenUp, ~In(snapQueue, x)
                 PROVE  /\ Slot(x) \in Slots /\ snapItems[Slot(x)] = x
                        /\ snapState[x] # "Inactive"
                        /\ (x \in owed \/ Decided(snapWire', x))
      BY <1>2, <2>1 DEF UnderWay, Slot
    <3>1. /\ Slot(x) \in Slots /\ snapItems[Slot(x)] = x /\ snapState[x] # "Inactive"
          /\ (x \in owed \/ Decided(snapWire, x))
      BY DEF Inv, UnderWay
    <3>2. m.of # x
      BY <1>6, <1>11, <3>1, SnapshotsAssumption DEF Inv, SnapshotTypes
    <3> QED
      BY <1>4, <3>1, <3>2
  <2> QED
    BY <1>9, <2>2, <2>3, <2>4, <2>5, <2>6 DEF Inv
<1>12. CASE snapItems[i] # NoSnapshot
  <2>1. PICK s : s = snapItems[i]
    OBVIOUS
  <2>2. /\ s \in Snapshots /\ s # NoSnapshot /\ (s = m.of \/ s \in givenUp)
        /\ ProcessSnapshotResponse(s, m)
    BY <1>2, <1>7, <1>8, <1>12, <2>1, SnapshotsAssumption DEF Inv, SnapshotTypes
  <2>3. Slot(s) = i /\ s \in hasReply /\ ~In(snapQueue, s)
    BY <1>7, <2>1, <2>2 DEF Inv, Owned
  <2>4. PICK how \in {"refresh", "status"} : how = m.class
    BY <1>3 DEF Responses
  <2>5. /\ streamOf' = streamOf
        /\ snapState' \in [Snapshots -> {"new", "asked", "Subscribing", "Inactive", "Stale"}]
        /\ \A x \in Snapshots : x # s => snapState'[x] = snapState[x]
        /\ snapState'[s] \notin {"new", "asked"}
        /\ snapPending' = snapPending \ {s}
        /\ \/ Answer(s, [how |-> how, of |-> m.of]) /\ givenUp' = givenUp
           \/ /\ UNCHANGED <<answers, hasReply, snapNext, snapFree, snapItems>>
              /\ \/ givenUp' = givenUp \cup {s}
                 \/ /\ givenUp' = givenUp
                    /\ m.state = "suspect" /\ snapState'[s] # "Inactive"
    BY <1>3, <2>2, <2>3, <2>4, ResponseOf
  <2>6. /\ \A x : Slot(x)' = Slot(x)
        /\ \A k \in 1 .. Len(snapWire') : snapWire'[k].id = streamOf'[snapWire'[k].of]
    BY <1>10, <2>5 DEF Slot
  <2>7. snapState[s] \notin {"new", "asked"} /\ answers[s] = << >>
    BY <2>2, <2>3 DEF Inv, Stages, Answered
  <2>8. ~In(pendingSnapshots, s)
    BY <2>2, <2>7 DEF Inv, Stages
  <2>9. CASE Answer(s, [how |-> how, of |-> m.of]) /\ givenUp' = givenUp
    <3>1. /\ answers' = [answers EXCEPT ![s] = Append(@, [how |-> how, of |-> m.of])]
          /\ hasReply' = hasReply \ {s}
          /\ Table!ReleaseStreamId(streamOf[s])
      BY <2>9 DEF Answer
    <3>2. i + FirstSnapId = streamOf[s]
      <4>1. streamOf[s] \in Nat /\ streamOf[s] - FirstSnapId = i
        BY <2>2, <2>3 DEF Slot, Inv, SnapshotTypes
      <4> QED
        BY <4>1, SnapshotsAssumption DEF Slots
    <3>3. TableInv' /\ snapItems' = [snapItems EXCEPT ![i] = NoSnapshot]
      BY <1>7, <1>12, <3>1, <3>2, IdReleased DEF Inv
    <3>4. /\ snapItems'[i] = NoSnapshot
          /\ \A j \in Slots : j # i => snapItems'[j] = snapItems[j]
      BY <1>7, <3>3 DEF Inv, TableInv, Table!TypeOK, Table!Indices, Slots
    <3>5. /\ answers'[s] = <<[how |-> how, of |-> m.of]>>
          /\ \A x \in Snapshots : x # s => answers'[x] = answers[x]
          /\ answers' \in [Snapshots -> Seq([how : {"refresh", "status"}, of : Snapshots])]
      BY <1>7, <2>2, <2>7, <3>1 DEF Inv, SnapshotTypes
    <3>6. SnapshotTypes'
      BY <1>2, <1>3, <2>5, <2>9, <3>1, <3>5 DEF Inv, SnapshotTypes
    <3>7. Stages'
      <4>1. ASSUME NEW x \in Snapshots, x # s
            PROVE  /\ In(pendingSnapshots', x) => snapState'[x] = "asked"
                   /\ In(snapQueue', x) => /\ x \in hasReply' /\ snapState'[x] = "Subscribing"
                                           /\ ~Expected(x)' /\ x \notin snapPending'
                   /\ snapState'[x] \in {"new", "asked"} => x \notin hasReply' /\ ~Expected(x)'
                   /\ x \in snapPending' => x \in hasReply' /\ snapState'[x] = "Subscribing"
        BY <1>2, <1>5, <2>5, <3>1, <4>1 DEF Inv, Stages
      <4> QED
        BY <1>2, <2>3, <2>5, <2>8, <4>1 DEF Stages
    <3>8. Owned'
      <4> SUFFICES ASSUME NEW j \in Slots, NEW x \in Snapshots, snapItems'[j] = x
                   PROVE  Slot(x)' = j /\ x \in hasReply' /\ ~In(snapQueue', x)
        BY DEF Owned
      <4>1. j # i
        BY <3>4, SnapshotsAssumption
      <4>2. Slot(x) = j /\ x \in hasReply /\ ~In(snapQueue, x)
        BY <3>4, <4>1 DEF Inv, Owned
      <4> QED
        BY <1>2, <2>3, <2>6, <3>1, <4>1, <4>2
    <3>9. Labelled'
      BY <1>5, <2>6, <2>9, <3>4 DEF Inv, Labelled
    <3>10. UnderWay'
      <4> SUFFICES ASSUME NEW x \in hasReply', x \notin givenUp'
                   PROVE  \/ In(snapQueue', x)
                          \/ /\ Slot(x)' \in Slots /\ snapItems'[Slot(x)'] = x
                             /\ snapState'[x] # "Inactive"
                             /\ (x \in owed' \/ Decided(snapWire', x))
        BY DEF UnderWay
      <4>1. x \in hasReply /\ x # s /\ x \notin givenUp /\ x \in Snapshots
        BY <2>9, <3>1 DEF Inv, SnapshotTypes
      <4>2. CASE In(snapQueue, x)
        BY <1>2, <4>2
      <4>3. CASE /\ Slot(x) \in Slots /\ snapItems[Slot(x)] = x
                 /\ snapState[x] # "Inactive" /\ (x \in owed \/ Decided(snapWire, x))
        <5>1. Slot(x) # i
          BY <2>1, <4>1, <4>3
        <5>2. m.of # x
          BY <1>6, <5>1
        <5> QED
          BY <1>2, <1>4, <2>5, <2>6, <3>4, <4>1, <4>3, <5>1, <5>2
      <4> QED
        BY <4>1, <4>2, <4>3 DEF Inv, UnderWay
    <3>11. Answered'
      <4>1. ASSUME NEW x \in Snapshots, x # s
            PROVE  /\ x \in hasReply' \/ snapState'[x] \in {"new", "asked"} => answers'[x] = << >>
                   /\ Len(answers'[x]) <= 1
                   /\ \A k \in DOMAIN answers'[x] : answers'[x][k].of = x \/ x \in givenUp'
                   /\ x \notin givenUp' /\ x \notin hasReply' /\ snapState'[x] # "new" =>
                        In(pendingSnapshots', x) \/ answers'[x] # << >>
        BY <1>2, <2>5, <2>9, <3>1, <3>5, <4>1 DEF Inv, Answered
      <4>2. /\ answers'[s] # << >> /\ Len(answers'[s]) <= 1
            /\ \A k \in DOMAIN answers'[s] : answers'[s][k].of = s \/ s \in givenUp'
        BY <2>2, <2>9, <3>5
      <4>3. s \notin hasReply' /\ snapState'[s] \notin {"new", "asked"}
        BY <2>5, <3>1
      <4>4. \A x \in Snapshots :
              /\ x \in hasReply' \/ snapState'[x] \in {"new", "asked"} => answers'[x] = << >>
              /\ Len(answers'[x]) <= 1
              /\ \A k \in DOMAIN answers'[x] : answers'[x][k].of = x \/ x \in givenUp'
              /\ x \notin givenUp' /\ x \notin hasReply' /\ snapState'[x] # "new" =>
                   In(pendingSnapshots', x) \/ answers'[x] # << >>
        <5> TAKE x \in Snapshots
        <5>1. CASE x = s
          <6>2. \A k \in DOMAIN answers'[x] : answers'[x][k].of = x \/ x \in givenUp'
            BY <4>2, <5>1, Zenon
          <6> QED
            BY <4>2, <4>3, <5>1, <6>2, Zenon
        <5>2. CASE x # s
          BY <4>1, <5>2
        <5> QED
          BY <5>1, <5>2
      <4> QED
        BY <4>4 DEF Answered
    <3> QED
      BY <1>9, <3>3, <3>6, <3>7, <3>8, <3>9, <3>10, <3>11 DEF Inv
  <2>10. CASE /\ UNCHANGED <<answers, hasReply, snapNext, snapFree, snapItems>>
              /\ \/ givenUp' = givenUp \cup {s}
                 \/ /\ givenUp' = givenUp
                    /\ m.state = "suspect" /\ snapState'[s] # "Inactive"
    <3>1. givenUp \subseteq givenUp' /\ givenUp' \subseteq Snapshots
      BY <2>2, <2>10 DEF Inv, SnapshotTypes
    <3>2. SnapshotTypes'
      BY <1>2, <1>3, <2>5, <2>10, <3>1 DEF Inv, SnapshotTypes
    <3>3. TableInv'
      BY <2>10 DEF Inv, TableInv, Table!TypeOK, Table!IdsPartitioned, Table!IsListed
    <3>4. Stages'
      <4>1. ASSUME NEW x \in Snapshots, x # s
            PROVE  /\ In(pendingSnapshots', x) => snapState'[x] = "asked"
                   /\ In(snapQueue', x) => /\ x \in hasReply' /\ snapState'[x] = "Subscribing"
                                           /\ ~Expected(x)' /\ x \notin snapPending'
                   /\ snapState'[x] \in {"new", "asked"} => x \notin hasReply' /\ ~Expected(x)'
                   /\ x \in snapPending' => x \in hasReply' /\ snapState'[x] = "Subscribing"
        BY <1>2, <1>5, <2>5, <2>10, <4>1 DEF Inv, Stages
      <4> QED
        BY <1>2, <2>3, <2>5, <2>8, <4>1 DEF Stages
    <3>5. Owned'
      BY <1>2, <2>6, <2>10 DEF Inv, Owned
    <3>6. Labelled'
      BY <1>5, <2>6, <2>10, <3>1 DEF Inv, Labelled
    <3>7. UnderWay'
      <4> SUFFICES ASSUME NEW x \in hasReply, x \notin givenUp'
                   PROVE  \/ In(snapQueue, x)
                          \/ /\ Slot(x) \in Slots /\ snapItems[Slot(x)] = x
                             /\ snapState'[x] # "Inactive"
                             /\ (x \in owed \/ Decided(snapWire', x))
        BY <1>2, <2>6, <2>10 DEF UnderWay
      <4>1. x \notin givenUp /\ x \in Snapshots
        BY <3>1 DEF Inv, SnapshotTypes
      <4>2. CASE In(snapQueue, x)
        BY <4>2
      <4>3. CASE /\ Slot(x) \in Slots /\ snapItems[Slot(x)] = x
                 /\ snapState[x] # "Inactive" /\ (x \in owed \/ Decided(snapWire, x))
        <5>1. CASE x = s
          <6>1. m.state = "suspect" /\ snapState'[s] # "Inactive"
            BY <2>10, <5>1
          <6> QED
            BY <1>4, <4>3, <5>1, <6>1
        <5>2. CASE x # s
          <6>1. m.of # x
            BY <1>6, <2>1, <4>3, <5>2
          <6> QED
            BY <1>4, <2>5, <4>1, <4>3, <5>2, <6>1
        <5> QED
          BY <5>1, <5>2
      <4> QED
        BY <4>1, <4>2, <4>3 DEF Inv, UnderWay
    <3>8. Answered'
      <4>1. ASSUME NEW x \in Snapshots
            PROVE  /\ x \in hasReply' \/ snapState'[x] \in {"new", "asked"} => answers'[x] = << >>
                   /\ x \notin givenUp' /\ x \notin hasReply' /\ snapState'[x] # "new" =>
                        In(pendingSnapshots', x) \/ answers'[x] # << >>
        BY <1>2, <2>3, <2>5, <2>7, <2>10, <3>1 DEF Inv, Answered
      <4> QED
        BY <2>10, <3>1, <4>1 DEF Inv, Answered
    <3> QED
      BY <1>9, <3>2, <3>3, <3>4, <3>5, <3>6, <3>7, <3>8 DEF Inv
  <2> QED
    BY <2>5, <2>9, <2>10
<1> QED
  BY <1>11, <1>12

-----------------------------------------------------------------------------
(* The connection.                                                         *)

(* What was under way on a lost connection is given up. *)
LEMMA LoseKeeps ==
  ASSUME Inv, Lose
  PROVE  Inv'
<1>1. /\ owed' = {} /\ snapWire' = << >>
      /\ UNCHANGED <<pendingSnapshots, snapQueue, snapState, streamOf, hasReply, snapNext,
                     snapFree, snapItems, snapPending, answers>>
  BY DEF Lose, objectVars, tableVars
<1>2. /\ givenUp \subseteq givenUp' /\ givenUp' \subseteq Snapshots
      /\ \A x \in hasReply : x \in owed \/ Wired(snapWire, x) => x \in givenUp'
  <2>1. PICK inFlight : inFlight = {m.of : m \in {snapWire[k] : k \in DOMAIN snapWire}}
    OBVIOUS
  <2>2. givenUp' = givenUp \cup (hasReply \cap (owed \cup inFlight))
    BY <2>1 DEF Lose
  <2>3. \A x : Wired(snapWire, x) => x \in inFlight
    BY <2>1 DEF Inv, SnapshotTypes, Wired
  <2> QED
    BY <2>2, <2>3 DEF Inv, SnapshotTypes
<1>3. \A x : ~Expected(x)'
  BY <1>1 DEF Expected, Wired
<1>4. SnapshotTypes'
  <2>1. owed' \subseteq Snapshots /\ snapWire' \in Seq(Responses)
    BY <1>1
  <2> QED
    BY <1>1, <1>2, <2>1 DEF Inv, SnapshotTypes
<1>5. TableInv'
  BY <1>1 DEF Inv, TableInv, Table!TypeOK, Table!IdsPartitioned, Table!IsListed
<1>6. Queues' /\ Stages' /\ Owned'
  BY <1>1, <1>3 DEF Inv, Queues, Stages, Owned, Slot
<1>7. Labelled'
  BY <1>1, <1>3 DEF Labelled
<1>8. UnderWay'
  BY <1>1, <1>2 DEF Inv, UnderWay, Decided, Wired
<1>9. Answered'
  BY <1>1, <1>2 DEF Inv, Answered
<1> QED
  BY <1>4, <1>5, <1>6, <1>7, <1>8, <1>9 DEF Inv

(* Connecting and logging in again take nothing away. *)
LEMMA ConnectionKeeps ==
  ASSUME Inv, UNCHANGED <<pendingSnapshots, snapQueue, objectVars, tableVars, snapPending,
                          owed, snapWire, answers, givenUp>>
  PROVE  Inv'
<1>1. SnapshotTypes'
  BY DEF objectVars, Inv, SnapshotTypes
<1>2. TableInv'
  BY DEF tableVars, Inv, TableInv, Table!TypeOK, Table!IdsPartitioned, Table!IsListed
<1>3. \A x : Expected(x)' <=> Expected(x)
  BY DEF Expected
<1>4. Queues' /\ Stages'
  BY <1>3 DEF objectVars, Inv, Queues, Stages
<1>5. Owned' /\ Labelled' /\ UnderWay' /\ Answered'
  BY <1>3 DEF objectVars, tableVars, Inv, Owned, Labelled, UnderWay, Answered, Slot
<1> QED
  BY <1>1, <1>2, <1>4, <1>5 DEF Inv

(* The invariant holds in every reachable state. *)
LEMMA Invariance == SnapshotsSpec => []Inv
<1>1. SnapshotsInit => Inv
  BY InitEstablishes
<1>2. Inv /\ [SnapshotsNext]_snapshotVars => Inv'
  <2> SUFFICES ASSUME Inv, [SnapshotsNext]_snapshotVars
               PROVE  Inv'
    OBVIOUS
  <2>1. ASSUME NEW s \in Snapshots, SendSnapshotRequest(s) \/ RmdsReplies(s)
        PROVE  Inv'
    BY <2>1, AskKeeps, RepliesKeep
  <2>2. CASE AddSnapshotToSource \/ SnapshotRequestCb \/ ProcessResponse
    BY <2>2, SourceKeeps, RequestKeeps, ResponseKeeps
  <2>3. CASE Lose
    BY <2>3, LoseKeeps
  <2>4. CASE Reconnect \/ LogIn
    BY <2>4, ConnectionKeeps DEF Reconnect, LogIn
  <2>5. CASE UNCHANGED snapshotVars
    BY <2>5, ConnectionKeeps DEF snapshotVars, lineVars
  <2> QED
    BY <2>1, <2>2, <2>3, <2>4, <2>5 DEF SnapshotsNext
<1> QED
  BY <1>1, <1>2, PTL DEF SnapshotsSpec

(* However many snapshots are asked for at a time, over whatever number of *)
(* stream ids and places in the throttle: none is answered twice or with   *)
(* the response to another, and when nothing is under way each whose       *)
(* exchange went well has its answer and has given back its id and its     *)
(* place (UPASubscription::Snapshot, CompleteSnapshot).                    *)
THEOREM Settled == SnapshotsSpec => []SnapshotsSettle
<1>1. Inv => SnapshotsSettle
  <2> SUFFICES ASSUME Inv PROVE SnapshotsSettle
    OBVIOUS
  <2>1. \A s \in Snapshots :
          /\ Len(answers[s]) <= 1
          /\ \A k \in DOMAIN answers[s] : answers[s][k].of = s \/ s \in givenUp
    BY DEF Inv, Answered
  <2>2. ASSUME AtRest, NEW s \in Snapshots \ givenUp
        PROVE  /\ snapState[s] # "new" => answers[s] # << >>
               /\ s \notin snapPending
               /\ \A i \in DOMAIN snapItems : snapItems[i] # s
    <3>1. /\ ~In(pendingSnapshots, s) /\ ~In(snapQueue, s)
          /\ s \notin owed /\ ~Decided(snapWire, s)
      BY <2>2 DEF AtRest, In, Decided
    <3>2. s \notin hasReply
      BY <3>1 DEF Inv, UnderWay
    <3>3. DOMAIN snapItems = Slots
      BY DEF Inv, TableInv, Table!TypeOK, Table!Indices, Slots
    <3> QED
      BY <3>1, <3>2, <3>3 DEF Inv, Stages, Owned, Answered
  <2> QED
    BY <2>1, <2>2 DEF SnapshotsSettle
<1> QED
  BY <1>1, Invariance, PTL

-----------------------------------------------------------------------------
(* The table of stream ids is used as StreamManager asks.                  *)

\* A step takes a free id, gives back one that is owned, or neither.
TableStep == \/ \E s \in Snapshots : Table!AddItem(s)
             \/ \E i \in Slots : /\ snapItems[i] # NoSnapshot
                                 /\ Table!ReleaseStreamId(Table!Index2StreamId(i))
             \/ UNCHANGED tableVars

(* The id that is released after an answer is the one the snapshot owns.   *)
LEMMA OwnedIsReleased ==
  ASSUME Inv, ProcessResponse
  PROVE  TableStep
<1>1. PICK m : m = Head(snapWire)
  OBVIOUS
<1>2. PICK s : s = Table!GetItem(m.id)
  OBVIOUS
<1>3. CASE UNCHANGED tableVars
  BY <1>3 DEF TableStep
<1>4. CASE s # NoSnapshot /\ ProcessSnapshotResponse(s, m)
  <2>1. UNCHANGED tableVars \/ Table!ReleaseStreamId(streamOf[s])
    BY <1>4 DEF ProcessSnapshotResponse, Answer, Unanswered
  <2>2. m \in Responses /\ m.of \in Snapshots /\ Expected(m.of) /\ m.id = streamOf[m.of]
    <3>1. snapWire # << >> /\ snapWire \in Seq(Responses)
      BY DEF ProcessResponse, Inv, SnapshotTypes
    <3>2. m \in Responses /\ m = snapWire[1] /\ 1 \in 1 .. Len(snapWire)
      BY <1>1, <3>1, TailOf
    <3>3. m.of \in Snapshots
      BY <3>2 DEF Responses
    <3> QED
      BY <3>2, <3>3 DEF Inv, Labelled, Expected, Wired
  <2>3. PICK i : i = Slot(m.of)
    OBVIOUS
  <2>4. i \in Slots /\ s = snapItems[i]
    BY <1>2, <2>2, <2>3 DEF Inv, Labelled, Slot, Table!GetItem, Table!StreamId2Index
  <2>5. s \in Snapshots
    BY <1>4, <2>4 DEF Inv, TableInv, Table!TypeOK, Table!Indices, Slots
  <2>6. Slot(s) = i
    BY <2>4, <2>5 DEF Inv, Owned
  <2>7. streamOf[s] = Table!Index2StreamId(i)
    <3>1. streamOf[s] \in Nat /\ streamOf[s] - FirstSnapId = i
      BY <2>5, <2>6 DEF Inv, SnapshotTypes, Slot
    <3> QED
      BY <3>1, SnapshotsAssumption DEF Table!Index2StreamId
  <2> QED
    BY <1>3, <1>4, <2>1, <2>4, <2>7 DEF TableStep
<1> QED
  BY <1>1, <1>2, <1>3, <1>4 DEF ProcessResponse

(* Every step moves the table in one of these ways.                        *)
LEMMA TableMoves ==
  ASSUME Inv, [SnapshotsNext]_snapshotVars
  PROVE  TableStep
<1>1. ASSUME NEW s \in Snapshots, SendSnapshotRequest(s) \/ RmdsReplies(s)
      PROVE  UNCHANGED tableVars
  BY <1>1 DEF SendSnapshotRequest, RmdsReplies
<1>2. CASE AddSnapshotToSource
  BY <1>2 DEF AddSnapshotToSource, TableStep
<1>3. CASE SnapshotRequestCb
  <2>1. PICK s : s = Head(snapQueue)
    OBVIOUS
  <2>2. snapQueue # << >> /\ (UNCHANGED tableVars \/ Table!AddItem(s))
    BY <1>3, <2>1 DEF SnapshotRequestCb
  <2>3. s \in Snapshots
    BY <2>1, <2>2 DEF Inv, SnapshotTypes
  <2> QED
    BY <2>2, <2>3 DEF TableStep
<1>4. CASE ProcessResponse
  BY <1>4, OwnedIsReleased
<1>5. CASE Lose \/ Reconnect \/ LogIn \/ UNCHANGED snapshotVars
  BY <1>5 DEF Lose, Reconnect, LogIn, snapshotVars, TableStep
<1> QED
  BY <1>1, <1>2, <1>3, <1>4, <1>5 DEF SnapshotsNext, TableStep

(* Snapshots implement the abstract table of stream ids: an id is only     *)
(* released by who owns it, once, whatever was lost or came late, so that  *)
(* what StreamManager promises holds among them (AddItem, ReleaseStreamId, *)
(* UPASubscription::CompleteSnapshot).                                     *)
THEOREM IdsKept == SnapshotsSpec => Table!Spec
<1>1. SnapshotsInit => Table!Init
  BY DEF SnapshotsInit
<1>2. TableStep => [Table!Next]_(Table!idVars)
  BY DEF TableStep, tableVars, Slots, Table!Next, Table!idVars, Table!Indices
<1>3. Inv /\ [SnapshotsNext]_snapshotVars => [Table!Next]_(Table!idVars)
  BY <1>2, TableMoves
<1> QED
  BY <1>1, <1>3, Invariance, PTL DEF SnapshotsSpec, Table!Spec
=============================================================================
