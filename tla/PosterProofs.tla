---------------------------- MODULE PosterProofs ----------------------------
(* Posting is sound for any number of posters, messages and disconnections. *)
EXTENDS Poster, TLAPS, WellFoundedInduction

-----------------------------------------------------------------------------
(* Sequences: what finding and removing an element yields.                 *)

(* A set of naturals has a least element, which is what Min is. *)
LEMMA MinIsLeast ==
  ASSUME NEW S \in SUBSET Nat, S # {}
  PROVE  /\ Min(S) \in S
         /\ \A x \in S : Min(S) <= x
PROOF
<1> DEFINE R == {ss \in Nat \X Nat : ss[1] < ss[2]}
<1>1. OpToRel(<, Nat) = R
  BY DEF OpToRel
<1>2. IsWellFoundedOn(R, Nat)
  BY <1>1, NatLessThanWellFounded
<1>3. PICK x \in S : \A y \in S : <<y, x>> \notin R
  BY <1>2, WFMin
<1>4. ASSUME NEW y \in S PROVE x <= y
  <2>1. x \in Nat /\ y \in Nat
    OBVIOUS
  <2>2. ~(<<y, x>>[1] < <<y, x>>[2])
    BY <1>3, <2>1
  <2> QED
    BY <2>1, <2>2
<1> QED
  BY <1>4 DEF Min

(* RemoveAt keeps the elements of a sequence in their set and drops one. *)
LEMMA RemoveAtInSeq ==
  ASSUME NEW S, NEW s \in Seq(S), NEW i \in 1 .. Len(s)
  PROVE  /\ RemoveAt(s, i) \in Seq(S)
         /\ Len(RemoveAt(s, i)) = Len(s) - 1
         /\ \A k \in 1 .. Len(s) - 1 :
              RemoveAt(s, i)[k] = IF k < i THEN s[k] ELSE s[k + 1]
PROOF
<1> DEFINE front == SubSeq(s, 1, i - 1)
           back == SubSeq(s, i + 1, Len(s))
<1>1. Len(s) \in Nat /\ i \in Nat
  OBVIOUS
<1>2. /\ front \in Seq(S) /\ Len(front) = i - 1
      /\ \A k \in 1 .. i - 1 : front[k] = s[k]
  BY <1>1
<1>3. /\ back \in Seq(S) /\ Len(back) = Len(s) - i
      /\ \A k \in 1 .. Len(s) - i : back[k] = s[k + i]
  BY <1>1
<1>4. RemoveAt(s, i) = front \o back
  BY DEF RemoveAt
<1> HIDE DEF front, back
<1>5. /\ front \o back \in Seq(S)
      /\ Len(front \o back) = Len(s) - 1
  <2>1. front \in Seq(S) /\ back \in Seq(S)
    BY <1>2, <1>3
  <2>2. Len(front \o back) = Len(front) + Len(back)
    BY <2>1
  <2>3. Len(front) + Len(back) = Len(s) - 1
    BY <1>1, <1>2, <1>3
  <2>4. front \o back \in Seq(S)
    BY <2>1
  <2> QED
    BY <2>2, <2>3, <2>4
<1>6. ASSUME NEW k \in 1 .. Len(s) - 1
      PROVE  (front \o back)[k] = IF k < i THEN s[k] ELSE s[k + 1]
  <2>1. CASE k < i
    BY <1>1, <1>2, <1>3, <2>1
  <2>2. CASE ~(k < i)
    <3>1. (front \o back)[k] = back[k - (i - 1)]
      BY <1>1, <1>2, <1>3, <2>2
    <3>2. back[k - (i - 1)] = s[(k - (i - 1)) + i]
      BY <1>1, <1>3, <2>2
    <3> QED
      BY <1>1, <2>2, <3>1, <3>2
  <2> QED
    BY <2>1, <2>2
<1> QED
  BY <1>4, <1>5, <1>6

(* RemoveFirst drops no other element.                                     *)
LEMMA RemoveFirstInSeq ==
  ASSUME NEW S, NEW s \in Seq(S), NEW e
  PROVE  /\ RemoveFirst(s, e) \in Seq(S)
         /\ \A x : x # e /\ Contains(s, x) => Contains(RemoveFirst(s, e), x)
PROOF
<1>1. CASE ~\E i \in 1 .. Len(s) : s[i] = e
  BY <1>1 DEF RemoveFirst
<1>2. CASE \E i \in 1 .. Len(s) : s[i] = e
  <2> DEFINE I == {i \in 1 .. Len(s) : s[i] = e}
  <2>1. I # {} /\ I \in SUBSET Nat
    BY <1>2
  <2>2. Min(I) \in I
    BY <2>1, MinIsLeast
  <2>3. RemoveFirst(s, e) = RemoveAt(s, Min(I))
    BY <1>2, <2>1 DEF RemoveFirst, SelectInSeq
  <2> HIDE DEF I
  <2>4. PICK k \in 1 .. Len(s) : k = Min(I) /\ s[k] = e
    BY <2>2 DEF I
  <2>5. ASSUME NEW x, x # e, Contains(s, x)
        PROVE  Contains(RemoveAt(s, k), x)
    <3>1. PICK i \in 1 .. Len(s) : s[i] = x
      BY <2>5 DEF Contains
    <3>2. i # k
      BY <2>4, <2>5, <3>1
    <3>3. Len(s) \in Nat
      OBVIOUS
    <3>4. CASE i < k
      <4>1. i \in 1 .. Len(s) - 1
        BY <3>3, <3>4
      <4>2. RemoveAt(s, k)[i] = x
        BY <3>1, <3>4, <4>1, RemoveAtInSeq
      <4> QED
        BY <4>1, <4>2, RemoveAtInSeq DEF Contains
    <3>5. CASE i > k
      <4>1. i - 1 \in 1 .. Len(s) - 1 /\ ~(i - 1 < k) /\ (i - 1) + 1 = i
        BY <3>3, <3>5
      <4>2. RemoveAt(s, k)[i - 1] = x
        BY <3>1, <4>1, RemoveAtInSeq
      <4> QED
        BY <4>1, <4>2, RemoveAtInSeq DEF Contains
    <3> QED
      BY <3>2, <3>4, <3>5
  <2> QED
    BY <2>3, <2>4, <2>5, RemoveAtInSeq
<1> QED
  BY <1>1, <1>2

(* RemovePost finds the first record with the id, if there is one.         *)
LEMMA MatchingIsFirst ==
  ASSUME NEW S, postList \in Seq(S), NEW id
  PROVE  /\ Matching(id) # 0 =>
              /\ Matching(id) \in 1 .. Len(postList)
              /\ postList[Matching(id)].id = id
         /\ \A i \in 1 .. Len(postList) : postList[i].id = id =>
              /\ Matching(id) # 0
              /\ Matching(id) <= i
PROOF
<1> DEFINE I == {i \in 1 .. Len(postList) : postList[i].id = id}
<1>1. Matching(id) = IF I # {} THEN Min(I) ELSE 0
  BY DEF Matching, SelectInSeq
<1>2. I \in SUBSET Nat
  OBVIOUS
<1>3. CASE I = {}
  BY <1>1, <1>3
<1>4. CASE I # {}
  <2>1. Min(I) \in I /\ \A i \in I : Min(I) <= i
    BY <1>2, <1>4, MinIsLeast
  <2>2. Matching(id) = Min(I)
    BY <1>1, <1>4
  <2>3. \A i \in I : i \in 1 .. Len(postList) /\ postList[i].id = id /\ i # 0
    OBVIOUS
  <2>4. \A i \in 1 .. Len(postList) : postList[i].id = id => i \in I
    OBVIOUS
  <2> HIDE DEF I
  <2> QED
    BY <2>1, <2>2, <2>3, <2>4
<1> QED
  BY <1>3, <1>4

-----------------------------------------------------------------------------
(* Types.                                                                  *)

(* The work a poster goes on with is again work. *)
LEMMA WorkTyped ==
  ASSUME TypeOK, NEW p \in Posters
  PROVE  /\ Resting \in Works
         /\ ~IsResting(p) => [todo |-> Tail(work[p].todo), stage |-> "start",
                              status |-> work[p].status, id |-> 0] \in Works
         /\ NextPost(p) /\ ~IsResting(p) => work' \in [Posters -> Works]
         /\ GiveUp(p) => work' \in [Posters -> Works]
         /\ \A stage \in {"added", "built"} :
              GoTo(p, stage) => work' \in [Posters -> Works]
PROOF
<1>1. 0 \in PostIds
  BY PosterAssumption DEF PostIds
<1>2. work[p] \in Works
  BY DEF TypeOK
<1>3. Resting \in Works
  BY <1>1 DEF Resting, Works, Statuses
<1>4. ASSUME ~IsResting(p)
      PROVE  [todo |-> Tail(work[p].todo), stage |-> "start",
              status |-> work[p].status, id |-> 0] \in Works
  <2>1. Tail(work[p].todo) \in Seq({"data", "status"})
    BY <1>2, <1>4 DEF Works, IsResting
  <2> QED
    BY <1>1, <1>2, <2>1 DEF Works
<1>5. ASSUME NEW w \in Works
      PROVE  [work EXCEPT ![p] = w] \in [Posters -> Works]
  BY DEF TypeOK
<1>6. ASSUME NEW stage \in {"added", "built"}
      PROVE  [work[p] EXCEPT !.stage = stage] \in Works
  BY <1>2 DEF Works
<1>7. ASSUME NextPost(p), ~IsResting(p) PROVE work' \in [Posters -> Works]
  BY <1>3, <1>4, <1>5, <1>7 DEF NextPost
<1>8. ASSUME GiveUp(p) PROVE work' \in [Posters -> Works]
  BY <1>3, <1>5, <1>8 DEF GiveUp
<1>9. ASSUME NEW stage \in {"added", "built"}, GoTo(p, stage)
      PROVE  work' \in [Posters -> Works]
  BY <1>5, <1>6, <1>9 DEF GoTo
<1> QED
  BY <1>3, <1>4, <1>7, <1>8, <1>9

(* The post that a poster works on is a record with its id. *)
LEMMA PostTyped ==
  ASSUME TypeOK, NEW p \in Posters, NEW stage,
         At(p, stage, {"data", "status"})
  PROVE  Post(p) \in PostRecords
PROOF
  BY DEF TypeOK, Works, Post, PostRecords, At

LEMMA InitTyped == Init => TypeOK
PROOF
<1> SUFFICES ASSUME Init PROVE TypeOK
  OBVIOUS
<1>1. [p \in Posters |-> Resting] \in [Posters -> Works]
  BY PosterAssumption DEF Resting, Works, PostIds, Statuses
<1> QED
  BY <1>1, PosterAssumption DEF Init, TypeOK, Statuses

LEMMA NextTyped == TypeOK /\ [Next]_vars => TypeOK'
PROOF
<1> SUFFICES ASSUME TypeOK, [Next]_vars PROVE TypeOK'
  OBVIOUS
<1> USE DEF TypeOK, posterVars, sessionVars, rmdsVars
<1>1. ASSUME NEW p \in Posters, NEW st \in Statuses, PublishMessage(p, st)
      PROVE  TypeOK'
  <2>0. Posts(st, lastMsgStatus[p]) \in Seq({"data", "status"})
    <3>1. /\ <<"data">> \in Seq({"data", "status"})
          /\ <<"status", "data">> \in Seq({"data", "status"})
          /\ <<"data", "status">> \in Seq({"data", "status"})
      OBVIOUS
    <3>2. Posts(st, lastMsgStatus[p]) \in
            {<<"data">>, <<"status", "data">>, <<"data", "status">>}
      BY Zenon DEF Posts
    <3> QED
      BY <3>1, <3>2
  <2>1. [todo |-> Posts(st, lastMsgStatus[p]), stage |-> "start",
         status |-> st, id |-> 0] \in Works
    BY <2>0, PosterAssumption DEF Works, PostIds
  <2> QED
    BY <1>1, <2>1, PosterAssumption DEF PublishMessage
<1>2. ASSUME NEW p \in Posters, NoBuffer(p) PROVE TypeOK'
  BY <1>2, WorkTyped DEF NoBuffer
<1>3. ASSUME NEW p \in Posters, GetNextPostId(p) PROVE TypeOK'
  <2>1. FreshPostId(nextPostId) \in PostIds
    BY PosterAssumption DEF FreshPostId, PostIds
  <2>2. work[p] \in Works
    OBVIOUS
  <2>3. [work[p] EXCEPT !.id = FreshPostId(nextPostId),
                        !.stage = "numbered"] \in Works
    BY <2>1, <2>2 DEF Works
  <2>4. work' \in [Posters -> Works]
    BY <1>3, <2>1, <2>2 DEF GetNextPostId, Works
  <2> QED
    BY <1>3, <2>4 DEF GetNextPostId
<1>4. ASSUME NEW p \in Posters, AddPost(p) PROVE TypeOK'
  <2>1. Post(p) \in PostRecords
    BY <1>4, PostTyped DEF AddPost
  <2>2. work[p].id \in PostIds
    BY DEF Works
  <2>3. nextPostId' \in 0 .. MaxPostId
    BY <1>4, <2>2, PosterAssumption DEF AddPost, MoveOn, PostIds
  <2>4. work' \in [Posters -> Works]
    BY <1>4, WorkTyped DEF AddPost
  <2> QED
    BY <1>4, <2>1, <2>3, <2>4 DEF AddPost
<1>5. ASSUME NEW p \in Posters, BuildPostMessage(p) PROVE TypeOK'
  <2>1. work[p].id \in PostIds
    BY DEF Works
  <2>2. inFlight' \in [Posters -> Seq(PostIds)]
    <3>1. Append(inFlight[p], work[p].id) \in Seq(PostIds)
      BY <2>1
    <3> QED
      BY <1>5, <3>1 DEF BuildPostMessage, RememberId
  <2>3. work' \in [Posters -> Works]
    BY <1>5, WorkTyped DEF BuildPostMessage
  <2> QED
    BY <1>5, <2>2, <2>3 DEF BuildPostMessage
<1>6. ASSUME NEW p \in Posters, PostStatusMessage(p) PROVE TypeOK'
  <2>1. work' \in [Posters -> Works]
    BY <1>6, WorkTyped DEF PostStatusMessage, At
  <2>2. work[p].status \in Statuses
    BY DEF Works
  <2>3. lastMsgStatus' \in [Posters -> Statuses]
    BY <1>6, <2>2 DEF PostStatusMessage, SetState
  <2>4. unmarked' \subseteq Posters
    BY <1>6 DEF PostStatusMessage, MissesStatus
  <2> QED
    BY <1>6, <2>1, <2>3, <2>4 DEF PostStatusMessage
<1>7. ASSUME NEW p \in Posters, SendUPAMessage(p) PROVE TypeOK'
  <2>1. work' \in [Posters -> Works]
    BY <1>7, WorkTyped DEF SendUPAMessage, At
  <2>2. Post(p) \in PostRecords
    BY <1>7, PostTyped DEF SendUPAMessage
  <2>3. work[p].status \in Statuses
    BY DEF Works
  <2>4. /\ upstream' \subseteq PostRecords
        /\ marked' \in [Posters -> Statuses] /\ unmarked' \subseteq Posters
    BY <1>7, <2>2, <2>3 DEF SendUPAMessage, MissesStatus
  <2> QED
    BY <1>7, <2>1, <2>4 DEF SendUPAMessage
<1>8. ASSUME NEW p \in Posters, Shutdown(p) PROVE TypeOK'
  BY <1>8 DEF Shutdown, ClearIds
<1>9. ASSUME NEW m \in upstream, ProcessAck(m) PROVE TypeOK'
  <2> DEFINE i == Matching(m.id)
  <2>1. CASE i = 0
    BY <1>9, <2>1 DEF ProcessAck
  <2>2. CASE i # 0
    <3>1. i \in 1 .. Len(postList)
      BY <2>2, MatchingIsFirst
    <3>2. postList[i] \in PostRecords
      BY <3>1
    <3>2a. postList[i].poster \in Posters
      BY <3>2 DEF PostRecords
    <3>3. postList' \in Seq(PostRecords)
      BY <1>9, <2>2, <3>1, RemoveAtInSeq DEF ProcessAck
    <3>4. RemoveFirst(inFlight[postList[i].poster], m.id) \in Seq(PostIds)
      BY <3>2a, RemoveFirstInSeq
    <3>5. inFlight' \in [Posters -> Seq(PostIds)]
      BY <1>9, <2>2, <3>2a, <3>4 DEF ProcessAck
    <3>6. answering' \in [record : PostRecords, about : PostRecords]
                          \cup {None}
      BY <1>9, <2>2, <3>2 DEF ProcessAck
    <3> QED
      BY <1>9, <3>3, <3>5, <3>6 DEF ProcessAck
  <2> QED
    BY <2>1, <2>2
<1>10. ASSUME NEW m \in upstream, IgnoreAnswer(m) PROVE TypeOK'
  BY <1>10 DEF IgnoreAnswer
<1>11. CASE ReportAnswer
  BY <1>11 DEF ReportAnswer
<1>12. CASE LoseConnection
  <2>1. disconnects' \in 0 .. MaxDisconnects
    BY <1>12, PosterAssumption DEF LoseConnection
  <2>2. upstream' \subseteq PostRecords /\ connected' \in BOOLEAN
    BY <1>12 DEF LoseConnection
  <2> QED
    BY <1>12, <2>1, <2>2 DEF LoseConnection
<1>13. CASE Reconnect
  BY <1>13 DEF Reconnect
<1>14. CASE UNCHANGED vars
  BY <1>14 DEF vars
<1> QED
  BY <1>1, <1>2, <1>3, <1>4, <1>5, <1>6, <1>7, <1>8, <1>9, <1>10, <1>11,
     <1>12, <1>13, <1>14 DEF Next, ClientStep, ConsumerStep

(* Every id handed out is a post id, even where the counter starts again,  *)
(* and every record a poster or the list refers to is one of a poster      *)
(* (UPAPostManager.h GetNextPostId).                                       *)
THEOREM Typing == Spec => []TypeOK
PROOF
  BY InitTyped, NextTyped, PTL DEF Spec

-----------------------------------------------------------------------------
(* Destruction.                                                            *)

\* What Shutdown leaves and nothing changes afterwards.
ShutIsEmpty ==
  \A p \in Posters : isShut[p] => inFlight[p] = <<>> /\ IsResting(p)

LEMMA ShutStaysEmpty ==
  ASSUME TypeOK, ShutIsEmpty, [Next]_vars
  PROVE  ShutIsEmpty'
PROOF
<1> USE DEF posterVars, IsResting
<1> SUFFICES ASSUME NEW q \in Posters, isShut'[q]
             PROVE  inFlight'[q] = <<>> /\ work'[q].todo = <<>>
  BY DEF ShutIsEmpty
<1>0. /\ work \in [Posters -> Works] /\ inFlight \in [Posters -> Seq(PostIds)]
      /\ isShut \in [Posters -> BOOLEAN]
  BY DEF TypeOK
<1>1. ASSUME NEW p \in Posters, NEW st \in Statuses, PublishMessage(p, st)
      PROVE  inFlight'[q] = <<>> /\ work'[q].todo = <<>>
  BY <1>0, <1>1 DEF ShutIsEmpty, PublishMessage
<1>2. ASSUME NEW p \in Posters,
             \/ NoBuffer(p) \/ GetNextPostId(p) \/ AddPost(p)
             \/ BuildPostMessage(p) \/ PostStatusMessage(p)
             \/ SendUPAMessage(p)
      PROVE  inFlight'[q] = <<>> /\ work'[q].todo = <<>>
  <2>1. ~IsResting(p) /\ isShut' = isShut
    BY <1>2 DEF NoBuffer, GetNextPostId, AddPost, BuildPostMessage,
                PostStatusMessage, SendUPAMessage, At
  <2>2. p # q
    BY <2>1 DEF ShutIsEmpty
  <2>3. work'[q] = work[q]
    BY <1>0, <1>2, <2>2 DEF NoBuffer, GetNextPostId, AddPost,
       BuildPostMessage, PostStatusMessage, SendUPAMessage, GiveUp, GoTo,
       NextPost
  <2>4. inFlight'[q] = inFlight[q]
    BY <1>0, <1>2, <2>2 DEF NoBuffer, GetNextPostId, AddPost,
       BuildPostMessage, PostStatusMessage, SendUPAMessage, RememberId
  <2> QED
    BY <2>1, <2>3, <2>4 DEF ShutIsEmpty
<1>3. ASSUME NEW p \in Posters, Shutdown(p)
      PROVE  inFlight'[q] = <<>> /\ work'[q].todo = <<>>
  BY <1>0, <1>3 DEF ShutIsEmpty, Shutdown, ClearIds
<1>4. ASSUME NEW m \in upstream, ProcessAck(m)
      PROVE  inFlight'[q] = <<>> /\ work'[q].todo = <<>>
  <2> DEFINE r == postList[Matching(m.id)].poster
  <2>1. isShut' = isShut /\ work' = work
    BY <1>4 DEF ProcessAck
  <2>2. inFlight[q] = <<>> /\ work[q].todo = <<>>
    BY <2>1 DEF ShutIsEmpty
  <2>3. CASE Contains(inFlight[r], m.id)
    <3>1. r # q
      BY <2>2, <2>3 DEF Contains
    <3>2. inFlight'[q] = inFlight[q]
      BY <1>0, <1>4, <3>1 DEF ProcessAck
    <3> QED
      BY <2>1, <2>2, <3>2
  <2>4. CASE ~Contains(inFlight[r], m.id)
    BY <1>4, <2>1, <2>2, <2>4 DEF ProcessAck
  <2> QED
    BY <2>3, <2>4
<1>5. CASE \/ \E m \in upstream : IgnoreAnswer(m)
           \/ ReportAnswer \/ LoseConnection \/ Reconnect
           \/ UNCHANGED vars
  BY <1>5 DEF ShutIsEmpty, IgnoreAnswer, ReportAnswer, LoseConnection,
              Reconnect, vars
<1> QED
  BY <1>1, <1>2, <1>3, <1>4, <1>5 DEF Next, ClientStep, ConsumerStep

(* However many acks are under way, none is taken up for a poster once its *)
(* Shutdown is over: the list of ids that ProcessAck consults is empty and *)
(* stays empty (UPABridgePoster.cpp Shutdown, ProcessAck).                 *)
THEOREM Quiet == Spec => QuietOnceShut
PROOF
<1>1. Init => ShutIsEmpty
  BY DEF Init, ShutIsEmpty
<1>2. TypeOK /\ ShutIsEmpty /\ [Next]_vars => ShutIsEmpty'
  BY ShutStaysEmpty
<1>3. TypeOK /\ ShutIsEmpty /\ [Next]_vars
        => [answering = None /\ answering' # None
              => ~isShut[answering'.record.poster]]_vars
  <2> SUFFICES ASSUME TypeOK, ShutIsEmpty, [Next]_vars, answering = None,
                      answering' # None
               PROVE  ~isShut[answering'.record.poster]
    OBVIOUS
  <2>1. PICK m \in upstream : ProcessAck(m)
    BY DEF Next, ClientStep, ConsumerStep, PublishMessage, NoBuffer,
       GetNextPostId, AddPost, BuildPostMessage, PostStatusMessage,
       SendUPAMessage, Shutdown, IgnoreAnswer, ReportAnswer, LoseConnection,
       Reconnect, vars
  <2> DEFINE i == Matching(m.id)
  <2>2. /\ i # 0 /\ Contains(inFlight[postList[i].poster], m.id)
        /\ answering'.record = postList[i]
    BY <2>1 DEF ProcessAck
  <2>3. i \in 1 .. Len(postList)
    BY <2>2, MatchingIsFirst DEF TypeOK
  <2>4. postList[i] \in PostRecords
    BY <2>3 DEF TypeOK
  <2>5. postList[i].poster \in Posters
    BY <2>4 DEF PostRecords
  <2>6. inFlight[postList[i].poster] # <<>>
    BY <2>2 DEF Contains
  <2> QED
    BY <2>2, <2>5, <2>6 DEF ShutIsEmpty
<1> QED
  BY <1>1, <1>2, <1>3, Typing, PTL DEF Spec, QuietOnceShut

-----------------------------------------------------------------------------
(* The status of an item.                                                  *)

(* What the RMDS believes of an item while p works on a message: before    *)
(* the status is sent, what it believed before the message; after, what    *)
(* the poster remembers.                                                   *)
StatusFollows(p) ==
  /\ work[p].todo \in {<<>>, <<"data">>, <<"status">>,
                       <<"status", "data">>, <<"data", "status">>}
  /\ work[p].todo = <<"data", "status">> => work[p].status = "ok"
  /\ At(p, "built", {"status"}) => lastMsgStatus[p] = work[p].status
  /\ p \notin unmarked /\ ~At(p, "built", {"status"})
       => marked[p] = lastMsgStatus[p]
  /\ p \notin unmarked /\ work[p].todo = <<"data">>
       => lastMsgStatus[p] = work[p].status
StatusInv == \A p \in Posters : StatusFollows(p)

\* The posts still to do, taken apart.
LEMMA TodoCases ==
  /\ Head(<<"data">>) = "data" /\ Head(<<"status">>) = "status"
  /\ Head(<<"status", "data">>) = "status"
  /\ Head(<<"data", "status">>) = "data"
  /\ Tail(<<"status", "data">>) = <<"data">>
  /\ Tail(<<"data", "status">>) = <<"status">>
  /\ Len(<<"data">>) = 1 /\ Len(<<"status">>) = 1
  /\ Len(<<"status", "data">>) = 2 /\ Len(<<"data", "status">>) = 2
  /\ <<"data">> # <<>> /\ <<"status">> # <<>>
  /\ <<"status", "data">> # <<>> /\ <<"data", "status">> # <<>>
  /\ <<"data">> # <<"status">> /\ <<"status", "data">> # <<"data">>
  /\ <<"data", "status">> # <<"data">>
  /\ <<"data", "status">> # <<"status", "data">>
PROOF OBVIOUS

\* A step that leaves all of a poster's status alone.
LEMMA StatusUntouched ==
  ASSUME NEW q \in Posters, StatusFollows(q), work'[q] = work[q],
         lastMsgStatus'[q] = lastMsgStatus[q], marked'[q] = marked[q],
         q \in unmarked <=> q \in unmarked'
  PROVE  StatusFollows(q)'
PROOF
  BY DEF StatusFollows, At, IsResting

\* A poster that comes to rest, or gets an id or a place on the list.
LEMMA StatusAtRest ==
  ASSUME NEW p \in Posters, StatusFollows(p), ~At(p, "built", {"status"}),
         GiveUp(p), TypeOK, lastMsgStatus' = lastMsgStatus, marked' = marked,
         unmarked' = unmarked
  PROVE  StatusFollows(p)'
PROOF
<1>1. work'[p] = Resting
  BY DEF GiveUp, TypeOK
<1> QED
  BY <1>1 DEF StatusFollows, At, IsResting, Resting

LEMMA StatusKept ==
  ASSUME TypeOK, StatusInv, [Next]_vars
  PROVE  StatusInv'
PROOF
<1> USE DEF posterVars, rmdsVars
<1>0. /\ work \in [Posters -> Works]
      /\ lastMsgStatus \in [Posters -> Statuses]
      /\ marked \in [Posters -> Statuses]
  BY DEF TypeOK
<1> SUFFICES ASSUME NEW q \in Posters PROVE StatusFollows(q)'
  BY DEF StatusInv
<1>q. StatusFollows(q)
  BY DEF StatusInv
<1>1. ASSUME NEW p \in Posters, NEW st \in Statuses, PublishMessage(p, st)
      PROVE  StatusFollows(q)'
  <2>1. /\ lastMsgStatus' = lastMsgStatus /\ marked' = marked
        /\ unmarked' = unmarked
    BY <1>1 DEF PublishMessage
  <2>2. CASE p # q
    BY <1>0, <1>1, <1>q, <2>1, <2>2, StatusUntouched DEF PublishMessage
  <2>3. CASE p = q
    <3>1. /\ work'[p].todo = Posts(st, lastMsgStatus[p])
          /\ work'[p].stage = "start" /\ work'[p].status = st
      BY <1>0, <1>1 DEF PublishMessage
    <3>2. marked[p] = lastMsgStatus[p] \/ p \in unmarked
      BY <1>1, <1>q, <2>3 DEF PublishMessage, StatusFollows, At
    <3>3. CASE st = lastMsgStatus[p]
      <4>1. Posts(st, lastMsgStatus[p]) = <<"data">>
        BY <3>3 DEF Posts
      <4> QED
        BY <2>1, <2>3, <3>1, <3>2, <3>3, <4>1, TodoCases
           DEF StatusFollows, At
    <3>4. CASE st # lastMsgStatus[p] /\ lastMsgStatus[p] = "ok"
      <4>1. Posts(st, lastMsgStatus[p]) = <<"status", "data">>
        BY <3>4 DEF Posts
      <4> QED
        BY <2>1, <2>3, <3>1, <3>2, <4>1, TodoCases DEF StatusFollows, At
    <3>5. CASE st # lastMsgStatus[p] /\ lastMsgStatus[p] # "ok"
      <4>1. Posts(st, lastMsgStatus[p]) = <<"data", "status">>
        BY <3>5 DEF Posts
      <4>2. st = "ok"
        BY <1>0, <3>5 DEF Statuses
      <4> QED
        BY <2>1, <2>3, <3>1, <3>2, <4>1, <4>2, TodoCases
           DEF StatusFollows, At
    <3> QED
      BY <3>3, <3>4, <3>5
  <2> QED
    BY <2>2, <2>3
<1>2. ASSUME NEW p \in Posters, NoBuffer(p) PROVE StatusFollows(q)'
  <2>1. /\ lastMsgStatus' = lastMsgStatus /\ marked' = marked
        /\ unmarked' = unmarked /\ GiveUp(p) /\ ~At(p, "built", {"status"})
    BY <1>2 DEF NoBuffer, At
  <2>2. CASE p # q
    BY <1>0, <1>q, <2>1, <2>2, StatusUntouched DEF GiveUp
  <2> QED
    BY <1>q, <2>1, <2>2, StatusAtRest
<1>3. ASSUME NEW p \in Posters, GetNextPostId(p) \/ AddPost(p)
      PROVE  StatusFollows(q)'
  <2>1. /\ lastMsgStatus' = lastMsgStatus /\ marked' = marked
        /\ unmarked' = unmarked
    BY <1>3 DEF GetNextPostId, AddPost
  <2>2. CASE p # q
    BY <1>0, <1>3, <1>q, <2>1, <2>2, StatusUntouched
       DEF GetNextPostId, AddPost, GoTo
  <2>3. CASE p = q
    <3>1. /\ work'[p].todo = work[p].todo /\ work'[p].status = work[p].status
          /\ work'[p].stage \in {"numbered", "added"}
          /\ work[p].stage \in {"start", "numbered"}
      BY <1>0, <1>3 DEF GetNextPostId, AddPost, GoTo, Works, At
    <3> QED
      BY <1>q, <2>1, <2>3, <3>1 DEF StatusFollows, At, IsResting
  <2> QED
    BY <2>2, <2>3
<1>4. ASSUME NEW p \in Posters, BuildPostMessage(p) PROVE StatusFollows(q)'
  <2>1. /\ lastMsgStatus' = lastMsgStatus /\ marked' = marked
        /\ unmarked' = unmarked /\ At(p, "added", {"data"})
    BY <1>4 DEF BuildPostMessage
  <2>2. CASE p # q
    BY <1>0, <1>4, <1>q, <2>1, <2>2, StatusUntouched
       DEF BuildPostMessage, GoTo, GiveUp
  <2>3. CASE p = q /\ GiveUp(p)
    BY <1>q, <2>1, <2>3, StatusAtRest DEF At
  <2>4. CASE p = q /\ GoTo(p, "built")
    <3>1. /\ work'[p].todo = work[p].todo /\ work'[p].status = work[p].status
          /\ Head(work[p].todo) = "data"
      BY <1>0, <2>1, <2>4 DEF GoTo, Works, At
    <3>2. ~At(p, "built", {"status"}) /\ ~At(p, "built", {"status"})'
      BY <2>1, <3>1 DEF At, IsResting
    <3> QED
      BY <1>q, <2>1, <2>4, <3>1, <3>2 DEF StatusFollows
  <2> QED
    BY <1>4, <2>2, <2>3, <2>4 DEF BuildPostMessage
<1>5. ASSUME NEW p \in Posters, PostStatusMessage(p) PROVE StatusFollows(q)'
  <2>1. /\ marked' = marked /\ At(p, "added", {"status"})
        /\ ~At(p, "built", {"status"})
    BY <1>5 DEF PostStatusMessage, At
  <2>2. CASE p # q
    <3>1. /\ work'[q] = work[q] /\ lastMsgStatus'[q] = lastMsgStatus[q]
          /\ q \in unmarked <=> q \in unmarked'
      BY <1>0, <1>5, <2>2 DEF PostStatusMessage, GoTo, NextPost, GiveUp,
         SetState, MissesStatus
    <3> QED
      BY <1>q, <2>1, <3>1, StatusUntouched
  <2>3. CASE p = q /\ SetState(p) /\ GoTo(p, "built")
    <3>1. /\ work'[p].todo = work[p].todo /\ work'[p].status = work[p].status
          /\ work'[p].stage = "built" /\ Head(work[p].todo) = "status"
          /\ work[p].todo # <<>> /\ lastMsgStatus'[p] = work[p].status
      BY <1>0, <2>1, <2>3 DEF GoTo, Works, At, IsResting, SetState
    <3>2. At(p, "built", {"status"})'
      BY <3>1 DEF At, IsResting
    <3> QED
      BY <1>q, <2>1, <2>3, <3>1, <3>2, TodoCases DEF StatusFollows
  <2>4. CASE p = q /\ MissesStatus(p) /\ (NextPost(p) \/ GiveUp(p))
    <3>1. /\ p \in unmarked' /\ Head(work[p].todo) = "status"
          /\ work[p].todo # <<>>
      BY <2>1, <2>4 DEF MissesStatus, At, IsResting
    <3>2. /\ work'[p].todo \in {<<>>, <<"data">>}
          /\ work'[p].stage \in {"rest", "start"}
      <4>1. work[p].todo \in {<<"status">>, <<"status", "data">>}
        BY <1>q, <2>4, <3>1, TodoCases DEF StatusFollows
      <4>2. CASE GiveUp(p)
        BY <1>0, <4>2 DEF GiveUp, Resting
      <4>3. CASE NextPost(p)
        BY <1>0, <4>1, <4>3, TodoCases DEF NextPost, Resting
      <4> QED
        BY <2>4, <4>2, <4>3
    <3>3. ~At(p, "built", {"status"})'
      BY <3>2 DEF At
    <3> QED
      BY <2>4, <3>1, <3>2, <3>3, TodoCases DEF StatusFollows
  <2> QED
    BY <1>5, <2>2, <2>3, <2>4 DEF PostStatusMessage
<1>6. ASSUME NEW p \in Posters, SendUPAMessage(p) PROVE StatusFollows(q)'
  <2>1. /\ lastMsgStatus' = lastMsgStatus /\ NextPost(p)
        /\ At(p, "built", {"data", "status"})
    BY <1>6 DEF SendUPAMessage
  <2>2. CASE p # q
    <3>1. /\ work'[q] = work[q] /\ marked'[q] = marked[q]
          /\ q \in unmarked <=> q \in unmarked'
      BY <1>0, <1>6, <2>2 DEF SendUPAMessage, NextPost, MissesStatus
    <3> QED
      BY <1>q, <2>1, <2>2, <3>1, StatusUntouched
  <2>3. CASE p = q /\ Head(work[p].todo) = "data"
    <3>1. marked' = marked /\ unmarked' = unmarked
      BY <1>6, <2>3 DEF SendUPAMessage, MissesStatus
    <3>2. ~At(p, "built", {"status"}) /\ work[p].todo # <<>>
      BY <2>1, <2>3 DEF At, IsResting
    <3>3. /\ work'[p].todo \in {<<>>, <<"status">>}
          /\ work'[p].stage \in {"rest", "start"}
      BY <1>0, <1>q, <2>1, <2>3, <3>2, TodoCases
         DEF StatusFollows, NextPost, Resting
    <3>4. ~At(p, "built", {"status"})'
      BY <3>3 DEF At
    <3> QED
      BY <1>q, <2>1, <2>3, <3>1, <3>2, <3>3, <3>4, TodoCases
         DEF StatusFollows
  <2>4. CASE p = q /\ Head(work[p].todo) = "status"
    <3>1. At(p, "built", {"status"}) /\ work[p].todo # <<>>
      BY <2>1, <2>4 DEF At, IsResting
    <3>2. lastMsgStatus[p] = work[p].status
      BY <1>q, <2>4, <3>1 DEF StatusFollows
    <3>3. p \in unmarked' \/ marked'[p] = work[p].status
      BY <1>0, <1>6, <2>4 DEF SendUPAMessage, MissesStatus
    <3>4. /\ work'[p].todo = <<>> \/ /\ work'[p].todo = <<"data">>
                                     /\ work'[p].status = work[p].status
          /\ work'[p].stage \in {"rest", "start"}
      BY <1>0, <1>q, <2>1, <2>4, <3>1, TodoCases
         DEF StatusFollows, NextPost, Resting
    <3>5. ~At(p, "built", {"status"})'
      BY <3>4 DEF At
    <3> QED
      BY <2>1, <2>4, <3>2, <3>3, <3>4, <3>5, TodoCases DEF StatusFollows
  <2>5. Head(work[p].todo) \in {"data", "status"}
    BY <2>1 DEF At
  <2> QED
    BY <2>2, <2>3, <2>4, <2>5
<1>7. ASSUME NEW p \in Posters, Shutdown(p) PROVE StatusFollows(q)'
  BY <1>7, <1>q, StatusUntouched DEF Shutdown
<1>8. CASE ConsumerStep \/ UNCHANGED vars
  BY <1>8, <1>q, StatusUntouched DEF ConsumerStep, ProcessAck, IgnoreAnswer,
     ReportAnswer, LoseConnection, Reconnect, vars
<1> QED
  BY <1>1, <1>2, <1>3, <1>4, <1>5, <1>6, <1>7, <1>8 DEF Next, ClientStep

(* Whatever steps of posting fail and whenever the connection goes, the    *)
(* RMDS is told that an item is stale before it gets the stale data, and   *)
(* between messages it believes what the poster remembers, unless sending  *)
(* the status itself failed last (UPABridgePoster.cpp DoPostMessage).      *)
THEOREM Marked == Spec => []StaleIsMarked
PROOF
<1>1. Init => StatusInv
  BY TodoCases DEF Init, StatusInv, StatusFollows, At, IsResting, Resting
<1>2. TypeOK /\ StatusInv /\ [Next]_vars => StatusInv'
  BY StatusKept
<1>3. TypeOK /\ StatusInv => StaleIsMarked
  <2> SUFFICES ASSUME TypeOK, StatusInv, NEW p \in Posters, p \notin unmarked
               PROVE  /\ IsResting(p) => marked[p] = lastMsgStatus[p]
                      /\ At(p, "built", {"data"}) /\ work[p].status = "stale"
                           => marked[p] = "stale"
    BY DEF StaleIsMarked
  <2>1. StatusFollows(p)
    BY DEF StatusInv
  <2>2. ASSUME IsResting(p) PROVE marked[p] = lastMsgStatus[p]
    BY <2>1, <2>2 DEF StatusFollows, At
  <2>3. ASSUME At(p, "built", {"data"}), work[p].status = "stale"
        PROVE  marked[p] = "stale"
    <3>1. work[p].todo = <<"data">>
      BY <2>1, <2>3, TodoCases DEF StatusFollows, At, IsResting
    <3>2. ~At(p, "built", {"status"})
      BY <3>1, TodoCases DEF At
    <3> QED
      BY <2>1, <2>3, <3>1, <3>2 DEF StatusFollows
  <2> QED
    BY <2>2, <2>3
<1> QED
  BY <1>1, <1>2, <1>3, Typing, PTL DEF Spec

-----------------------------------------------------------------------------
(* The routing of acks, when one thread posts and the ids do not start     *)
(* again.                                                                  *)

\* p's post is on the list and has the next answer coming.
HasId(p) == At(p, "added", {"data", "status"}) \/ At(p, "built", {"data", "status"})
Left(p) == IF HasId(p) THEN Len(work[p].todo) - 1 ELSE Len(work[p].todo)

(* Ids are given out one at a time, at most two to a message. *)
CountInv ==
  /\ \A p, q \in Posters : IsResting(p) \/ IsResting(q) \/ p = q
  /\ \A p \in Posters : nextPostId + Left(p) <= 2 * published
  /\ \A p \in Posters : At(p, "numbered", {"data", "status"})
                          => work[p].id = nextPostId

(* Every record has an id of its own, every post that has an id has its    *)
(* record until it is answered, and the poster knows the ids of its data.  *)
IdsDiffer ==
  /\ \A i \in 1 .. Len(postList) : postList[i].id < nextPostId
  /\ \A i, j \in 1 .. Len(postList) : postList[i].id = postList[j].id => i = j
IsListed(p) == HasId(p) => Contains(postList, Post(p)) /\ Post(p) \notin upstream
IsNoted(p) == At(p, "built", {"data"}) => Contains(inFlight[p], work[p].id)
IsKnown(m) == m.kind = "data" /\ ~isShut[m.poster]
                => Contains(inFlight[m.poster], m.id)
RecordInv ==
  /\ IdsDiffer
  /\ \A m \in upstream : Contains(postList, m) /\ IsKnown(m)
  /\ \A p \in Posters : IsListed(p) /\ IsNoted(p)
  /\ answering # None => answering.record = answering.about

(* A poster at work is the only one. *)
LEMMA OthersRest ==
  ASSUME CountInv, NEW p \in Posters, ~IsResting(p), NEW q \in Posters, q # p
  PROVE  IsResting(q) /\ Left(q) = 0
PROOF
<1>1. IsResting(q)
  BY DEF CountInv
<1> QED
  BY <1>1 DEF Left, HasId, At, IsResting

(* Once p has done something, the others still at rest. *)
LEMMA CountStep ==
  ASSUME TypeOK, NEW p \in Posters, NEW w \in Works,
         \A q \in Posters : q # p => IsResting(q),
         work' = [work EXCEPT ![p] = w],
         nextPostId' \in Nat, published' \in Nat,
         nextPostId' + 0 <= 2 * published',
         (nextPostId + Left(p) <= 2 * published)',
         At(p, "numbered", {"data", "status"})' => w.id = nextPostId'
  PROVE  CountInv'
PROOF
<1>1. work \in [Posters -> Works]
  BY DEF TypeOK
<1>2. \A q \in Posters : q # p => work'[q] = work[q] /\ IsResting(q)'
  BY <1>1 DEF IsResting
<1>3. work'[p] = w
  BY <1>1
<1>4. ASSUME NEW q \in Posters PROVE (nextPostId + Left(q) <= 2 * published)'
  <2>1. CASE q # p
    <3>1. Left(q)' = 0
      BY <1>2, <2>1 DEF Left, HasId, At, IsResting
    <3> QED
      BY <3>1, Zenon
  <2> QED
    BY <2>1
<1>5. ASSUME NEW q \in Posters, At(q, "numbered", {"data", "status"})'
      PROVE  work'[q].id = nextPostId'
  BY <1>2, <1>3, <1>5 DEF At
<1>6. \A q, r \in Posters : IsResting(q)' \/ IsResting(r)' \/ q = r
  BY <1>2
<1> QED
  BY <1>4, <1>5, <1>6 DEF CountInv

(* What is left to do, as a number. *)
LEMMA LeftTyped ==
  ASSUME TypeOK, NEW p \in Posters
  PROVE  /\ work[p] \in Works /\ Len(work[p].todo) \in Nat /\ Left(p) \in Nat
         /\ IsResting(p) => Left(p) = 0 /\ ~HasId(p)
         /\ ~IsResting(p) => /\ Len(work[p].todo) >= 1
                             /\ Len(Tail(work[p].todo)) = Len(work[p].todo) - 1
                             /\ Head(work[p].todo) \in {"data", "status"}
PROOF
<1>1. work[p] \in Works
  BY DEF TypeOK
<1>2. work[p].todo \in Seq({"data", "status"})
  BY <1>1 DEF Works
<1>3. Len(work[p].todo) \in Nat
  BY <1>2
<1>4. ASSUME ~IsResting(p)
      PROVE  /\ Len(work[p].todo) >= 1
             /\ Len(Tail(work[p].todo)) = Len(work[p].todo) - 1
             /\ Head(work[p].todo) \in {"data", "status"}
  BY <1>2, <1>4 DEF IsResting
<1>5. ASSUME IsResting(p) PROVE Left(p) = 0 /\ ~HasId(p)
  BY <1>5 DEF IsResting, Left, HasId, At
<1>6. HasId(p) => ~IsResting(p)
  BY DEF HasId, At
<1>7. Left(p) \in Nat
  BY <1>3, <1>4, <1>6 DEF Left
<1> QED
  BY <1>1, <1>3, <1>4, <1>5, <1>7

(* A poster that has an id goes on to sending, to its next post or to rest. *)
LEMMA CountGoesOn ==
  ASSUME TypeOK, CountInv, NEW p \in Posters, HasId(p),
         GoTo(p, "built") \/ NextPost(p) \/ GiveUp(p),
         nextPostId' = nextPostId, published' = published
  PROVE  CountInv'
PROOF
<1>1. ~IsResting(p)
  BY DEF HasId, At
<1>2. \A q \in Posters : q # p => IsResting(q)
  BY <1>1, OthersRest
<1>3. nextPostId \in Nat /\ published \in Nat
  BY PosterAssumption DEF TypeOK
<1>4. /\ Left(p) = Len(work[p].todo) - 1 /\ Left(p) \in Nat
      /\ nextPostId + Left(p) <= 2 * published
  BY LeftTyped DEF Left, CountInv
<1>5. /\ nextPostId' \in Nat /\ published' \in Nat
      /\ nextPostId' + 0 <= 2 * published'
  BY <1>3, <1>4
<1>6. CASE GoTo(p, "built")
  <2> DEFINE w == [work[p] EXCEPT !.stage = "built"]
  <2>1. w \in Works /\ w.todo = work[p].todo /\ w.stage = "built"
    BY LeftTyped DEF Works
  <2>2. work'[p] = w /\ work' = [work EXCEPT ![p] = w]
    BY <1>6 DEF GoTo, TypeOK
  <2>3. HasId(p)'
    BY <1>1, <2>1, <2>2, LeftTyped DEF HasId, At, IsResting
  <2>4. Left(p)' = Left(p)
    BY <1>4, <2>1, <2>2, <2>3 DEF Left
  <2>5. (nextPostId + Left(p) <= 2 * published)'
    BY <1>4, <2>4
  <2>6. ~At(p, "numbered", {"data", "status"})'
    BY <2>1, <2>2 DEF At
  <2> QED
    BY <1>2, <1>5, <2>1, <2>2, <2>5, <2>6, CountStep
<1>7. CASE GiveUp(p) \/ (NextPost(p) /\ Len(work[p].todo) = 1)
  <2>1. Resting \in Works
    BY WorkTyped
  <2>2. work'[p] = Resting /\ work' = [work EXCEPT ![p] = Resting]
    BY <1>7 DEF GiveUp, NextPost, TypeOK
  <2>3. Left(p)' = 0
    BY <2>2 DEF Left, HasId, At, IsResting, Resting
  <2>4. (nextPostId + Left(p) <= 2 * published)'
    BY <1>5, <2>3, Zenon
  <2>5. ~At(p, "numbered", {"data", "status"})'
    BY <2>2 DEF At, Resting
  <2> QED
    BY <1>2, <1>5, <2>1, <2>2, <2>4, <2>5, CountStep, Zenon
<1>8. CASE NextPost(p) /\ Len(work[p].todo) # 1
  <2> DEFINE w == [todo |-> Tail(work[p].todo), stage |-> "start",
                   status |-> work[p].status, id |-> 0]
  <2>1. w \in Works
    BY <1>1, WorkTyped
  <2>2. work'[p] = w /\ work' = [work EXCEPT ![p] = w]
    BY <1>8 DEF NextPost, TypeOK
  <2>3. Left(p)' = Len(Tail(work[p].todo))
    BY <2>2 DEF Left, HasId, At
  <2>4. (nextPostId + Left(p) <= 2 * published)'
    BY <1>1, <1>4, <2>3, LeftTyped
  <2>5. ~At(p, "numbered", {"data", "status"})'
    BY <2>2 DEF At
  <2>6. PICK v \in Works : v = w
    BY <2>1
  <2>7. work' = [work EXCEPT ![p] = v]
    BY <2>2, <2>6
  <2> HIDE DEF w
  <2> QED
    BY <1>2, <1>5, <2>4, <2>5, <2>7, CountStep
<1> QED
  BY <1>6, <1>7, <1>8

(* One thread takes one id after the other and none starts again at 0. *)
LEMMA CountKept ==
  ASSUME SharedThread, 2 * MaxPublishes <= MaxPostId, TypeOK, CountInv,
         [Next]_vars
  PROVE  CountInv'
PROOF
<1> USE DEF posterVars, sessionVars, rmdsVars
<1>0. /\ nextPostId \in Nat /\ published \in Nat /\ MaxPostId \in Nat
      /\ MaxPublishes \in Nat /\ published <= MaxPublishes
  BY PosterAssumption DEF TypeOK
<1>1. ASSUME NEW p \in Posters, NEW st \in Statuses, PublishMessage(p, st)
      PROVE  CountInv'
  <2>1. \A q \in Posters : IsResting(q)
    BY <1>1 DEF PublishMessage, ThreadIsFree
  <2>2. /\ Posts(st, lastMsgStatus[p]) \in Seq({"data", "status"})
        /\ Len(Posts(st, lastMsgStatus[p])) \in {1, 2}
    <3>1. Posts(st, lastMsgStatus[p]) \in
            {<<"data">>, <<"status", "data">>, <<"data", "status">>}
      BY Zenon DEF Posts
    <3>2. \A s \in {<<"data">>, <<"status", "data">>, <<"data", "status">>} :
            s \in Seq({"data", "status"}) /\ Len(s) \in {1, 2}
      <4>1. <<"data">> \in Seq({"data", "status"}) /\ Len(<<"data">>) = 1
        OBVIOUS
      <4>2. /\ <<"status", "data">> \in Seq({"data", "status"})
            /\ Len(<<"status", "data">>) = 2
        OBVIOUS
      <4>3. /\ <<"data", "status">> \in Seq({"data", "status"})
            /\ Len(<<"data", "status">>) = 2
        OBVIOUS
      <4> QED
        BY <4>1, <4>2, <4>3
    <3> QED
      BY <3>1, <3>2
  <2> DEFINE w == [todo |-> Posts(st, lastMsgStatus[p]), stage |-> "start",
                   status |-> st, id |-> 0]
  <2>3. w \in Works
    BY <2>2, PosterAssumption DEF Works, PostIds
  <2>4. work'[p] = w /\ work' = [work EXCEPT ![p] = w]
    BY <1>1 DEF PublishMessage, TypeOK
  <2>5. Left(p)' = Len(Posts(st, lastMsgStatus[p]))
    BY <2>4 DEF Left, HasId, At
  <2>6. nextPostId + 0 <= 2 * published
    BY <1>0, <2>1, LeftTyped DEF CountInv
  <2>7. nextPostId' = nextPostId /\ published' = published + 1
    BY <1>1 DEF PublishMessage
  <2>8. (nextPostId + Left(p) <= 2 * published)'
    <3>1. PICK n \in {1, 2} : Left(p)' = n
      BY <2>2, <2>5
    <3>2. nextPostId + n <= 2 * (published + 1)
      BY <1>0, <2>6
    <3> QED
      BY <2>7, <3>1, <3>2
  <2>9. /\ nextPostId' \in Nat /\ published' \in Nat
        /\ nextPostId' + 0 <= 2 * published'
    BY <1>0, <2>6, <2>7
  <2>10. ~At(p, "numbered", {"data", "status"})'
    BY <2>4 DEF At
  <2>11. PICK v \in Works : v = w
    BY <2>3
  <2>12. work' = [work EXCEPT ![p] = v]
    BY <2>4, <2>11
  <2> HIDE DEF w
  <2> QED
    BY <2>1, <2>8, <2>9, <2>10, <2>12, CountStep
<1>2. ASSUME NEW p \in Posters, ~IsResting(p)
      PROVE  /\ \A q \in Posters : q # p => IsResting(q)
             /\ nextPostId + Left(p) <= 2 * published
             /\ Left(p) \in Nat
  BY <1>2, OthersRest, LeftTyped DEF CountInv
<1>3. ASSUME NEW p \in Posters, NoBuffer(p) PROVE CountInv'
  <2>1. ~IsResting(p) /\ GiveUp(p) /\ UNCHANGED <<nextPostId, published>>
    BY <1>3 DEF NoBuffer, At
  <2>2. work'[p] = Resting /\ work' = [work EXCEPT ![p] = Resting]
    BY <2>1 DEF GiveUp, TypeOK
  <2>3. Left(p)' = 0
    BY <2>2 DEF Left, HasId, At, IsResting, Resting
  <2>4. ~At(p, "numbered", {"data", "status"})'
    BY <2>2 DEF At, Resting
  <2>5. /\ nextPostId' \in Nat /\ published' \in Nat
        /\ nextPostId' + 0 <= 2 * published'
    BY <1>0, <1>2, <2>1
  <2>6. (nextPostId + Left(p) <= 2 * published)'
    BY <2>3, <2>5, Zenon
  <2> QED
    BY <1>2, <2>1, <2>2, <2>4, <2>5, <2>6, WorkTyped, CountStep, Zenon
<1>4. ASSUME NEW p \in Posters, GetNextPostId(p) PROVE CountInv'
  <2>1. /\ ~IsResting(p) /\ ~HasId(p) /\ work[p].stage = "start"
        /\ UNCHANGED <<nextPostId, published>>
    BY <1>4 DEF GetNextPostId, At, HasId
  <2>2. /\ Left(p) = Len(work[p].todo) /\ Left(p) >= 1
    BY <2>1, LeftTyped DEF Left
  <2>3. nextPostId + 1 <= 2 * published /\ nextPostId < MaxPostId
    BY <1>0, <1>2, <2>1, <2>2
  <2>4. FreshPostId(nextPostId) = nextPostId /\ nextPostId \in PostIds
    BY <1>0, <2>3 DEF FreshPostId, PostIds
  <2>5. work[p] \in Works
    BY DEF TypeOK
  <2> DEFINE w == [work[p] EXCEPT !.id = nextPostId, !.stage = "numbered"]
  <2>6. w \in Works /\ w.todo = work[p].todo /\ w.stage = "numbered" /\ w.id = nextPostId
    BY <2>4, <2>5 DEF Works
  <2>7. work'[p] = w /\ work' = [work EXCEPT ![p] = w]
    BY <1>4, <2>4 DEF GetNextPostId, TypeOK
  <2>8. Left(p)' = Left(p)
    BY <2>2, <2>6, <2>7 DEF Left, HasId, At
  <2>9. /\ nextPostId' \in Nat /\ published' \in Nat
        /\ nextPostId' + 0 <= 2 * published'
        /\ (nextPostId + Left(p) <= 2 * published)'
    BY <1>0, <1>2, <2>1, <2>3, <2>8
  <2>10. PICK v \in Works : v = w
    BY <2>6
  <2>11. work' = [work EXCEPT ![p] = v] /\ v.id = nextPostId'
    BY <2>1, <2>6, <2>7, <2>10
  <2> HIDE DEF w
  <2> QED
    BY <1>2, <2>1, <2>9, <2>11, CountStep
<1>5. ASSUME NEW p \in Posters, AddPost(p) PROVE CountInv'
  <2>1. /\ ~IsResting(p) /\ ~HasId(p) /\ At(p, "numbered", {"data", "status"})
        /\ UNCHANGED published
    BY <1>5 DEF AddPost, At, HasId
  <2>2. work[p].id = nextPostId
    BY <2>1 DEF CountInv
  <2>3. nextPostId' = nextPostId + 1
    BY <1>5, <2>2 DEF AddPost, MoveOn
  <2>4. /\ Left(p) = Len(work[p].todo) /\ Left(p) >= 1
    BY <2>1, LeftTyped DEF Left
  <2>5. work[p] \in Works
    BY DEF TypeOK
  <2> DEFINE w == [work[p] EXCEPT !.stage = "added"]
  <2>6. w \in Works /\ w.todo = work[p].todo /\ w.stage = "added"
    BY <2>5 DEF Works
  <2>7. work'[p] = w /\ work' = [work EXCEPT ![p] = w]
    BY <1>5 DEF AddPost, GoTo, TypeOK
  <2>8. Head(work[p].todo) \in {"data", "status"}
    BY <2>1, LeftTyped
  <2>9. HasId(p)'
    BY <2>1, <2>6, <2>7, <2>8 DEF HasId, At, IsResting
  <2>10. Left(p)' = Left(p) - 1
    BY <2>4, <2>6, <2>7, <2>9 DEF Left
  <2>11. /\ nextPostId' \in Nat /\ published' \in Nat
         /\ nextPostId' + 0 <= 2 * published'
         /\ (nextPostId + Left(p) <= 2 * published)'
    <3>1. PICK n \in Nat : n = Left(p)
      BY <1>2, <2>1
    <3>2. /\ nextPostId + 1 \in Nat /\ (nextPostId + 1) + 0 <= 2 * published
          /\ (nextPostId + 1) + (n - 1) <= 2 * published
      <4>1. nextPostId + n <= 2 * published /\ n >= 1
        BY <1>2, <2>1, <2>4, <3>1
      <4> QED
        BY <1>0, <4>1
    <3>3. Left(p)' = n - 1
      BY <2>10, <3>1
    <3>4. published' = published
      BY <2>1
    <3> QED
      BY <1>0, <2>3, <3>2, <3>3, <3>4
  <2>12. ~At(p, "numbered", {"data", "status"})'
    BY <2>6, <2>7 DEF At
  <2>13. PICK v \in Works : v = w
    BY <2>6
  <2>14. work' = [work EXCEPT ![p] = v]
    BY <2>7, <2>13
  <2> HIDE DEF w
  <2> QED
    BY <1>2, <2>1, <2>11, <2>12, <2>14, CountStep
<1>6. ASSUME NEW p \in Posters,
             BuildPostMessage(p) \/ PostStatusMessage(p) \/ SendUPAMessage(p)
      PROVE  CountInv'
  <2>1. /\ HasId(p) /\ nextPostId' = nextPostId /\ published' = published
        /\ GoTo(p, "built") \/ NextPost(p) \/ GiveUp(p)
    BY <1>6 DEF HasId, At, BuildPostMessage, PostStatusMessage,
       SendUPAMessage
  <2> QED
    BY <2>1, CountGoesOn
<1>7. CASE UNCHANGED <<nextPostId, published, work>>
  BY <1>7 DEF CountInv, Left, HasId, At, IsResting
<1> QED
  <2>1. ASSUME NEW p \in Posters, Shutdown(p)
        PROVE  UNCHANGED <<nextPostId, published, work>>
    BY <2>1 DEF Shutdown
  <2>2. ASSUME ConsumerStep \/ UNCHANGED vars
        PROVE  UNCHANGED <<nextPostId, published, work>>
    BY <2>2 DEF ConsumerStep, ProcessAck, IgnoreAnswer, ReportAnswer,
       LoseConnection, Reconnect, vars
  <2> QED
    BY <1>1, <1>3, <1>4, <1>5, <1>6, <1>7, <2>1, <2>2 DEF Next, ClientStep

(* A poster that does nothing keeps its post. *)
LEMMA PostUntouched ==
  ASSUME NEW q, work'[q] = work[q]
  PROVE  /\ HasId(q)' <=> HasId(q)
         /\ At(q, "built", {"data"})' <=> At(q, "built", {"data"})
         /\ Post(q)' = Post(q)
PROOF
  BY DEF HasId, At, IsResting, Post

(* What Append and RemoveAt leave on a list. *)
LEMMA AppendContains ==
  ASSUME NEW S, NEW s \in Seq(S), NEW e \in S
  PROVE  /\ Contains(Append(s, e), e)
         /\ \A x : Contains(s, x) => Contains(Append(s, e), x)
PROOF
<1>1. Len(s) \in Nat /\ Len(Append(s, e)) = Len(s) + 1
  OBVIOUS
<1>2. Append(s, e)[Len(s) + 1] = e
  OBVIOUS
<1>3. \A i \in 1 .. Len(s) : Append(s, e)[i] = s[i]
  OBVIOUS
<1>4. 1 .. Len(s) \subseteq 1 .. Len(s) + 1 /\ Len(s) + 1 \in 1 .. Len(s) + 1
  BY <1>1
<1> QED
  BY <1>1, <1>2, <1>3, <1>4 DEF Contains

LEMMA RemoveAtContains ==
  ASSUME NEW S, NEW s \in Seq(S), NEW i \in 1 .. Len(s),
         NEW j \in 1 .. Len(s), j # i
  PROVE  Contains(RemoveAt(s, i), s[j])
PROOF
<1>1. Len(s) \in Nat
  OBVIOUS
<1>2. CASE j < i
  <2>1. j \in 1 .. Len(s) - 1
    BY <1>1, <1>2
  <2> QED
    BY <1>2, <2>1, RemoveAtInSeq DEF Contains
<1>3. CASE j > i
  <2>1. j - 1 \in 1 .. Len(s) - 1 /\ ~(j - 1 < i) /\ (j - 1) + 1 = j
    BY <1>1, <1>3
  <2>2. RemoveAt(s, i)[j - 1] = s[j]
    BY <2>1, RemoveAtInSeq
  <2> QED
    BY <2>1, <2>2, RemoveAtInSeq DEF Contains
<1> QED
  BY <1>2, <1>3

(* The ids still differ once a record is gone. *)
LEMMA IdsStillDiffer ==
  ASSUME TypeOK, IdsDiffer, NEW i \in 1 .. Len(postList),
         postList' = RemoveAt(postList, i), nextPostId' = nextPostId
  PROVE  IdsDiffer'
PROOF
<1> DEFINE from(k) == IF k < i THEN k ELSE k + 1
<1>1. postList \in Seq(PostRecords) /\ Len(postList) \in Nat
  BY DEF TypeOK
<1>2. /\ Len(postList') = Len(postList) - 1
      /\ \A k \in 1 .. Len(postList) - 1 : postList'[k] = postList[from(k)]
  BY <1>1, RemoveAtInSeq
<1>3. \A k \in 1 .. Len(postList) - 1 : from(k) \in 1 .. Len(postList)
  BY <1>1
<1>4. \A k, l \in 1 .. Len(postList) - 1 : from(k) = from(l) => k = l
  BY <1>1
<1> HIDE DEF from
<1> QED
  BY <1>2, <1>3, <1>4 DEF IdsDiffer

(* Two records with one id are one. *)
LEMMA OneRecord ==
  ASSUME IdsDiffer, NEW r, NEW s, Contains(postList, r),
         Contains(postList, s), r.id = s.id
  PROVE  r = s
PROOF
  BY DEF Contains, IdsDiffer

(* Poster p goes on without an id. *)
LEMMA RecordAtRest ==
  ASSUME TypeOK, RecordInv, NEW p \in Posters,
         \A q \in Posters : q # p => work'[q] = work[q], ~HasId(p)',
         UNCHANGED <<nextPostId, postList, upstream, inFlight, isShut,
                     answering>>
  PROVE  RecordInv'
PROOF
<1>1. ASSUME NEW q \in Posters PROVE IsListed(q)' /\ IsNoted(q)'
  <2>1. CASE q = p
    BY <2>1 DEF IsListed, IsNoted, HasId, At
  <2>2. CASE q # p
    <3>1. work'[q] = work[q] /\ IsListed(q) /\ IsNoted(q)
      BY <2>2 DEF RecordInv
    <3> QED
      BY <3>1, PostUntouched DEF IsListed, IsNoted
  <2> QED
    BY <2>1, <2>2
<1> QED
  BY <1>1 DEF RecordInv, IdsDiffer, IsKnown

(* Poster p, which has an id, has built its post and noted what must be.   *)
LEMMA RecordBuilt ==
  ASSUME TypeOK, RecordInv, NEW p \in Posters, HasId(p), GoTo(p, "built"),
         UNCHANGED <<nextPostId, postList, upstream, isShut, answering>>,
         \/ RememberId(p)
         \/ At(p, "added", {"status"}) /\ UNCHANGED inFlight
  PROVE  RecordInv'
PROOF
<1>1. /\ work'[p].id = work[p].id /\ work'[p].todo = work[p].todo
      /\ \A q \in Posters : q # p => work'[q] = work[q]
  BY DEF GoTo, TypeOK, Works
<1>2. Post(p)' = Post(p)
  BY <1>1 DEF Post
<1>3. \A q \in Posters, id \in PostIds :
        Contains(inFlight[q], id) => Contains(inFlight'[q], id)
  <2>1. CASE UNCHANGED inFlight
    BY <2>1
  <2>2. CASE RememberId(p)
    <3>1. ASSUME NEW q \in Posters
          PROVE  \/ inFlight'[q] = inFlight[q]
                 \/ inFlight'[q] = Append(inFlight[q], work[p].id)
      BY <2>2 DEF RememberId, TypeOK
    <3>2. \A q \in Posters : inFlight[q] \in Seq(PostIds)
      BY DEF TypeOK
    <3>3. work[p].id \in PostIds
      BY DEF TypeOK, Works
    <3>4. ASSUME NEW q \in Posters, NEW id, Contains(inFlight[q], id)
          PROVE  Contains(Append(inFlight[q], work[p].id), id)
      BY <3>2, <3>3, <3>4, AppendContains
    <3> QED
      BY <3>1, <3>4
  <2> QED
    BY <2>1, <2>2
<1>4. ASSUME NEW q \in Posters PROVE IsListed(q)' /\ IsNoted(q)'
  <2>0. IsListed(q) /\ IsNoted(q)
    BY DEF RecordInv
  <2>1. CASE q = p
    <3>1. IsListed(p)'
      BY <1>2, <2>0, <2>1 DEF IsListed
    <3>2. CASE RememberId(p)
      <4>1. Contains(inFlight'[p], work[p].id)
        BY <3>2, AppendContains DEF RememberId, TypeOK, Works
      <4> QED
        BY <1>1, <2>1, <3>1, <4>1 DEF IsNoted
    <3>3. CASE At(p, "added", {"status"})
      <4>1. Head(work'[p].todo) = "status"
        BY <1>1, <3>3 DEF At
      <4> QED
        BY <2>1, <3>1, <4>1 DEF IsNoted, At
    <3> QED
      BY <3>2, <3>3
  <2>2. CASE q # p
    <3>1. work'[q] = work[q] /\ work[q].id \in PostIds
      BY <1>1, <2>2 DEF TypeOK, Works
    <3> QED
      BY <1>3, <2>0, <3>1, PostUntouched DEF IsListed, IsNoted
  <2> QED
    BY <2>1, <2>2
<1>5. ASSUME NEW m \in upstream' PROVE Contains(postList', m) /\ IsKnown(m)'
  <2>1. m \in PostRecords /\ Contains(postList, m) /\ IsKnown(m)
    BY <1>5 DEF RecordInv, TypeOK
  <2>2. m.poster \in Posters /\ m.id \in PostIds
    BY <2>1 DEF PostRecords
  <2> QED
    BY <1>3, <2>1, <2>2 DEF IsKnown
<1> QED
  BY <1>4, <1>5 DEF RecordInv, IdsDiffer

(* A post is sent that was listed and noted. *)
LEMMA RecordSent ==
  ASSUME TypeOK, RecordInv, NEW p \in Posters,
         At(p, "built", {"data", "status"}), NextPost(p),
         upstream' \in {upstream, upstream \cup {Post(p)}},
         UNCHANGED <<nextPostId, postList, inFlight, isShut, answering>>
  PROVE  RecordInv'
PROOF
<1>1. HasId(p) /\ IsListed(p) /\ IsNoted(p)
  BY DEF HasId, RecordInv
<1>2. /\ ~HasId(p)'
      /\ \A q \in Posters : q # p => work'[q] = work[q]
  BY DEF NextPost, HasId, At, IsResting, Resting, TypeOK
<1>3. Contains(postList, Post(p)) /\ IsKnown(Post(p))
  <2>1. ASSUME Post(p).kind = "data"
        PROVE  Contains(inFlight[p], work[p].id)
    <3>1. At(p, "built", {"data"})
      BY <2>1 DEF At, Post
    <3> QED
      BY <1>1, <3>1 DEF IsNoted
  <2>2. Post(p).poster = p /\ Post(p).id = work[p].id
    BY DEF Post
  <2> QED
    BY <1>1, <2>1, <2>2 DEF IsListed, IsKnown
<1>4. ASSUME NEW m \in upstream' PROVE Contains(postList', m) /\ IsKnown(m)'
  <2>1. Contains(postList, m) /\ IsKnown(m)
    BY <1>3, <1>4 DEF RecordInv
  <2> QED
    BY <2>1 DEF IsKnown
<1>5. ASSUME NEW q \in Posters PROVE IsListed(q)' /\ IsNoted(q)'
  <2>1. CASE q = p
    BY <1>2, <2>1 DEF IsListed, IsNoted, HasId, At
  <2>2. CASE q # p
    <3>1. work'[q] = work[q] /\ IsListed(q) /\ IsNoted(q)
      BY <1>2, <2>2 DEF RecordInv
    <3>2. Post(q) # Post(p)
      BY <2>2 DEF Post
    <3> QED
      BY <3>1, <3>2, PostUntouched DEF IsListed, IsNoted
  <2> QED
    BY <2>1, <2>2
<1> QED
  BY <1>4, <1>5 DEF RecordInv, IdsDiffer

(* A post is given the next id, which no record has, and listed. *)
LEMMA RecordAdded ==
  ASSUME TypeOK, CountInv, RecordInv, NEW p \in Posters, AddPost(p)
  PROVE  RecordInv'
PROOF
<1>1. /\ At(p, "numbered", {"data", "status"}) /\ work[p].id = nextPostId
      /\ nextPostId' = nextPostId + 1 /\ postList' = Append(postList, Post(p))
      /\ UNCHANGED <<upstream, inFlight, isShut, answering>>
  BY DEF AddPost, CountInv, MoveOn, rmdsVars
<1>2. /\ Post(p) \in PostRecords /\ Post(p).id = nextPostId
      /\ nextPostId \in Nat /\ postList \in Seq(PostRecords)
      /\ \A i \in 1 .. Len(postList) : postList[i].id \in Nat
  <2>1. Post(p) \in PostRecords
    BY <1>1, PostTyped
  <2>2. Post(p).id = nextPostId
    BY <1>1 DEF Post
  <2>3. nextPostId \in Nat /\ postList \in Seq(PostRecords)
    BY PosterAssumption DEF TypeOK
  <2>4. ASSUME NEW i \in 1 .. Len(postList) PROVE postList[i].id \in Nat
    <3>1. postList[i] \in PostRecords
      BY <2>3
    <3> QED
      BY <3>1, PosterAssumption DEF PostRecords, PostIds
  <2> QED
    BY <2>1, <2>2, <2>3, <2>4
<1>3. /\ work'[p].id = work[p].id /\ work'[p].todo = work[p].todo
      /\ work'[p].stage = "added"
      /\ \A q \in Posters : q # p => work'[q] = work[q]
  BY DEF AddPost, GoTo, TypeOK, Works
<1>4. Post(p)' = Post(p)
  BY <1>3 DEF Post
<1>5. /\ Contains(postList', Post(p))
      /\ \A m : Contains(postList, m) => Contains(postList', m)
  BY <1>1, <1>2, AppendContains
<1>6. IdsDiffer'
  <2>1. /\ Len(postList) \in Nat /\ Len(postList') = Len(postList) + 1
        /\ postList'[Len(postList) + 1] = Post(p)
        /\ \A i \in 1 .. Len(postList) : postList'[i] = postList[i]
    BY <1>1, <1>2
  <2>2. \A i \in 1 .. Len(postList) + 1 :
          i \in 1 .. Len(postList) \/ i = Len(postList) + 1
    BY <2>1
  <2>3. \A i \in 1 .. Len(postList) : postList[i].id < nextPostId
    BY DEF RecordInv, IdsDiffer
  <2>4. \A i \in 1 .. Len(postList') : postList'[i].id < nextPostId'
    BY <1>1, <1>2, <2>1, <2>2, <2>3
  <2>5. \A i \in 1 .. Len(postList) : postList'[i].id # Post(p).id
    BY <1>2, <2>1, <2>3
  <2>6. \A i, j \in 1 .. Len(postList) :
          postList'[i].id = postList'[j].id => i = j
    BY <2>1 DEF RecordInv, IdsDiffer
  <2>7. \A i, j \in 1 .. Len(postList') :
          postList'[i].id = postList'[j].id => i = j
    BY <2>1, <2>2, <2>5, <2>6
  <2> QED
    BY <2>4, <2>7 DEF IdsDiffer
<1>7. Post(p) \notin upstream
  <2>1. ASSUME Contains(postList, Post(p)) PROVE FALSE
    <3>1. PICK i \in 1 .. Len(postList) : postList[i] = Post(p)
      BY <2>1 DEF Contains
    <3>2. postList[i].id < nextPostId
      BY DEF RecordInv, IdsDiffer
    <3> QED
      BY <1>2, <3>1, <3>2
  <2> QED
    BY <2>1 DEF RecordInv
<1>8. ASSUME NEW m \in upstream' PROVE Contains(postList', m) /\ IsKnown(m)'
  BY <1>1, <1>5, <1>8 DEF RecordInv, IsKnown
<1>9. ASSUME NEW q \in Posters PROVE IsListed(q)' /\ IsNoted(q)'
  <2>1. CASE q = p
    BY <1>1, <1>3, <1>4, <1>5, <1>7, <2>1 DEF IsListed, IsNoted, At
  <2>2. CASE q # p
    <3>1. work'[q] = work[q] /\ IsListed(q) /\ IsNoted(q)
      BY <1>3, <2>2 DEF RecordInv
    <3> QED
      BY <1>1, <1>5, <3>1, PostUntouched DEF IsListed, IsNoted
  <2> QED
    BY <2>1, <2>2
<1> QED
  BY <1>1, <1>6, <1>8, <1>9 DEF RecordInv

(* An answer takes its own record off the list, and its own id.            *)
LEMMA RecordAnswered ==
  ASSUME TypeOK, RecordInv, NEW m \in upstream, ProcessAck(m)
  PROVE  RecordInv'
PROOF
<1>0. /\ postList \in Seq(PostRecords) /\ m \in PostRecords
      /\ inFlight \in [Posters -> Seq(PostIds)]
  BY DEF TypeOK
<1>1. PICK i \in 1 .. Len(postList) : i = Matching(m.id) /\ i # 0
                                      /\ postList[i] = m
  <2>1. PICK j \in 1 .. Len(postList) : postList[j] = m
    BY DEF RecordInv, Contains
  <2>2. /\ Matching(m.id) # 0 /\ Matching(m.id) \in 1 .. Len(postList)
        /\ postList[Matching(m.id)].id = m.id
    BY <1>0, <2>1, MatchingIsFirst
  <2>3. Matching(m.id) = j
    BY <2>1, <2>2 DEF RecordInv, IdsDiffer
  <2> QED
    BY <2>1, <2>2, <2>3
<1>2. /\ postList' = RemoveAt(postList, i) /\ upstream' = upstream \ {m}
      /\ UNCHANGED <<nextPostId, isShut, work>>
  BY <1>1 DEF ProcessAck
<1>3. /\ inFlight' \in {inFlight,
                [inFlight EXCEPT ![m.poster] = RemoveFirst(@, m.id)]}
      /\ answering' = answering \/ answering' = [record |-> m, about |-> m]
  BY <1>1 DEF ProcessAck
<1>4. IdsDiffer'
  BY <1>2, IdsStillDiffer DEF RecordInv
<1>5. ASSUME NEW r, Contains(postList, r), r # m
      PROVE  Contains(postList', r) /\ r.id # m.id
  <2>1. PICK j \in 1 .. Len(postList) : postList[j] = r
    BY <1>5 DEF Contains
  <2>2. Contains(postList', r)
    BY <1>0, <1>1, <1>2, <1>5, <2>1, RemoveAtContains
  <2>3. r.id # m.id
    BY <1>5, OneRecord DEF RecordInv
  <2> QED
    BY <2>2, <2>3
<1>6. ASSUME NEW q \in Posters, NEW id, Contains(inFlight[q], id), id # m.id
      PROVE  Contains(inFlight'[q], id)
  <2>1. inFlight[q] \in Seq(PostIds)
    BY <1>0
  <2>2. \/ inFlight'[q] = inFlight[q]
        \/ inFlight'[q] = RemoveFirst(inFlight[q], m.id)
    BY <1>0, <1>3
  <2>3. Contains(RemoveFirst(inFlight[q], m.id), id)
    BY <1>6, <2>1, RemoveFirstInSeq
  <2> QED
    BY <1>6, <2>2, <2>3
<1>7. ASSUME NEW r \in upstream' PROVE Contains(postList', r) /\ IsKnown(r)'
  <2>1. r # m /\ Contains(postList, r) /\ IsKnown(r) /\ r \in PostRecords
    BY <1>2, <1>7 DEF RecordInv, TypeOK
  <2>2. r.poster \in Posters
    BY <2>1 DEF PostRecords
  <2>3. Contains(postList', r) /\ r.id # m.id
    BY <1>5, <2>1
  <2> QED
    BY <1>2, <1>6, <2>1, <2>2, <2>3 DEF IsKnown
<1>8. ASSUME NEW q \in Posters PROVE IsListed(q)' /\ IsNoted(q)'
  <2>0. IsListed(q) /\ IsNoted(q)
    BY DEF RecordInv
  <2>1. CASE ~HasId(q)
    BY <1>2, <2>1 DEF IsListed, IsNoted, HasId, At, IsResting
  <2>2. CASE HasId(q)
    <3>1. Contains(postList, Post(q)) /\ Post(q) # m /\ Post(q) \notin upstream
      BY <2>0, <2>2 DEF IsListed
    <3>2. Contains(postList', Post(q)) /\ Post(q).id # m.id
      BY <1>5, <3>1
    <3>3. Post(q).id = work[q].id
      BY DEF Post
    <3>4. work'[q] = work[q]
      BY <1>2
    <3>5. IsListed(q)'
      BY <1>2, <3>1, <3>2, <3>4, PostUntouched DEF IsListed
    <3>6. IsNoted(q)'
      BY <1>6, <2>0, <3>2, <3>3, <3>4, PostUntouched DEF IsNoted
    <3> QED
      BY <3>5, <3>6
  <2> QED
    BY <2>1, <2>2
<1>9. answering' # None => answering'.record = answering'.about
  BY <1>3 DEF RecordInv
<1> QED
  BY <1>4, <1>7, <1>8, <1>9 DEF RecordInv

LEMMA RecordKept ==
  ASSUME TypeOK, CountInv, RecordInv, [Next]_vars
  PROVE  RecordInv'
PROOF
<1> USE DEF posterVars, sessionVars, rmdsVars
<1>1. ASSUME NEW p \in Posters,
             \/ \E st \in Statuses : PublishMessage(p, st)
             \/ NoBuffer(p) \/ GetNextPostId(p)
      PROVE  RecordInv'
  <2>1. /\ UNCHANGED <<nextPostId, postList, upstream, inFlight, isShut,
                       answering>>
        /\ \A q \in Posters : q # p => work'[q] = work[q]
    BY <1>1 DEF PublishMessage, NoBuffer, GetNextPostId, GiveUp, TypeOK
  <2>2. work'[p].stage \in {"start", "rest", "numbered"}
    BY <1>1 DEF PublishMessage, NoBuffer, GetNextPostId, GiveUp, Resting,
       TypeOK, Works
  <2>3. ~HasId(p)'
    BY <2>2 DEF HasId, At
  <2> QED
    BY <2>1, <2>3, RecordAtRest
<1>2. ASSUME NEW p \in Posters, BuildPostMessage(p) PROVE RecordInv'
  <2>1. /\ At(p, "added", {"data"}) /\ HasId(p)
        /\ UNCHANGED <<nextPostId, postList, upstream, isShut, answering>>
    BY <1>2 DEF BuildPostMessage, At, HasId
  <2>2. CASE RememberId(p) /\ GoTo(p, "built")
    BY <2>1, <2>2, RecordBuilt
  <2>3. CASE GiveUp(p) /\ UNCHANGED inFlight
    <3>1. work'[p] = Resting /\ \A q \in Posters : q # p => work'[q] = work[q]
      BY <2>3 DEF GiveUp, TypeOK
    <3>2. ~HasId(p)'
      BY <3>1 DEF HasId, At, IsResting, Resting
    <3> QED
      BY <2>1, <2>3, <3>1, <3>2, RecordAtRest
  <2> QED
    BY <1>2, <2>2, <2>3 DEF BuildPostMessage
<1>3. ASSUME NEW p \in Posters, PostStatusMessage(p) PROVE RecordInv'
  <2>1. /\ At(p, "added", {"status"}) /\ HasId(p)
        /\ UNCHANGED <<nextPostId, postList, upstream, inFlight, isShut,
                       answering>>
        /\ GoTo(p, "built") \/ NextPost(p) \/ GiveUp(p)
    BY <1>3 DEF PostStatusMessage, At, HasId
  <2>2. CASE GoTo(p, "built")
    BY <2>1, <2>2, RecordBuilt
  <2>3. CASE NextPost(p) \/ GiveUp(p)
    <3>1. /\ ~HasId(p)'
          /\ \A q \in Posters : q # p => work'[q] = work[q]
      BY <2>3 DEF NextPost, GiveUp, HasId, At, IsResting, Resting, TypeOK
    <3> QED
      BY <2>1, <3>1, RecordAtRest
  <2> QED
    BY <2>1, <2>2, <2>3
<1>4. ASSUME NEW p \in Posters, SendUPAMessage(p) PROVE RecordInv'
  <2>1. /\ At(p, "built", {"data", "status"}) /\ NextPost(p)
        /\ upstream' \in {upstream, upstream \cup {Post(p)}}
        /\ UNCHANGED <<nextPostId, postList, inFlight, isShut, answering>>
    BY <1>4 DEF SendUPAMessage
  <2> QED
    BY <2>1, RecordSent
<1>5. ASSUME NEW p \in Posters, Shutdown(p) PROVE RecordInv'
  <2>1. /\ UNCHANGED <<nextPostId, postList, upstream, work, answering>>
        /\ ~HasId(p) /\ isShut'[p]
        /\ \A q \in Posters : q # p => isShut'[q] = isShut[q]
                                       /\ inFlight'[q] = inFlight[q]
    BY <1>5 DEF Shutdown, ClearIds, HasId, At, TypeOK
  <2>2. ASSUME NEW m \in upstream PROVE IsKnown(m)'
    <3>1. IsKnown(m) /\ m.poster \in Posters
      BY DEF RecordInv, TypeOK, PostRecords
    <3> QED
      BY <2>1, <3>1 DEF IsKnown
  <2>3. ASSUME NEW q \in Posters PROVE IsListed(q)' /\ IsNoted(q)'
    <3>1. IsListed(q) /\ IsNoted(q)
      BY DEF RecordInv
    <3>2. CASE q = p
      BY <2>1, <3>2 DEF IsListed, IsNoted, HasId, At, IsResting
    <3>3. CASE q # p
      BY <2>1, <3>1, <3>3, PostUntouched DEF IsListed, IsNoted
    <3> QED
      BY <3>2, <3>3
  <2> QED
    BY <2>1, <2>2, <2>3 DEF RecordInv, IdsDiffer
<1>6. ASSUME UNCHANGED <<nextPostId, postList, inFlight, isShut, work>>,
             upstream' \subseteq upstream, answering' \in {answering, None}
      PROVE  RecordInv'
  <2>1. ASSUME NEW q \in Posters PROVE IsListed(q)' /\ IsNoted(q)'
    BY <1>6, PostUntouched DEF RecordInv, IsListed, IsNoted
  <2>2. \A m \in upstream' : Contains(postList', m) /\ IsKnown(m)'
    BY <1>6 DEF RecordInv, IsKnown
  <2> QED
    BY <1>6, <2>1, <2>2 DEF RecordInv, IdsDiffer
<1> QED
  <2>1. ASSUME \/ \E m \in upstream : IgnoreAnswer(m)
               \/ ReportAnswer \/ LoseConnection \/ Reconnect
               \/ UNCHANGED vars
        PROVE  RecordInv'
    <3>1. /\ UNCHANGED <<nextPostId, postList, inFlight, isShut, work>>
          /\ upstream' \subseteq upstream /\ answering' \in {answering, None}
      BY <2>1 DEF IgnoreAnswer, ReportAnswer, LoseConnection, Reconnect, vars
    <3> QED
      BY <1>6, <3>1
  <2> QED
    BY <1>1, <1>2, <1>3, <1>4, <1>5, <2>1, RecordAdded, RecordAnswered
       DEF Next, ClientStep, ConsumerStep

(* Both properties of the records, when one thread posts and no id starts  *)
(* again.                                                                  *)
LEMMA RecordsRoute ==
  ASSUME SharedThread, 2 * MaxPublishes <= MaxPostId
  PROVE  Spec => [](AckReachesPost /\ UnansweredIsKnown)
PROOF
<1>1. Init => CountInv
  BY PosterAssumption
     DEF Init, CountInv, Left, HasId, At, IsResting, Resting
<1>2. Init => RecordInv
  BY DEF Init, RecordInv, IdsDiffer, IsListed, IsNoted, HasId, At,
     IsResting, Resting
<1>3. TypeOK /\ CountInv /\ [Next]_vars => CountInv'
  BY CountKept
<1>4. TypeOK /\ CountInv /\ RecordInv /\ [Next]_vars => RecordInv'
  BY RecordKept
<1>5. TypeOK /\ RecordInv => AckReachesPost /\ UnansweredIsKnown
  <2> SUFFICES ASSUME TypeOK, RecordInv
               PROVE  AckReachesPost /\ UnansweredIsKnown
    OBVIOUS
  <2>1. AckReachesPost
    BY DEF RecordInv, AckReachesPost
  <2>2. ASSUME NEW m \in upstream
        PROVE  Matching(m.id) # 0 /\ postList[Matching(m.id)] = m
    <3>1. PICK j \in 1 .. Len(postList) : postList[j] = m
      BY DEF RecordInv, Contains
    <3>2. /\ Matching(m.id) # 0 /\ Matching(m.id) \in 1 .. Len(postList)
          /\ postList[Matching(m.id)].id = m.id
      BY <3>1, MatchingIsFirst DEF TypeOK
    <3>3. Matching(m.id) = j
      BY <3>1, <3>2 DEF RecordInv, IdsDiffer
    <3> QED
      BY <3>1, <3>2, <3>3
  <2> QED
    BY <2>1, <2>2 DEF RecordInv, UnansweredIsKnown, IsKnown
<1> QED
  BY <1>1, <1>2, <1>3, <1>4, <1>5, Typing, PTL DEF Spec

(* When one thread posts and no id starts again, the client is told of a   *)
(* post what the RMDS answered to that post (UPAPostManager.cpp AddPost,   *)
(* RemovePost, ProcessAck).                                                *)
THEOREM Routing ==
  ASSUME SharedThread, 2 * MaxPublishes <= MaxPostId
  PROVE  Spec => []AckReachesPost
PROOF
  BY RecordsRoute, PTL

(* Then also every post that awaits its answer has its record and its id   *)
(* listed, whatever other posts were given up, lost or ignored.            *)
THEOREM AnswersKnown ==
  ASSUME SharedThread, 2 * MaxPublishes <= MaxPostId
  PROVE  Spec => []UnansweredIsKnown
PROOF
  BY RecordsRoute, PTL
=============================================================================
