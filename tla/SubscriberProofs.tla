-------------------------- MODULE SubscriberProofs --------------------------
(* The subscribing half keeps its types, its throttle and its stream ids;  *)
(* items and stream ids belong together, and the table of ids is used as   *)
(* StreamManager allows; responses find the items they were sent for, and  *)
(* a subscription that was destroyed stays silent: for any number of       *)
(* listeners, symbols, items, ids and lost connections.                    *)
EXTENDS Subscriber, FiniteSetTheorems, TLAPS

-----------------------------------------------------------------------------
(* Types.                                                                  *)

Market == {"refresh", "update", "status"}

\* Where the code is in the middle of something it has an object to do it
\* with, and messages about items name a stream.
Definite ==
  /\ adding.step # "none" => /\ adding.listener \in Listeners
                             /\ adding.sub \in Subs
  /\ handling # NoMsg => handling.sub \in Subs /\ handling.msg \in Responses
  /\ calling # NoCall => calling.listener \in Listeners
  /\ \A i \in 1 .. Len(wire) :
       wire[i].class \in Market => wire[i].streamId \in StreamIds

TypeInv == TypeOK /\ Definite

(* What leaves the variables of a part alone keeps its types. *)
LEMMA ClientFrame ==
  ASSUME ClientTypes,
         UNCHANGED <<clientVars, gotImage, failed, pendingSubscriptions>>
  PROVE  ClientTypes'
  BY DEF ClientTypes, clientVars

LEMMA ItemFrame ==
  ASSUME ItemTypes, UNCHANGED <<subscriptions, upa, idVars, countVars>>
  PROVE  ItemTypes'
  BY DEF ItemTypes, idVars, countVars, SM!TypeOK

LEMMA ThreadFrame ==
  ASSUME ThreadTypes,
         UNCHANGED <<requestQueue, sessionVars, adding, handling, notices,
                     current, snap, calling>>
  PROVE  ThreadTypes'
  BY DEF ThreadTypes, sessionVars

LEMMA RmdsFrame ==
  ASSUME RmdsTypes, UNCHANGED rmdsVars
  PROVE  RmdsTypes'
  BY DEF RmdsTypes, rmdsVars

LEMMA DefiniteFrame ==
  ASSUME Definite, UNCHANGED <<adding, handling, calling, wire>>
  PROVE  Definite'
  BY DEF Definite

(* Setting a field of an item. *)
LEMMA SetField ==
  ASSUME NEW r \in Items
  PROVE  /\ \A x \in Symbols : [r EXCEPT !.symbol = x] \in Items
         /\ \A x \in SubState : [r EXCEPT !.state = x] \in Items
         /\ \A x \in StreamIds : [r EXCEPT !.streamId = x] \in Items
         /\ \A x \in SUBSET Listeners : [r EXCEPT !.listeners = x] \in Items
         /\ [r EXCEPT !.gotInitial = TRUE] \in Items
         /\ \A x \in SubState :
              [r EXCEPT !.state = x, !.consumer = TRUE] \in Items
         /\ \A x \in Listeners :
              [r EXCEPT !.isRefresh = TRUE, !.requester = x] \in Items
  BY DEF Items

LEMMA SetItem ==
  ASSUME NEW S, NEW T, NEW f \in [S -> T], NEW s, NEW x, s \in S => x \in T
  PROVE  [f EXCEPT ![s] = x] \in [S -> T]
  OBVIOUS

(* The items that are opened again keep their streams and listeners. *)
LEMMA OpenedKeeps ==
  ASSUME upa \in [Subs -> Items], SourceDirectoryRefreshComplete
  PROVE  \A s \in Subs : /\ upa'[s].symbol = upa[s].symbol
                         /\ upa'[s].streamId = upa[s].streamId
                         /\ upa'[s].listeners = upa[s].listeners
<1>1. ASSUME NEW s \in Subs
      PROVE  upa[s] \in Items /\ upa'[s] = IF s \in Mapped THEN Opened(s) ELSE upa[s]
  BY <1>1 DEF SourceDirectoryRefreshComplete
<1>2. ASSUME NEW s \in Subs
      PROVE  /\ Opened(s).symbol = upa[s].symbol
             /\ Opened(s).streamId = upa[s].streamId
             /\ Opened(s).listeners = upa[s].listeners
  BY <1>1 DEF Opened, Items
<1> QED
  BY <1>1, <1>2

LEMMA QueueGrows ==
  ASSUME requestQueue \in Seq(Requests), NEW r \in Requests,
         Enqueue(<<r>>)
  PROVE  requestQueue' \in Seq(Requests)
  BY DEF Enqueue

LEMMA Counts ==
  ASSUME NEW c \in 0 .. CounterWidth - 1
  PROVE  Inc(c) \in 0 .. CounterWidth - 1 /\ Dec(c) \in 0 .. CounterWidth - 1
  BY SubscriberAssumption DEF Inc, Dec

LEMMA CloseTypes ==
  ASSUME ItemTypes, ThreadTypes, NEW s \in Subs, Close(s)
  PROVE  /\ upa' \in [Subs -> Items]
         /\ pendingCloses' \in 0 .. CounterWidth - 1
         /\ requestQueue' \in Seq(Requests)
<1>1. [upa[s] EXCEPT !.state = "Inactive"] \in Items
  BY SetField DEF ItemTypes, SubState
<1>2. upa' \in [Subs -> Items]
  BY <1>1, SetItem DEF Close, ItemTypes
<1>3. Request("close", s) \in Requests
  BY DEF Request, Requests
<1>4. CASE upa[s].consumer
  BY <1>2, <1>3, <1>4, QueueGrows, Counts DEF Close, ItemTypes, ThreadTypes
<1>5. CASE ~upa[s].consumer
  BY <1>2, <1>5 DEF Close, ItemTypes, ThreadTypes
<1> QED
  BY <1>4, <1>5

LEMMA Ids ==
  /\ \A i \in SM!Indices : SM!Index2StreamId(i) \in StreamIds
  /\ \A id \in StreamIds : SM!StreamId2Index(id) \in SM!Indices
  BY SubscriberAssumption
  DEF StreamIds, SM!Indices, SM!Index2StreamId, SM!StreamId2Index

LEMMA AddItemTypes ==
  ASSUME SM!TypeOK, NEW s \in Subs, SM!AddItem(s)
  PROVE  SM!TypeOK' /\ SM!NextFreeIndex \in SM!Indices
<1>1. CASE SM!FreshIndexLeft
  BY <1>1, SubscriberAssumption
  DEF SM!TypeOK, SM!AddItem, SM!FreshIndexLeft, SM!NextFreeIndex, SM!Indices
<1>2. CASE ~SM!FreshIndexLeft
  <2>1. freeStreamIds \in Seq(SM!Indices) /\ freeStreamIds # <<>>
    BY <1>2 DEF SM!TypeOK, SM!AddItem, SM!HasFreeSlot
  <2>2. /\ Head(freeStreamIds) \in SM!Indices
        /\ Tail(freeStreamIds) \in Seq(SM!Indices)
    BY <2>1
  <2> QED
    BY <1>2, <2>2 DEF SM!TypeOK, SM!AddItem, SM!NextFreeIndex
<1> QED
  BY <1>1, <1>2

Streams == [sub : Subs \cup {None}, owed : Nat]

LEMMA AskedTypes ==
  ASSUME RmdsTypes, NEW id \in StreamIds, NEW s \in Subs
  PROVE  Asked(id, s) \in [StreamIds -> Streams]
<1>1. upstream[id] \in Streams
  BY DEF RmdsTypes, Streams
<1>2. [sub |-> s, owed |-> IF upstream[id].sub = s
                           THEN upstream[id].owed + 1 ELSE 1] \in Streams
  BY <1>1 DEF Streams
<1> QED
  BY <1>2 DEF Asked, RmdsTypes, Streams

LEMMA NoticeTyped ==
  \A s \in Subs : \A type \in NoticeTypes : Notice(s, type) \in Notices
  BY DEF Notice, Notices

LEMMA SendTypes ==
  ASSUME ItemTypes, ThreadTypes, RmdsTypes, NEW s \in Subs,
         SendOpenRequest(s)
  PROVE  /\ upa' \in [Subs -> Items]
         /\ SM!TypeOK'
         /\ pendingItems' \subseteq Subs
         /\ notices' \in Seq(Notices)
         /\ upstream' \in [StreamIds -> Streams]
<1>1. <<Notice(s, "error")>> \in Seq(Notices)
  BY NoticeTyped DEF NoticeTypes
<1>2. CASE upa[s].streamId = 0 /\ ~SM!HasFreeSlot
  <2>1. /\ notices' = <<Notice(s, "error")>>
        /\ UNCHANGED <<upa, idVars, pendingItems, upstream>>
    BY <1>2 DEF SendOpenRequest
  <2> QED
    BY <1>1, <2>1 DEF ItemTypes, RmdsTypes, idVars, SM!TypeOK, Streams
<1>3. CASE upa[s].streamId # 0 \/ SM!HasFreeSlot
  <2>1. SM!TypeOK' /\ RequestStream(s) \in StreamIds
    <3>1. CASE upa[s].streamId = 0
      <4>1. SM!AddItem(s)
        BY <1>3, <3>1 DEF SendOpenRequest
      <4> QED
        BY <3>1, <4>1, AddItemTypes, Ids DEF ItemTypes, RequestStream
    <3>2. CASE upa[s].streamId # 0
      <4>1. UNCHANGED idVars
        BY <1>3, <3>2 DEF SendOpenRequest
      <4>2. upa[s].streamId \in StreamIds \cup {0}
        BY DEF ItemTypes, Items
      <4> QED
        BY <3>2, <4>1, <4>2 DEF ItemTypes, RequestStream, idVars, SM!TypeOK
    <3> QED
      BY <3>1, <3>2
  <2>2. upa' = [upa EXCEPT ![s].streamId = RequestStream(s)]
    BY <1>3 DEF SendOpenRequest
  <2>3. upa' \in [Subs -> Items]
    <3>1. [upa[s] EXCEPT !.streamId = RequestStream(s)] \in Items
      BY <2>1, SetField DEF ItemTypes
    <3>2. upa' = [upa EXCEPT ![s] = [upa[s] EXCEPT !.streamId = RequestStream(s)]]
      BY <2>2
    <3> QED
      BY <3>1, <3>2, SetItem DEF ItemTypes
  <2>4. /\ pendingItems' \in {pendingItems, pendingItems \cup {s},
                              pendingItems \ {s}}
        /\ notices' \in {notices, <<Notice(s, "error")>>}
        /\ upstream' \in {upstream, Asked(RequestStream(s), s)}
    BY <1>3 DEF SendOpenRequest
  <2>5. pendingItems' \subseteq Subs
    BY <2>4 DEF ItemTypes
  <2>6. notices' \in Seq(Notices)
    BY <1>1, <2>4 DEF ThreadTypes
  <2>7. upstream' \in [StreamIds -> Streams]
    BY <2>1, <2>4, AskedTypes DEF RmdsTypes, Streams
  <2> QED
    BY <2>1, <2>3, <2>5, <2>6, <2>7
<1> QED
  BY <1>2, <1>3

\* r is the next request, and it asks for op.
Queued(op, r) ==
  /\ requestQueue # <<>> /\ r \in Requests /\ r.op = op
  /\ Tail(requestQueue) \in Seq(Requests)
  /\ requestQueue' = Tail(requestQueue)
  /\ op \in {"open", "refresh", "close"} => r.who \in Subs
  /\ op = "destroy" => r.who \in Listeners

LEMMA HeadTyped ==
  ASSUME ThreadTypes, NEW op, CanDispatch(op), Dequeue
  PROVE  Queued(op, Head(requestQueue))
<1>1. requestQueue \in Seq(Requests) /\ requestQueue # <<>>
  BY DEF ThreadTypes, CanDispatch
<1>2. /\ Head(requestQueue) \in Requests
      /\ Tail(requestQueue) \in Seq(Requests)
  BY <1>1
<1> QED
  BY <1>1, <1>2 DEF CanDispatch, Dequeue, Queued, Requests

\* r is the next message; next are the others.
LEMMA WireTyped ==
  ASSUME RmdsTypes, Definite, wire # <<>>
  PROVE  /\ Head(wire) \in Responses /\ Tail(wire) \in Seq(Responses)
         /\ Head(wire).class \in Market => Head(wire).streamId \in StreamIds
         /\ \A i \in 1 .. Len(Tail(wire)) :
              Tail(wire)[i].class \in Market =>
                 Tail(wire)[i].streamId \in StreamIds
<1>1. wire \in Seq(Responses)
  BY DEF RmdsTypes
<1>2. Head(wire) \in Responses /\ Tail(wire) \in Seq(Responses)
  BY <1>1
<1>3. Len(wire) \in Nat \ {0} /\ Head(wire) = wire[1]
  BY <1>1
<1>4. /\ Len(Tail(wire)) = Len(wire) - 1
      /\ \A i \in 1 .. Len(Tail(wire)) : Tail(wire)[i] = wire[i + 1]
  BY <1>1
<1>5. \A i \in 1 .. Len(Tail(wire)) : i + 1 \in 1 .. Len(wire)
  BY <1>3, <1>4
<1>6. \A i \in 1 .. Len(wire) :
        wire[i].class \in Market => wire[i].streamId \in StreamIds
  BY DEF Definite
<1> QED
  BY <1>2, <1>3, <1>4, <1>5, <1>6

LEMMA Handled ==
  ASSUME TypeInv, handling # NoMsg
  PROVE  /\ handling.sub \in Subs /\ upa[handling.sub] \in Items
         /\ handling.msg \in Responses
         /\ SeenStates \subseteq SubState
         /\ \A st, seen : /\ RsslState(handling.sub, st, seen) \in SubState
                          /\ StateNotices(handling.sub, st, seen)
                               \in Seq(Notices)
<1>1. handling.sub \in Subs /\ handling.msg \in Responses
  BY DEF TypeInv, Definite
<1>2. upa[handling.sub] \in Items
  BY <1>1 DEF TypeInv, TypeOK, ItemTypes
<1>3. upa[handling.sub].state \in SubState /\ handling.seen \in SubState
  BY <1>2 DEF Items, TypeInv, TypeOK, ThreadTypes
<1>4. Notice(handling.sub, "error") \in Notices
      /\ Notice(handling.sub, "status") \in Notices
  BY <1>1, NoticeTyped DEF NoticeTypes
<1>5. ASSUME NEW st, NEW seen
      PROVE  /\ RsslState(handling.sub, st, seen) \in SubState
             /\ StateNotices(handling.sub, st, seen) \in Seq(Notices)
  <2>1. RsslState(handling.sub, st, seen) \in SubState
    BY <1>3 DEF RsslState, SubState
  <2>2. StateNotices(handling.sub, st, seen)
          \in {<<Notice(handling.sub, "error")>>,
               <<Notice(handling.sub, "status")>>, <<>>}
    BY DEF StateNotices
  <2>3. /\ <<Notice(handling.sub, "error")>> \in Seq(Notices)
        /\ <<Notice(handling.sub, "status")>> \in Seq(Notices)
        /\ <<>> \in Seq(Notices)
    BY <1>4
  <2> QED
    BY <2>1, <2>2, <2>3
<1> QED
  BY <1>1, <1>2, <1>3, <1>5 DEF SeenStates

LEMMA OrderIsSeq ==
  ASSUME NEW S \in SUBSET Subs, NEW order \in Orders(S)
  PROVE  order \in Seq(Subs)
<1>1. IsFiniteSet(S)
  BY SubscriberAssumption, FS_Subset
<1>2. Cardinality(S) \in Nat
  BY <1>1, FS_CardinalityType
<1>3. order \in [1 .. Cardinality(S) -> S]
  BY DEF Orders, Bijection, Injection
<1> QED
  BY <1>2, <1>3

LEMMA TypeStep == TypeInv /\ [Next]_vars => TypeInv'
<1> SUFFICES ASSUME TypeInv, [Next]_vars
             PROVE  TypeInv'
  OBVIOUS
<1>a. ClientTypes /\ ItemTypes /\ ThreadTypes /\ RmdsTypes /\ Definite
  BY DEF TypeInv, TypeOK
<1>b. ASSUME ClientTypes', ItemTypes', ThreadTypes', RmdsTypes', Definite'
      PROVE  TypeInv'
  BY <1>b DEF TypeInv, TypeOK
<1>1. ASSUME NEW l \in Listeners, AddSubscription(l)
      PROVE  TypeInv'
  <2>1. ClientTypes'
    BY <1>a, <1>1 DEF AddSubscription, ClientTypes, deliveryVars
  <2> QED
    BY <1>a, <1>b, <1>1, <2>1, ItemFrame, ThreadFrame, RmdsFrame, DefiniteFrame
    DEF AddSubscription, deliveryVars, rmdsVars
<1>2. ASSUME NEW l \in Listeners, Mute(l)
      PROVE  TypeInv'
  <2>1. ClientTypes'
    BY <1>a, <1>2 DEF Mute, ClientTypes, deliveryVars
  <2> QED
    BY <1>a, <1>b, <1>2, <2>1, ItemFrame, ThreadFrame, RmdsFrame, DefiniteFrame
    DEF Mute, deliveryVars, rmdsVars
<1>3. ASSUME NEW l \in Listeners, FindToDestroy(l)
      PROVE  TypeInv'
  <2>1. FoundSub(l) \in Subs \cup {None}
    BY <1>a, SubscriberAssumption DEF FoundSub, ItemTypes
  <2>2. target' \in [Listeners -> Subs \cup {None}]
    BY <1>a, <1>3, <2>1 DEF FindToDestroy, ClientTypes
  <2>3. /\ api' \in [Listeners -> {"new", "created", "muted", "destroy",
                        "remove", "unlist", "count", "erase", "done"}]
        /\ destroyed' \in [Listeners -> Nat]
    <3>1. CASE FoundSub(l) = None
      <4>1. /\ destroyed' = [destroyed EXCEPT ![l] = @ + 1]
            /\ api' = [api EXCEPT ![l] = "remove"]
        BY <1>3, <3>1 DEF FindToDestroy
      <4> QED
        BY <1>a, <4>1 DEF ClientTypes
    <3>2. CASE FoundSub(l) # None
      <4>1. destroyed' = destroyed /\ api' = [api EXCEPT ![l] = "destroy"]
        BY <1>3, <3>2 DEF FindToDestroy
      <4> QED
        BY <1>a, <4>1 DEF ClientTypes
    <3> QED
      BY <3>1, <3>2
  <2>4. ClientTypes'
    BY <1>a, <1>3, <2>2, <2>3 DEF FindToDestroy, ClientTypes, deliveryVars
  <2> QED
    BY <1>a, <1>b, <1>3, <2>4, ItemFrame, ThreadFrame, RmdsFrame, DefiniteFrame
    DEF FindToDestroy, deliveryVars, rmdsVars
<1>4. ASSUME NEW l \in Listeners, QueueSubscriptionDestroy(l)
      PROVE  TypeInv'
  <2>1. ClientTypes'
    BY <1>a, <1>4 DEF QueueSubscriptionDestroy, QueueDestroy, ClientTypes,
                      deliveryVars
  <2>2. requestQueue' \in Seq(Requests)
    <3>1. Request("destroy", l) \in Requests
      BY DEF Request, Requests
    <3> QED
      BY <1>a, <1>4, <3>1, QueueGrows
      DEF QueueSubscriptionDestroy, QueueDestroy, ThreadTypes
  <2>3. ThreadTypes'
    BY <1>a, <1>4, <2>2
    DEF QueueSubscriptionDestroy, ThreadTypes, sessionVars, deliveryVars
  <2> QED
    BY <1>a, <1>b, <1>4, <2>1, <2>3, ItemFrame, RmdsFrame, DefiniteFrame
    DEF QueueSubscriptionDestroy, deliveryVars, rmdsVars
<1>5. ASSUME NEW l \in Listeners, FindToRemove(l)
      PROVE  TypeInv'
  <2>1. FoundSub(l) \in Subs \cup {None}
    BY <1>a, SubscriberAssumption DEF FoundSub, ItemTypes
  <2>2. ClientTypes'
    BY <1>a, <1>5, <2>1 DEF FindToRemove, ClientTypes, deliveryVars
  <2> QED
    BY <1>a, <1>b, <1>5, <2>2, ItemFrame, ThreadFrame, RmdsFrame, DefiniteFrame
    DEF FindToRemove, deliveryVars, rmdsVars
<1>6. ASSUME NEW l \in Listeners, RemoveListener(l)
      PROVE  TypeInv'
  <2>1. ClientTypes'
    BY <1>a, <1>6 DEF RemoveListener, ClientTypes, deliveryVars
  <2>2. upa' \in [Subs -> Items]
    <3>1. ASSUME target[l] \in Subs
          PROVE  [upa[target[l]] EXCEPT !.listeners = @ \ {l}] \in Items
      <4>1. upa[target[l]] \in Items /\ upa[target[l]].listeners \subseteq Listeners
        BY <1>a, <3>1 DEF ItemTypes, Items
      <4> QED
        BY <4>1, SetField
    <3> QED
      BY <1>a, <1>6, <3>1, SetItem DEF RemoveListener, ItemTypes
  <2>3. ItemTypes'
    BY <1>a, <1>6, <2>2 DEF RemoveListener, ItemTypes, idVars, countVars,
                            SM!TypeOK
  <2> QED
    BY <1>a, <1>b, <1>6, <2>1, <2>3, ThreadFrame, RmdsFrame, DefiniteFrame
    DEF RemoveListener, deliveryVars, rmdsVars
<1>7. ASSUME NEW l \in Listeners, CountListeners(l)
      PROVE  TypeInv'
  <2>1. ClientTypes'
    BY <1>a, <1>7 DEF CountListeners, ClientTypes, deliveryVars
  <2> QED
    BY <1>a, <1>b, <1>7, <2>1, ItemFrame, ThreadFrame, RmdsFrame, DefiniteFrame
    DEF CountListeners, deliveryVars, rmdsVars
<1>8. ASSUME NEW l \in Listeners, RemoveSubscription(l)
      PROVE  TypeInv'
  <2>1. ClientTypes'
    BY <1>a, <1>8 DEF RemoveSubscription, ClientTypes, deliveryVars
  <2>2. CASE subscriptions[SymbolOf[l]] = None
    <3>1. UNCHANGED <<upa, pendingCloses, requestQueue, subscriptions>>
      BY <1>8, <2>2 DEF RemoveSubscription
    <3> QED
      BY <1>a, <1>b, <1>8, <2>1, <3>1, ItemFrame, ThreadFrame, RmdsFrame,
         DefiniteFrame
      DEF RemoveSubscription, deliveryVars, rmdsVars, countVars
  <2>3. CASE subscriptions[SymbolOf[l]] # None
    <3>1. PICK s \in Subs : s = subscriptions[SymbolOf[l]]
      BY <1>a, <2>3, SubscriberAssumption DEF ItemTypes
    <3>2. Close(s) /\ Erase(SymbolOf[l])
      BY <1>8, <2>3, <3>1 DEF RemoveSubscription
    <3>3. /\ upa' \in [Subs -> Items] /\ pendingCloses' \in 0 .. CounterWidth - 1
          /\ requestQueue' \in Seq(Requests)
      BY <1>a, <3>2, CloseTypes
    <3>4. subscriptions' \in [Symbols -> Subs \cup {None}]
      BY <1>a, <3>2 DEF Erase, ItemTypes
    <3>5. ItemTypes'
      BY <1>a, <1>8, <3>3, <3>4
      DEF RemoveSubscription, ItemTypes, idVars, SM!TypeOK
    <3>6. ThreadTypes'
      BY <1>a, <1>8, <3>3
      DEF RemoveSubscription, ThreadTypes, sessionVars, deliveryVars
    <3> QED
      BY <1>a, <1>b, <1>8, <2>1, <3>5, <3>6, RmdsFrame, DefiniteFrame
      DEF RemoveSubscription, deliveryVars, rmdsVars
  <2> QED
    BY <2>2, <2>3
<1>9. ASSUME NEW l \in Listeners, OnDestroy(l)
      PROVE  TypeInv'
  <2>1. ClientTypes'
    BY <1>a, <1>9 DEF OnDestroy, ClientTypes, deliveryVars
  <2> QED
    BY <1>a, <1>b, <1>9, <2>1, ItemFrame, ThreadFrame, RmdsFrame, DefiniteFrame
    DEF OnDestroy, deliveryVars, rmdsVars
<1>10. ASSUME ProcessPendingSubscription
       PROVE  TypeInv'
  <2>1. PICK l \in Listeners : /\ l = Head(pendingSubscriptions)
                              /\ SymbolOf[l] \in Symbols
    BY <1>a, <1>10, SubscriberAssumption
    DEF ProcessPendingSubscription, ClientTypes
  <2>2. ClientTypes'
    <3>1. pendingSubscriptions' \in Seq(Listeners)
      BY <1>a, <1>10 DEF ProcessPendingSubscription, ClientTypes
    <3> QED
      BY <1>a, <1>10, <3>1
      DEF ProcessPendingSubscription, ClientTypes, clientVars
  <2>3. CASE l \in BadSource
    <3>1. /\ calling' = [listener |-> l, type |-> "error"]
          /\ UNCHANGED <<adding, upa, subscriptions>>
      BY <1>10, <2>1, <2>3 DEF ProcessPendingSubscription
    <3>2. ThreadTypes'
      BY <1>a, <1>10, <3>1
      DEF ProcessPendingSubscription, ThreadTypes, sessionVars, NoticeTypes
    <3>3. Definite'
      BY <1>a, <1>10, <3>1
      DEF ProcessPendingSubscription, Definite, rmdsVars
    <3> QED
      BY <1>a, <1>b, <1>10, <2>2, <3>1, <3>2, <3>3, ItemFrame, RmdsFrame
      DEF ProcessPendingSubscription
  <2>4. CASE l \notin BadSource /\ subscriptions[SymbolOf[l]] # None
    <3>1. PICK s \in Subs : s = subscriptions[SymbolOf[l]]
      BY <1>a, <2>1, <2>4 DEF ItemTypes
    <3>2. /\ adding' = [listener |-> l, sub |-> s, step |-> "join"]
          /\ UNCHANGED <<calling, upa, subscriptions>>
      BY <1>10, <2>1, <2>4, <3>1 DEF ProcessPendingSubscription
    <3>3. ThreadTypes'
      BY <1>a, <1>10, <3>2
      DEF ProcessPendingSubscription, ThreadTypes, sessionVars
    <3>4. Definite'
      BY <1>a, <1>10, <3>2
      DEF ProcessPendingSubscription, Definite, rmdsVars
    <3> QED
      BY <1>a, <1>b, <1>10, <2>2, <3>2, <3>3, <3>4, ItemFrame, RmdsFrame
      DEF ProcessPendingSubscription
  <2>5. CASE l \notin BadSource /\ subscriptions[SymbolOf[l]] = None
    <3>1. PICK s \in Subs :
             /\ upa' = [upa EXCEPT ![s].symbol = SymbolOf[l]]
             /\ subscriptions' = [subscriptions EXCEPT ![SymbolOf[l]] = s]
             /\ adding' = [listener |-> l, sub |-> s, step |-> "create"]
      BY <1>10, <2>1, <2>5 DEF ProcessPendingSubscription
    <3>2. calling' = calling
      BY <1>10, <2>1, <2>5 DEF ProcessPendingSubscription
    <3>3. [upa[s] EXCEPT !.symbol = SymbolOf[l]] \in Items
      BY <1>a, <2>1, SetField DEF ItemTypes
    <3>4. /\ upa' \in [Subs -> Items]
          /\ subscriptions' \in [Symbols -> Subs \cup {None}]
      BY <1>a, <3>1, <3>3, SetItem DEF ItemTypes
    <3>5. ItemTypes'
      BY <1>a, <1>10, <3>4
      DEF ProcessPendingSubscription, ItemTypes, idVars, countVars, SM!TypeOK
    <3>6. ThreadTypes'
      BY <1>a, <1>10, <3>1, <3>2
      DEF ProcessPendingSubscription, ThreadTypes, sessionVars
    <3>7. Definite'
      BY <1>a, <1>10, <3>1, <3>2
      DEF ProcessPendingSubscription, Definite, rmdsVars
    <3> QED
      BY <1>a, <1>b, <1>10, <2>2, <3>5, <3>6, <3>7, RmdsFrame
      DEF ProcessPendingSubscription
  <2> QED
    BY <2>3, <2>4, <2>5
<1>11. ASSUME AddListener
       PROVE  TypeInv'
  <2>1. adding.sub \in Subs /\ adding.listener \in Listeners
    BY <1>a, <1>11 DEF AddListener, Definite
  <2>2. upa' \in [Subs -> Items]
    <3>1. [upa[adding.sub] EXCEPT !.listeners = @ \cup {adding.listener}]
            \in Items
      <4>1. /\ upa[adding.sub] \in Items
            /\ upa[adding.sub].listeners \subseteq Listeners
        BY <1>a, <2>1 DEF ItemTypes, Items
      <4> QED
        BY <2>1, <4>1, SetField
    <3> QED
      BY <1>a, <1>11, <3>1, SetItem DEF AddListener, ItemTypes
  <2>3. ItemTypes'
    BY <1>a, <1>11, <2>2
    DEF AddListener, ItemTypes, idVars, countVars, SM!TypeOK
  <2>4. /\ adding' \in [listener : Listeners \cup {None},
                        sub : Subs \cup {None},
                        step : {"none", "join", "create", "image", "open"}]
        /\ adding'.sub = adding.sub /\ adding'.listener = adding.listener
    BY <1>a, <1>11 DEF AddListener, ThreadTypes
  <2>5. ThreadTypes'
    BY <1>a, <1>11, <2>4
    DEF AddListener, ThreadTypes, sessionVars, deliveryVars
  <2>6. Definite'
    BY <1>a, <1>11, <2>1, <2>4 DEF AddListener, Definite, deliveryVars, rmdsVars
  <2> QED
    BY <1>a, <1>b, <1>11, <2>3, <2>5, <2>6, ClientFrame, RmdsFrame
    DEF AddListener, deliveryVars
<1>12. ASSUME RequestImage
       PROVE  TypeInv'
  <2>1. adding.sub \in Subs /\ adding.listener \in Listeners
    BY <1>a, <1>12 DEF RequestImage, Definite
  <2>2. upa' \in [Subs -> Items]
    <3>1. [upa[adding.sub] EXCEPT !.isRefresh = TRUE,
                                  !.requester = adding.listener] \in Items
      BY <1>a, <2>1, SetField DEF ItemTypes
    <3>2. CASE upa[adding.sub].state = "Live"
      <4>1. upa' = [upa EXCEPT ![adding.sub] =
                      [upa[adding.sub] EXCEPT !.isRefresh = TRUE,
                                              !.requester = adding.listener]]
        BY <1>a, <1>12, <2>1, <3>2 DEF RequestImage, ItemTypes, Items
      <4> QED
        BY <1>a, <3>1, <4>1, SetItem DEF ItemTypes
    <3>3. CASE upa[adding.sub].state # "Live"
      BY <1>a, <1>12, <3>3 DEF RequestImage, ItemTypes
    <3> QED
      BY <3>2, <3>3
  <2>3. ItemTypes'
    BY <1>a, <1>12, <2>2
    DEF RequestImage, ItemTypes, idVars, countVars, SM!TypeOK
  <2>4. requestQueue' \in Seq(Requests)
    <3>1. Request("refresh", adding.sub) \in Requests
      BY <2>1 DEF Request, Requests
    <3>2. CASE upa[adding.sub].state = "Live"
      BY <1>a, <1>12, <3>1, <3>2, QueueGrows DEF RequestImage, ThreadTypes
    <3>3. CASE upa[adding.sub].state # "Live"
      BY <1>a, <1>12, <3>3 DEF RequestImage, ThreadTypes
    <3> QED
      BY <3>2, <3>3
  <2>5. ThreadTypes'
    BY <1>a, <1>12, <2>4
    DEF RequestImage, ThreadTypes, sessionVars, deliveryVars, NoAdd
  <2>6. Definite'
    BY <1>a, <1>12 DEF RequestImage, Definite, deliveryVars, rmdsVars, NoAdd
  <2> QED
    BY <1>a, <1>b, <1>12, <2>3, <2>5, <2>6, ClientFrame, RmdsFrame
    DEF RequestImage, deliveryVars
<1>13. ASSUME Open
       PROVE  TypeInv'
  <2>1. adding.sub \in Subs
    BY <1>a, <1>13 DEF Open, Definite
  <2>2. Opened(adding.sub) \in Items
    BY <1>a, <2>1, SetField DEF Opened, ItemTypes, SubState
  <2>3. upa' \in [Subs -> Items]
    BY <1>a, <1>13, <2>2, SetItem DEF Open, ItemTypes
  <2>4. ItemTypes'
    BY <1>a, <1>13, <2>3 DEF Open, ItemTypes, idVars, countVars, SM!TypeOK
  <2>5. Request("open", adding.sub) \in Requests
    BY <2>1 DEF Request, Requests
  <2>6. requestQueue' \in Seq(Requests)
    BY <1>a, <1>13, <2>5, QueueGrows DEF Open, ThreadTypes
  <2>7. ThreadTypes'
    BY <1>a, <1>13, <2>6
    DEF Open, ThreadTypes, sessionVars, deliveryVars, NoAdd
  <2>8. Definite'
    BY <1>a, <1>13 DEF Open, Definite, deliveryVars, rmdsVars, NoAdd
  <2> QED
    BY <1>a, <1>b, <1>13, <2>4, <2>7, <2>8, ClientFrame, RmdsFrame
    DEF Open, deliveryVars
<1>14. ASSUME OpenRequestCb
       PROVE  TypeInv'
  <2>1. Queued("open", Head(requestQueue))
    BY <1>a, <1>14, HeadTyped DEF OpenRequestCb
  <2>2. /\ upa' \in [Subs -> Items] /\ SM!TypeOK' /\ pendingItems' \subseteq Subs
        /\ notices' \in Seq(Notices) /\ upstream' \in [StreamIds -> Streams]
    <3>1. CASE upa[Head(requestQueue).who].state = "Subscribing"
      BY <1>a, <1>14, <2>1, <3>1, SendTypes DEF OpenRequestCb, Queued
    <3>2. CASE upa[Head(requestQueue).who].state # "Subscribing"
      BY <1>a, <1>14, <3>2
      DEF OpenRequestCb, Ignored, ItemTypes, ThreadTypes, RmdsTypes, Streams,
          idVars, SM!TypeOK
    <3> QED
      BY <3>1, <3>2
  <2>3. ItemTypes'
    BY <1>a, <1>14, <2>2 DEF OpenRequestCb, ItemTypes
  <2>4. ThreadTypes'
    BY <1>a, <1>14, <2>1, <2>2
    DEF OpenRequestCb, Queued, ThreadTypes, sessionVars
  <2>5. RmdsTypes'
    BY <1>a, <1>14, <2>2 DEF OpenRequestCb, RmdsTypes, Streams
  <2> QED
    BY <1>a, <1>b, <1>14, <2>3, <2>4, <2>5, ClientFrame, DefiniteFrame
    DEF OpenRequestCb
<1>15. ASSUME RefreshRequestCb
       PROVE  TypeInv'
  <2>1. Queued("refresh", Head(requestQueue))
    BY <1>a, <1>15, HeadTyped DEF RefreshRequestCb
  <2>2. /\ upa' \in [Subs -> Items] /\ SM!TypeOK' /\ pendingItems' \subseteq Subs
        /\ notices' \in Seq(Notices) /\ upstream' \in [StreamIds -> Streams]
    <3>1. CASE upa[Head(requestQueue).who].state \in {"Subscribing", "Live"}
      BY <1>a, <1>15, <2>1, <3>1, SendTypes DEF RefreshRequestCb, Queued
    <3>2. CASE upa[Head(requestQueue).who].state \notin {"Subscribing", "Live"}
      BY <1>a, <1>15, <3>2
      DEF RefreshRequestCb, Ignored, ItemTypes, ThreadTypes, RmdsTypes,
          Streams, idVars, SM!TypeOK
    <3> QED
      BY <3>1, <3>2
  <2>3. ItemTypes'
    BY <1>a, <1>15, <2>2 DEF RefreshRequestCb, ItemTypes
  <2>4. ThreadTypes'
    BY <1>a, <1>15, <2>1, <2>2
    DEF RefreshRequestCb, Queued, ThreadTypes, sessionVars
  <2>5. RmdsTypes'
    BY <1>a, <1>15, <2>2 DEF RefreshRequestCb, RmdsTypes, Streams
  <2> QED
    BY <1>a, <1>b, <1>15, <2>3, <2>4, <2>5, ClientFrame, DefiniteFrame
    DEF RefreshRequestCb
<1>16. ASSUME CloseRequestCb
       PROVE  TypeInv'
  <2> DEFINE id == upa[Head(requestQueue).who].streamId
  <2>1. Queued("close", Head(requestQueue))
    BY <1>a, <1>16, HeadTyped DEF CloseRequestCb
  <2>2. pendingCloses' \in 0 .. CounterWidth - 1
    BY <1>a, <1>16, Counts DEF CloseRequestCb, ItemTypes
  <2>3. /\ SM!TypeOK' /\ pendingItems' \subseteq Subs
        /\ openItems' \in 0 .. CounterWidth - 1
        /\ upstream' \in [StreamIds -> Streams]
    <3>1. CASE id = 0
      BY <1>a, <1>16, <3>1
      DEF CloseRequestCb, ItemTypes, RmdsTypes, Streams, idVars, SM!TypeOK
    <3>2. CASE id # 0
      <4>1. id \in StreamIds
        BY <1>a, <2>1, <3>2 DEF Queued, ItemTypes, Items
      <4>2. /\ SM!ReleaseStreamId(id)
            /\ pendingItems' = pendingItems
               \/ pendingItems' = pendingItems \ {Head(requestQueue).who}
            /\ openItems' = Dec(openItems) \/ openItems' = openItems
            /\ upstream' = upstream
               \/ upstream' = [upstream EXCEPT ![id] = NoStream]
        BY <1>16, <3>2 DEF CloseRequestCb
      <4>3. SM!TypeOK'
        BY <1>a, <4>1, <4>2, Ids DEF SM!ReleaseStreamId, SM!TypeOK, ItemTypes
      <4>4. NoStream \in Streams
        BY DEF NoStream, Streams
      <4>5. upstream' \in [StreamIds -> Streams]
        BY <1>a, <4>2, <4>4 DEF RmdsTypes, Streams
      <4> QED
        BY <1>a, <4>2, <4>3, <4>5, Counts DEF ItemTypes
    <3> QED
      BY <3>1, <3>2
  <2>4. ItemTypes'
    BY <1>a, <1>16, <2>2, <2>3 DEF CloseRequestCb, ItemTypes
  <2>5. ThreadTypes'
    BY <1>a, <1>16, <2>1
    DEF CloseRequestCb, Queued, ThreadTypes, sessionVars, deliveryVars
  <2>6. RmdsTypes'
    BY <1>a, <1>16, <2>3 DEF CloseRequestCb, RmdsTypes, Streams
  <2> QED
    BY <1>a, <1>b, <1>16, <2>4, <2>5, <2>6, ClientFrame, DefiniteFrame
    DEF CloseRequestCb, deliveryVars
<1>17. ASSUME DestroyRequestCb
       PROVE  TypeInv'
  <2>1. Queued("destroy", Head(requestQueue))
    BY <1>a, <1>17, HeadTyped DEF DestroyRequestCb
  <2>2. ClientTypes'
    BY <1>a, <1>17, <2>1 DEF DestroyRequestCb, Queued, ClientTypes, deliveryVars
  <2>3. ThreadTypes'
    BY <1>a, <1>17, <2>1
    DEF DestroyRequestCb, Queued, ThreadTypes, sessionVars, deliveryVars
  <2> QED
    BY <1>a, <1>b, <1>17, <2>2, <2>3, ItemFrame, RmdsFrame, DefiniteFrame
    DEF DestroyRequestCb, deliveryVars, rmdsVars
<1>18. ASSUME NEW op \in {"login", "directory"}, SessionRequestCb(op)
       PROVE  TypeInv'
  <2>1. Queued(op, Head(requestQueue))
    BY <1>a, <1>18, HeadTyped DEF SessionRequestCb
  <2>2. PICK r \in Responses : /\ r.class \notin Market
                               /\ wire' = Append(wire, r)
    <3>1. Response(op, "ok", 0, None) \in Responses
      BY DEF Response, Responses
    <3>2. Response(op, "ok", 0, None).class \notin Market
      BY DEF Response, Market
    <3> QED
      BY <1>18, <3>1, <3>2 DEF SessionRequestCb
  <2>3. ThreadTypes'
    BY <1>a, <1>18, <2>1
    DEF SessionRequestCb, Queued, ThreadTypes, sessionVars, deliveryVars
  <2>4. RmdsTypes'
    BY <1>a, <1>18, <2>2 DEF SessionRequestCb, RmdsTypes
  <2>5. Definite'
    <3>1. \A i \in 1 .. Len(wire') :
             wire'[i].class \in Market => wire'[i].streamId \in StreamIds
      BY <1>a, <2>2 DEF Definite, RmdsTypes
    <3> QED
      BY <1>a, <1>18, <3>1 DEF SessionRequestCb, Definite, deliveryVars
  <2> QED
    BY <1>a, <1>b, <1>18, <2>3, <2>4, <2>5, ClientFrame, ItemFrame
    DEF SessionRequestCb, deliveryVars
<1>19. ASSUME ReadMarketData
       PROVE  TypeInv'
  <2>1. /\ Head(wire) \in Responses /\ Tail(wire) \in Seq(Responses)
        /\ Head(wire).streamId \in StreamIds
        /\ \A i \in 1 .. Len(Tail(wire)) :
             Tail(wire)[i].class \in Market =>
                Tail(wire)[i].streamId \in StreamIds
    BY <1>a, <1>19, WireTyped DEF ReadMarketData, Market
  <2>2. PICK s \in Subs \cup {None} : s = SM!GetItem(Head(wire).streamId)
    BY <1>a, <2>1, Ids DEF ItemTypes, SM!TypeOK, SM!GetItem
  <2>3. /\ \/ upa' = upa
           \/ /\ s \in Subs
              /\ upa' = [upa EXCEPT ![s].gotInitial = TRUE]
        /\ pendingItems' = pendingItems \/ pendingItems' = pendingItems \ {s}
        /\ \/ handling' = handling
           \/ /\ s \in Subs
              /\ handling' = [msg |-> Head(wire), sub |-> s,
                              seen |-> upa[s].state]
    <3>1. CASE s = None
      BY <1>19, <2>2, <3>1, SubscriberAssumption DEF ReadMarketData
    <3>2. CASE s # None
      <4>1. s \in Subs
        BY <3>2
      <4> QED
        BY <1>19, <2>2, <3>2, <4>1, SubscriberAssumption DEF ReadMarketData
    <3> QED
      BY <3>1, <3>2
  <2>4. upa' \in [Subs -> Items]
    <3>1. s \in Subs => [upa[s] EXCEPT !.gotInitial = TRUE] \in Items
      BY <1>a, SetField DEF ItemTypes
    <3> QED
      BY <1>a, <2>3, <3>1, SetItem DEF ItemTypes
  <2>5. ItemTypes'
    BY <1>a, <1>19, <2>3, <2>4
    DEF ReadMarketData, ItemTypes, idVars, SM!TypeOK
  <2>6. /\ handling' \in [msg : Responses \cup {None}, sub : Subs \cup {None},
                          seen : SubState]
        /\ handling' # NoMsg => /\ handling'.sub \in Subs
                                /\ handling'.msg \in Responses
    <3>1. CASE handling' = handling
      BY <1>a, <3>1 DEF ThreadTypes, Definite
    <3>2. CASE handling' # handling
      <4>1. upa[s].state \in SubState /\ s \in Subs
        BY <1>a, <2>3, <3>2 DEF ItemTypes, Items
      <4> QED
        BY <2>1, <2>3, <3>2, <4>1
    <3> QED
      BY <3>1, <3>2
  <2>7. ThreadTypes'
    BY <1>a, <1>19, <2>6
    DEF ReadMarketData, ThreadTypes, sessionVars, deliveryVars
  <2>8. RmdsTypes'
    BY <1>a, <1>19, <2>1 DEF ReadMarketData, RmdsTypes
  <2>9. Definite'
    BY <1>a, <1>19, <2>1, <2>6 DEF ReadMarketData, Definite, deliveryVars
  <2> QED
    BY <1>a, <1>b, <1>19, <2>5, <2>7, <2>8, <2>9, ClientFrame
    DEF ReadMarketData, deliveryVars
<1>20. ASSUME HandlerUnchanged, handling' = NoMsg,
              upa' \in [Subs -> Items], pendingItems' \subseteq Subs,
              openItems' \in 0 .. CounterWidth - 1, notices' \in Seq(Notices)
       PROVE  TypeInv'
  <2>1. ItemTypes'
    BY <1>a, <1>20 DEF HandlerUnchanged, ItemTypes, idVars, SM!TypeOK
  <2>2. NoMsg \in [msg : Responses \cup {None}, sub : Subs \cup {None},
                   seen : SubState]
    BY DEF NoMsg, SubState
  <2>3. ThreadTypes'
    BY <1>a, <1>20, <2>2 DEF HandlerUnchanged, ThreadTypes, sessionVars
  <2>4. Definite'
    BY <1>a, <1>20 DEF HandlerUnchanged, Definite, rmdsVars
  <2> QED
    BY <1>a, <1>b, <1>20, <2>1, <2>3, <2>4, ClientFrame, RmdsFrame
    DEF HandlerUnchanged
<1>21. ASSUME handling # NoMsg, NEW seen \in SeenStates, ProcessStatus(seen)
       PROVE  TypeInv'
  <2>1. upa' \in [Subs -> Items]
    <3>1. PICK x \in SubState :
             upa' = [upa EXCEPT ![handling.sub].state = x]
      BY <1>21, Handled DEF ProcessStatus
    <3>2. [upa[handling.sub] EXCEPT !.state = x] \in Items
      BY <1>21, Handled, SetField
    <3> QED
      BY <1>a, <3>1, <3>2, SetItem DEF ItemTypes
  <2>2. openItems' \in 0 .. CounterWidth - 1 /\ pendingItems' \subseteq Subs
    BY <1>a, <1>21, Counts DEF ProcessStatus, CountOpened, ItemTypes
  <2>3. notices' \in Seq(Notices)
    BY <1>21, Handled DEF ProcessStatus
  <2> QED
    BY <1>20, <1>21, <2>1, <2>2, <2>3 DEF ProcessStatus
<1>22. ASSUME handling # NoMsg, NEW seen \in SeenStates,
              NEW decoded \in Decodes, ProcessRefresh(seen, decoded)
       PROVE  TypeInv'
  <2>1. PICK x \in SubState, b \in BOOLEAN, r \in Listeners \cup {None} :
           upa' = [upa EXCEPT ![handling.sub].state = x,
                              ![handling.sub].isRefresh = b,
                              ![handling.sub].requester = r]
    <3> DEFINE s == handling.sub
               st == handling.msg.state
               toRequester == IsGood(st) /\ decoded /\ upa[s].isRefresh
    <3>1. PICK x \in SubState :
             x = IF st = "nonstreaming" /\ seen = "Stale"
                 THEN "Live" ELSE RsslState(s, st, seen)
      BY <1>22, Handled DEF SubState
    <3>2. PICK b \in BOOLEAN : b = (upa[s].isRefresh /\ ~toRequester)
      OBVIOUS
    <3>3. PICK r \in Listeners \cup {None} :
             r = IF toRequester THEN None ELSE upa[s].requester
      BY <1>22, Handled DEF Items
    <3>4. upa' = [upa EXCEPT
             ![s].state = x,
             ![s].isRefresh = @ /\ ~toRequester,
             ![s].requester = IF toRequester THEN None ELSE @]
      BY <1>22, <3>1 DEF ProcessRefresh
    <3> QED
      BY <1>a, <1>22, <3>2, <3>3, <3>4, Handled DEF ItemTypes, Items
  <2>2. upa' \in [Subs -> Items]
    <3>1. [upa[handling.sub] EXCEPT !.state = x, !.isRefresh = b,
                                    !.requester = r] \in Items
      BY <1>22, Handled DEF Items
    <3>2. upa' = [upa EXCEPT ![handling.sub] =
                    [upa[handling.sub] EXCEPT !.state = x, !.isRefresh = b,
                                              !.requester = r]]
      BY <1>a, <1>22, <2>1, Handled DEF ItemTypes, Items
    <3> QED
      BY <1>a, <3>1, <3>2, SetItem DEF ItemTypes
  <2>3. openItems' \in 0 .. CounterWidth - 1 /\ pendingItems' \subseteq Subs
    BY <1>a, <1>22, Counts DEF ProcessRefresh, CountOpened, ItemTypes
  <2>4. notices' \in Seq(Notices)
    <3>1. StateNotices(handling.sub, handling.msg.state, seen) \in Seq(Notices)
      BY <1>22, Handled
    <3>2. \A type \in {"refreshImage", "image"} :
             [sub |-> handling.sub, requester |-> upa[handling.sub].requester,
              type |-> type] \in Notices
      BY <1>22, Handled DEF Items, Notices, NoticeTypes
    <3>3. PICK image \in Notices :
             notices' = StateNotices(handling.sub, handling.msg.state, seen) \o
                IF IsGood(handling.msg.state) /\ decoded THEN <<image>> ELSE <<>>
      BY <1>22, <3>2 DEF ProcessRefresh
    <3> QED
      BY <3>1, <3>3
  <2> QED
    BY <1>20, <1>22, <2>2, <2>3, <2>4 DEF ProcessRefresh
<1>23. ASSUME handling # NoMsg, NEW seen \in SeenStates,
              NEW okRead \in BOOLEAN, NEW decoded \in Decodes,
              ProcessUpdate(seen, okRead, decoded)
       PROVE  TypeInv'
  <2>1. upa' \in [Subs -> Items]
    <3>1. PICK x \in SubState :
             upa' = [upa EXCEPT ![handling.sub].state = x]
      <4>1. PICK x \in SubState :
               x = IF seen = "Stale" /\ okRead
                   THEN "Live" ELSE upa[handling.sub].state
        BY <1>23, Handled DEF Items, SubState
      <4>2. upa' = [upa EXCEPT ![handling.sub].state =
                      IF seen = "Stale" /\ okRead THEN "Live" ELSE @]
        BY <1>23 DEF ProcessUpdate
      <4> QED
        BY <1>a, <1>23, <4>1, <4>2, Handled DEF ItemTypes, Items
    <3>2. [upa[handling.sub] EXCEPT !.state = x] \in Items
      BY <1>23, Handled, SetField
    <3> QED
      BY <1>a, <3>1, <3>2, SetItem DEF ItemTypes
  <2>2. openItems' \in 0 .. CounterWidth - 1 /\ pendingItems' \subseteq Subs
    BY <1>a, <1>23 DEF ProcessUpdate, ItemTypes
  <2>3. notices' \in Seq(Notices)
    <3>1. PICK type \in {"image", "update"} :
             notices' = IF decoded THEN <<Notice(handling.sub, type)>> ELSE <<>>
      BY <1>23 DEF ProcessUpdate
    <3>2. Notice(handling.sub, type) \in Notices
      BY <1>23, <3>1, Handled, NoticeTyped DEF NoticeTypes
    <3> QED
      BY <3>1, <3>2
  <2> QED
    BY <1>20, <1>23, <2>1, <2>2, <2>3 DEF ProcessUpdate
<1>24. ASSUME ProcessMarketPriceResponse
       PROVE  TypeInv'
  BY <1>21, <1>22, <1>23, <1>24 DEF ProcessMarketPriceResponse
<1>25. ASSUME TakeListeners
       PROVE  TypeInv'
  <2>1. Head(notices) \in Notices /\ Tail(notices) \in Seq(Notices)
    BY <1>a, <1>25 DEF TakeListeners, ThreadTypes
  <2>2. upa[Head(notices).sub].listeners \subseteq Listeners
    BY <1>a, <2>1 DEF Notices, ItemTypes, Items
  <2>3. /\ notices' \in Seq(Notices) /\ snap' \subseteq Listeners
        /\ current' \in Notices \cup {NoNotice}
    BY <1>25, <2>1, <2>2 DEF TakeListeners
  <2>4. ThreadTypes'
    BY <1>a, <1>25, <2>3 DEF TakeListeners, ThreadTypes, sessionVars
  <2> QED
    BY <1>a, <1>b, <1>25, <2>4, ClientFrame, ItemFrame, RmdsFrame,
       DefiniteFrame
    DEF TakeListeners, rmdsVars
<1>26. ASSUME NEW l \in Listeners, OnMessage(l)
       PROVE  TypeInv'
  <2>1. current.type \in NoticeTypes
    BY <1>a DEF ThreadTypes, Notices, NoNotice, NoticeTypes
  <2>2. \/ calling' = calling /\ gotImage' = gotImage
        \/ /\ calling' = [listener |-> l, type |-> current.type]
           /\ gotImage' = [gotImage EXCEPT ![l] = @ \/ IsImage(current.type)]
    BY <1>26 DEF OnMessage
  <2>3. gotImage' \in [Listeners -> BOOLEAN]
    BY <1>a, <2>2 DEF ClientTypes
  <2>4. ClientTypes'
    BY <1>a, <1>26, <2>3 DEF OnMessage, ClientTypes, clientVars
  <2>5. /\ calling' \in [listener : Listeners \cup {None}, type : NoticeTypes]
        /\ calling' # NoCall => calling'.listener \in Listeners
    BY <1>a, <2>1, <2>2 DEF ThreadTypes, Definite
  <2>6. ThreadTypes'
    BY <1>a, <1>26, <2>5 DEF OnMessage, ThreadTypes, sessionVars
  <2>7. Definite'
    BY <1>a, <1>26, <2>5 DEF OnMessage, Definite, rmdsVars
  <2> QED
    BY <1>a, <1>b, <1>26, <2>4, <2>6, <2>7, ItemFrame, RmdsFrame
    DEF OnMessage
<1>27. ASSUME CallbackReturns
       PROVE  TypeInv'
  <2>1. failed' \subseteq Listeners
    BY <1>a, <1>27 DEF CallbackReturns, ClientTypes, Definite
  <2>2. ClientTypes'
    BY <1>a, <1>27, <2>1 DEF CallbackReturns, ClientTypes, clientVars
  <2>3. NoCall \in [listener : Listeners \cup {None}, type : NoticeTypes]
    BY DEF NoCall, NoticeTypes
  <2>4. ThreadTypes'
    BY <1>a, <1>27, <2>3 DEF CallbackReturns, ThreadTypes, sessionVars
  <2>5. Definite'
    BY <1>a, <1>27 DEF CallbackReturns, Definite, rmdsVars
  <2> QED
    BY <1>a, <1>b, <1>27, <2>2, <2>4, <2>5, ItemFrame, RmdsFrame
    DEF CallbackReturns
<1>28. ASSUME LoseConnection
       PROVE  TypeInv'
  <2> DEFINE open == {s \in Mapped : upa[s].state # "Inactive"}
  <2>1. open \subseteq Subs
    BY <1>a DEF Mapped, ItemTypes
  <2>2. upa' \in [Subs -> Items]
    <3>1. \A s \in Subs : /\ [upa[s] EXCEPT !.state = "Stale"] \in Items
                          /\ [upa[s] EXCEPT !.state = @] \in Items
      <4>1. \A s \in Subs : upa[s] \in Items /\ upa[s].state \in SubState
        BY <1>a DEF ItemTypes, Items
      <4> QED
        BY <4>1, SetField DEF SubState
    <3>2. upa' = [s \in Subs |-> [upa[s] EXCEPT !.state =
                     IF s \in open THEN "Stale" ELSE @]]
      BY <1>28 DEF LoseConnection
    <3> QED
      BY <3>1, <3>2
  <2>3. notices' \in Seq(Notices)
    <3>1. PICK order \in Orders(open) :
             notices' = [i \in DOMAIN order |-> Notice(order[i], "status")]
      BY <1>28 DEF LoseConnection
    <3>2. order \in Seq(Subs)
      BY <2>1, <3>1, OrderIsSeq
    <3>3. \A i \in DOMAIN order : Notice(order[i], "status") \in Notices
      BY <3>2, NoticeTyped DEF NoticeTypes
    <3> QED
      BY <3>1, <3>2, <3>3
  <2>4. ItemTypes'
    BY <1>a, <1>28, <2>2
    DEF LoseConnection, ItemTypes, idVars, countVars, SM!TypeOK
  <2>5. disconnects' \in 0 .. MaxDisconnects
    BY <1>a, <1>28, SubscriberAssumption DEF LoseConnection, ThreadTypes
  <2>6. ThreadTypes'
    BY <1>a, <1>28, <2>3, <2>5 DEF LoseConnection, ThreadTypes
  <2>7. RmdsTypes'
    BY <1>28 DEF LoseConnection, RmdsTypes, NoStream
  <2>8. Definite'
    BY <1>a, <1>28 DEF LoseConnection, Definite
  <2> QED
    BY <1>a, <1>b, <1>28, <2>4, <2>6, <2>7, <2>8, ClientFrame
    DEF LoseConnection
<1>29. ASSUME Reconnect
       PROVE  TypeInv'
  <2>1. Request("login", None) \in Requests
    BY DEF Request, Requests
  <2>2. requestQueue' \in Seq(Requests)
    BY <1>a, <1>29, <2>1, QueueGrows DEF Reconnect, ThreadTypes
  <2>3. ThreadTypes'
    BY <1>a, <1>29, <2>2 DEF Reconnect, ThreadTypes, deliveryVars
  <2> QED
    BY <1>a, <1>b, <1>29, <2>3, ClientFrame, ItemFrame, RmdsFrame,
       DefiniteFrame
    DEF Reconnect, deliveryVars, rmdsVars
<1>30. ASSUME LoginResponse
       PROVE  TypeInv'
  <2>1. Request("directory", None) \in Requests
    BY DEF Request, Requests
  <2>2. requestQueue' \in Seq(Requests)
    BY <1>a, <1>30, <2>1, QueueGrows DEF LoginResponse, ThreadTypes
  <2>3. ThreadTypes'
    BY <1>a, <1>30, <2>2 DEF LoginResponse, ThreadTypes, deliveryVars
  <2>4. RmdsTypes'
    BY <1>a, <1>30, WireTyped DEF LoginResponse, RmdsTypes
  <2>5. Definite'
    BY <1>a, <1>30, WireTyped DEF LoginResponse, Definite, deliveryVars
  <2> QED
    BY <1>a, <1>b, <1>30, <2>3, <2>4, <2>5, ClientFrame, ItemFrame
    DEF LoginResponse, deliveryVars
<1>31. ASSUME SourceDirectoryRefreshComplete
       PROVE  TypeInv'
  <2>1. Mapped \subseteq Subs
    BY <1>a DEF Mapped, ItemTypes
  <2>2. upa' \in [Subs -> Items]
    <3>1. \A s \in Subs : Opened(s) \in Items
      BY <1>a, SetField DEF Opened, ItemTypes, SubState
    <3> QED
      BY <1>a, <1>31, <3>1 DEF SourceDirectoryRefreshComplete, ItemTypes
  <2>3. requestQueue' \in Seq(Requests)
    <3>1. PICK order \in Orders(Mapped) :
             Enqueue([i \in DOMAIN order |-> Request("open", order[i])])
      BY <1>31 DEF SourceDirectoryRefreshComplete
    <3>2. order \in Seq(Subs)
      BY <2>1, <3>1, OrderIsSeq
    <3>3. \A i \in DOMAIN order : Request("open", order[i]) \in Requests
      BY <3>2 DEF Request, Requests
    <3>4. [i \in DOMAIN order |-> Request("open", order[i])] \in Seq(Requests)
      BY <3>2, <3>3
    <3> QED
      BY <1>a, <3>1, <3>4 DEF Enqueue, ThreadTypes
  <2>4. ItemTypes'
    BY <1>a, <1>31, <2>2
    DEF SourceDirectoryRefreshComplete, ItemTypes, idVars, countVars,
        SM!TypeOK
  <2>5. ThreadTypes'
    BY <1>a, <1>31, <2>3
    DEF SourceDirectoryRefreshComplete, ThreadTypes, deliveryVars
  <2>6. RmdsTypes'
    BY <1>a, <1>31, WireTyped DEF SourceDirectoryRefreshComplete, RmdsTypes
  <2>7. Definite'
    BY <1>a, <1>31, WireTyped
    DEF SourceDirectoryRefreshComplete, Definite, deliveryVars
  <2> QED
    BY <1>a, <1>b, <1>31, <2>4, <2>5, <2>6, <2>7, ClientFrame
    DEF SourceDirectoryRefreshComplete, deliveryVars
<1>32. ASSUME RmdsStep
       PROVE  TypeInv'
  <2>1. PICK id \in StreamIds, class \in Market,
             st \in StreamStates \cup {"ok"}, next \in Streams :
           Send(id, class, st, next)
    <3>1. ASSUME NEW id \in StreamIds
          PROVE  upstream[id] \in Streams
      BY <1>a DEF RmdsTypes, Streams
    <3>2. ASSUME NEW id \in StreamIds, NEW class \in {"refresh", "status"},
                 NEW st \in StreamStates, Answer(id, class, st)
          PROVE  \E next \in Streams : Send(id, class, st, next)
      <4>1. [upstream[id] EXCEPT !.owed = @ - 1] \in Streams
        BY <3>1, <3>2 DEF Answer, Streams
      <4> QED
        BY <3>2, <4>1 DEF Answer
    <3> QED
      BY <1>32, <3>1, <3>2
      DEF RmdsStep, RmdsAnswers, Update, ChangeState, Market
  <2>2. PICK r \in Responses : /\ r.streamId \in StreamIds
                               /\ wire' = Append(wire, r)
    <3>1. upstream[id].sub \in Subs \cup {None}
      BY <1>a, <2>1 DEF RmdsTypes
    <3>2. /\ Response(class, st, id, upstream[id].sub) \in Responses
          /\ Response(class, st, id, upstream[id].sub).streamId = id
      BY <2>1, <3>1 DEF Response, Responses, Market
    <3> QED
      BY <2>1, <3>2 DEF Send
  <2>3. upstream' \in [StreamIds -> Streams]
    <3>1. NoStream \in Streams
      BY DEF NoStream, Streams
    <3> QED
      BY <1>a, <2>1, <3>1 DEF Send, RmdsTypes, Streams
  <2>4. RmdsTypes'
    BY <1>a, <2>2, <2>3 DEF RmdsTypes, Streams
  <2>5. Definite'
    <3>1. \A i \in 1 .. Len(wire') :
             wire'[i].class \in Market => wire'[i].streamId \in StreamIds
      BY <1>a, <2>2 DEF Definite, RmdsTypes
    <3> QED
      BY <1>a, <2>1, <3>1 DEF Send, Definite, deliveryVars
  <2> QED
    BY <1>a, <1>b, <2>1, <2>4, <2>5, ClientFrame, ItemFrame, ThreadFrame
    DEF Send, deliveryVars
<1>33. CASE UNCHANGED vars
  BY <1>a, <1>b, <1>33, ClientFrame, ItemFrame, ThreadFrame, RmdsFrame,
     DefiniteFrame
  DEF vars, deliveryVars, rmdsVars
<1>34. ASSUME NEW l \in Listeners, ClientStep(l)
       PROVE  TypeInv'
  BY <1>3, <1>4, <1>5, <1>6, <1>7, <1>8, <1>9, <1>34 DEF ClientStep
<1>35. ASSUME ConsumerStep
       PROVE  TypeInv'
  <2>1. ASSUME DispatchEvent
        PROVE  TypeInv'
    BY <1>14, <1>15, <1>16, <1>17, <1>18, <2>1 DEF DispatchEvent
  <2> QED
    BY <1>10, <1>11, <1>12, <1>13, <1>19, <1>24, <1>25, <1>26, <1>27,
       <1>29, <1>30, <1>31, <1>35, <2>1
    DEF ConsumerStep
<1> QED
  BY <1>1, <1>2, <1>28, <1>32, <1>33, <1>34, <1>35 DEF Next

LEMMA TypeInit == Init => TypeInv
<1> SUFFICES ASSUME Init PROVE TypeInv
  OBVIOUS
<1>1. ClientTypes
  BY DEF Init, ClientTypes
<1>2. ItemTypes
  <2>1. Unborn \in Items
    BY DEF Unborn, Items, SubState
  <2>2. SM!TypeOK
    BY SubscriberAssumption DEF Init, SM!Init, SM!TypeOK, SM!Indices
  <2> QED
    BY <2>1, <2>2, SubscriberAssumption DEF Init, ItemTypes
<1>3. ThreadTypes
  BY SubscriberAssumption
  DEF Init, ThreadTypes, NoAdd, NoMsg, NoCall, NoNotice, NoticeTypes, SubState
<1>4. RmdsTypes
  BY DEF Init, RmdsTypes, NoStream
<1>5. Definite
  BY DEF Init, Definite, NoAdd
<1> QED
  BY <1>1, <1>2, <1>3, <1>4, <1>5 DEF TypeInv, TypeOK

(* The variables of the subscribing half keep their types, and a handler   *)
(* in progress has its item, for any number of listeners, symbols, stream  *)
(* ids and lost connections.                                               *)
THEOREM Typing == Spec => []TypeOK
<1>1. Init => TypeInv
  BY TypeInit
<1>2. TypeInv /\ [Next]_vars => TypeInv'
  BY TypeStep
<1>3. TypeInv => TypeOK
  BY DEF TypeInv
<1> QED
  BY <1>1, <1>2, <1>3, PTL DEF Spec

-----------------------------------------------------------------------------
(* The throttle.                                                           *)

\* A step adds at most one pending item, and only while there is a place.
PendingGrows ==
  \/ pendingItems' \subseteq pendingItems
  \/ /\ Cardinality(pendingItems) < MaxPending
     /\ \E s \in Subs : pendingItems' = pendingItems \cup {s}

LEMMA PendingStep ==
  ASSUME TypeInv, [Next]_vars
  PROVE  PendingGrows
<1>1. ASSUME NEW l \in Listeners,
             AddSubscription(l) \/ Mute(l) \/ ClientStep(l)
      PROVE  pendingItems' = pendingItems
  BY <1>1
  DEF AddSubscription, Mute, ClientStep, FindToDestroy,
      QueueSubscriptionDestroy, FindToRemove, RemoveListener, CountListeners,
      RemoveSubscription, OnDestroy, countVars
<1>2. ASSUME NEW s \in Subs, SendOpenRequest(s),
             Cardinality(pendingItems) < MaxPending
      PROVE  PendingGrows
  BY <1>2 DEF SendOpenRequest, PendingGrows
<1>3. ASSUME OpenRequestCb \/ RefreshRequestCb
      PROVE  PendingGrows
  <2>1. PICK op \in {"open", "refresh"} : CanDispatch(op) /\ Dequeue
    BY <1>3 DEF OpenRequestCb, RefreshRequestCb
  <2>2. Head(requestQueue).who \in Subs
    BY <2>1, HeadTyped DEF TypeInv, TypeOK, Queued
  <2>3. SendOpenRequest(Head(requestQueue).who) \/ Ignored
    BY <1>3 DEF OpenRequestCb, RefreshRequestCb
  <2> QED
    BY <1>2, <2>1, <2>2, <2>3 DEF CanDispatch, Ignored, PendingGrows
<1>4. ASSUME CloseRequestCb
      PROVE  pendingItems' \subseteq pendingItems
  BY <1>4 DEF CloseRequestCb
<1>5. ASSUME DispatchEvent
      PROVE  PendingGrows
  BY <1>3, <1>4, <1>5
  DEF DispatchEvent, DestroyRequestCb, SessionRequestCb, countVars,
      PendingGrows
<1>6. ASSUME ReadMarketData \/ ProcessMarketPriceResponse
      PROVE  pendingItems' \subseteq pendingItems
  BY <1>6
  DEF ReadMarketData, ProcessMarketPriceResponse, ProcessStatus,
      ProcessRefresh, ProcessUpdate
<1>7. ASSUME ConsumerStep
      PROVE  PendingGrows
  BY <1>5, <1>6, <1>7
  DEF ConsumerStep, ProcessPendingSubscription, AddListener, RequestImage,
      Open, TakeListeners, OnMessage, CallbackReturns, Reconnect,
      LoginResponse, SourceDirectoryRefreshComplete, countVars, PendingGrows
<1>8. ASSUME LoseConnection \/ RmdsStep \/ UNCHANGED vars
      PROVE  pendingItems' = pendingItems
  BY <1>8
  DEF LoseConnection, RmdsStep, RmdsAnswers, Answer, Update, ChangeState, Send,
      vars, countVars
<1> QED
  BY <1>1, <1>7, <1>8 DEF Next, PendingGrows

(* However many requests wait and whatever becomes of them, the items      *)
(* counted as pending never exceed maxPendingOpens_ (UPAConsumer.cpp       *)
(* PumpQueueEvents): a place is taken only while one is free.              *)
THEOREM Throttle == Spec => []ThrottleBound
<1> DEFINE Throttled == TypeInv /\ ThrottleBound
<1>1. Init => Throttled
  <2> SUFFICES ASSUME Init PROVE Throttled
    OBVIOUS
  <2>1. Cardinality(pendingItems) = 0
    BY FS_EmptySet DEF Init
  <2> QED
    BY <2>1, TypeInit, SubscriberAssumption DEF ThrottleBound
<1>2. Throttled /\ [Next]_vars => Throttled'
  <2> SUFFICES ASSUME Throttled, [Next]_vars PROVE Throttled'
    OBVIOUS
  <2>1. TypeInv' /\ PendingGrows
    BY TypeStep, PendingStep
  <2>2. IsFiniteSet(pendingItems) /\ Cardinality(pendingItems) \in Nat
    <3>1. pendingItems \subseteq Subs
      BY DEF TypeInv, TypeOK, ItemTypes
    <3> QED
      BY <3>1, SubscriberAssumption, FS_Subset, FS_CardinalityType
  <2>3. CASE pendingItems' \subseteq pendingItems
    <3>1. /\ Cardinality(pendingItems') <= Cardinality(pendingItems)
          /\ Cardinality(pendingItems') \in Nat
      BY <2>2, <2>3, FS_Subset, FS_CardinalityType
    <3> QED
      BY <2>1, <2>2, <3>1, SubscriberAssumption DEF ThrottleBound
  <2>4. ASSUME Cardinality(pendingItems) < MaxPending, NEW s \in Subs,
               pendingItems' = pendingItems \cup {s}
        PROVE  Throttled'
    <3>1. \/ Cardinality(pendingItems') = Cardinality(pendingItems)
          \/ Cardinality(pendingItems') = Cardinality(pendingItems) + 1
      BY <2>2, <2>4, FS_AddElement
    <3> QED
      BY <2>1, <2>2, <2>4, <3>1, SubscriberAssumption DEF ThrottleBound
  <2> QED
    BY <2>1, <2>3, <2>4 DEF PendingGrows
<1>3. Throttled => ThrottleBound
  OBVIOUS
<1> HIDE DEF Throttled
<1> QED
  BY <1>1, <1>2, <1>3, PTL DEF Spec

-----------------------------------------------------------------------------
(* Arithmetic modulo the width of a counter.                               *)

(* Division with remainder. *)
LEMMA DivMod ==
  ASSUME NEW w \in Nat \ {0}, NEW a \in Int
  PROVE  /\ a \div w \in Int /\ a % w \in 0 .. w - 1
         /\ a = w * (a \div w) + (a % w)
  OBVIOUS

(* Multiples of w are at least w apart, *)
LEMMA Apart ==
  ASSUME NEW w \in Nat \ {0}, NEW x \in Int, x >= 1
  PROVE w * x >= w
  OBVIOUS

(* so there is one remainder. *)
LEMMA ModUnique ==
  ASSUME NEW w \in Nat \ {0}, NEW q \in Int, NEW r \in 0 .. w - 1, NEW a \in Int,
         a = w * q + r
  PROVE  a % w = r
<1> PICK d \in Int, m \in 0 .. w - 1 : d = a \div w /\ m = a % w
  BY DivMod
<1>1. w * d + m = w * q + r
  BY DivMod
<1>2. w * (d - q) = r - m
  BY <1>1
<1>3. CASE d - q >= 1
  BY <1>2, <1>3, Apart
<1>4. CASE q - d >= 1
  <2>1. w * (q - d) = m - r
    BY <1>1
  <2> QED
  BY <2>1, <1>4, Apart
<1>5. CASE d = q
  BY <1>1, <1>5
<1> QED BY <1>3, <1>4, <1>5

(* Adding up first or reducing first makes no difference. *)
LEMMA ModSum ==
  ASSUME NEW w \in Nat \ {0}, NEW a \in Int, NEW i \in {1, -1}
  PROVE  ((a % w) + i) % w = (a + i) % w
<1> PICK d \in Int, m \in 0 .. w - 1 : d = a \div w /\ m = a % w
  BY DivMod
<1>1. a = w * d + m
  BY DivMod
<1>2. PICK sum \in Int, next \in Int : sum = a + i /\ next = m + i
  OBVIOUS
<1>3. ASSUME NEW q \in {-1, 0, 1}, NEW r \in 0 .. w - 1, next = w * q + r
      PROVE  next % w = sum % w
  <2>1. next % w = r
    BY <1>3, ModUnique
  <2>2. PICK p \in Int : p = d + q
    OBVIOUS
  <2>3. sum = w * p + r
    BY <1>1, <1>2, <1>3, <2>2
  <2>4. sum % w = r
    BY <2>3, ModUnique
  <2> QED
    BY <2>1, <2>4
<1>4. CASE next \in 0 .. w - 1
  BY <1>2, <1>3, <1>4
<1>5. CASE next = w
  <2>1. w = w * 1 + 0 /\ 0 \in 0 .. w - 1
    OBVIOUS
  <2> QED
    BY <1>2, <1>3, <1>5, <2>1
<1>6. CASE next = -1
  <2>1. -1 = w * (-1) + (w - 1) /\ w - 1 \in 0 .. w - 1
    OBVIOUS
  <2> QED
    BY <1>2, <1>3, <1>6, <2>1
<1> QED
  BY <1>2, <1>4, <1>5, <1>6

-----------------------------------------------------------------------------
(* The count of pending closes.                                            *)

\* One request closes an item.
IsClose(r) == r.op = "close"
ClosesIn(q) == {i \in 1 .. Len(q) : IsClose(q[i])}

LEMMA FinitelyManyCloses ==
  ASSUME NEW q \in Seq(Requests)
  PROVE  /\ IsFiniteSet(ClosesIn(q))
         /\ Cardinality(ClosesIn(q)) \in Nat
<1>1. Len(q) \in Nat
  OBVIOUS
<1>2. IsFiniteSet(1 .. Len(q))
  BY <1>1, FS_Interval
<1> QED
  BY <1>2, FS_Subset, FS_CardinalityType DEF ClosesIn

(* A request that joins the queue counts if it closes an item, *)
LEMMA ClosesAppended ==
  ASSUME NEW q \in Seq(Requests), NEW r \in Requests
  PROVE  Cardinality(ClosesIn(q \o <<r>>)) =
           IF IsClose(r) THEN Cardinality(ClosesIn(q)) + 1
                         ELSE Cardinality(ClosesIn(q))
<1>1. PICK n \in Nat : n = Len(q)
  OBVIOUS
<1>2. PICK next : next = q \o <<r>>
  OBVIOUS
<1>3. /\ Len(next) = n + 1
      /\ \A i \in 1 .. n : next[i] = q[i]
      /\ next[n + 1] = r
  BY <1>1, <1>2
<1>4. ClosesIn(next) =
        IF IsClose(r) THEN ClosesIn(q) \cup {n + 1} ELSE ClosesIn(q)
  BY <1>1, <1>3 DEF ClosesIn
<1>5. n + 1 \notin ClosesIn(q)
  BY <1>1 DEF ClosesIn
<1> QED
  BY <1>2, <1>4, <1>5, FinitelyManyCloses, FS_AddElement

(* and so does one that leaves it. *)
LEMMA ClosesTaken ==
  ASSUME NEW q \in Seq(Requests), q # <<>>
  PROVE  Cardinality(ClosesIn(Tail(q))) =
           IF IsClose(Head(q)) THEN Cardinality(ClosesIn(q)) - 1
                               ELSE Cardinality(ClosesIn(q))
<1>1. PICK n \in Nat : n = Len(q)
  OBVIOUS
<1>2. PICK rest \in Seq(Requests) : rest = Tail(q)
  <2>1. Tail(q) \in Seq(Requests)
    OBVIOUS
  <2> QED
    BY <2>1, Zenon
<1>3. /\ n > 0 /\ Len(rest) = n - 1 /\ Head(q) = q[1]
      /\ \A i \in 1 .. n - 1 : rest[i] = q[i + 1]
  BY <1>1, <1>2
<1> DEFINE later == ClosesIn(q) \ {1}
           f == [i \in ClosesIn(rest) |-> i + 1]
<1>4. f \in Bijection(ClosesIn(rest), later)
  <2>1. ASSUME NEW i \in ClosesIn(rest)
        PROVE  i + 1 \in later
    BY <1>1, <1>3, <2>1 DEF ClosesIn
  <2>2. ASSUME NEW j \in later
        PROVE  j - 1 \in ClosesIn(rest) /\ (j - 1) + 1 = j
    <3>1. j \in 2 .. n /\ IsClose(q[j])
      BY <1>1, <2>2 DEF ClosesIn
    <3>2. j - 1 \in 1 .. n - 1 /\ (j - 1) + 1 = j
      BY <1>1, <3>1
    <3>3. rest[j - 1] = q[j]
      BY <1>3, <3>2
    <3> QED
      BY <1>3, <3>1, <3>2, <3>3 DEF ClosesIn
  <2>3. \A i, j \in ClosesIn(rest) : i + 1 = j + 1 => i = j
    BY DEF ClosesIn
  <2> HIDE DEF later
  <2>4. f \in Injection(ClosesIn(rest), later)
    BY <2>1, <2>3 DEF Injection, IsInjective
  <2>5. f \in Surjection(ClosesIn(rest), later)
    BY <2>1, <2>2 DEF Surjection
  <2> QED
    BY <2>4, <2>5 DEF Bijection
<1>5. Cardinality(later) = Cardinality(ClosesIn(rest))
  BY <1>4, FinitelyManyCloses, FS_Bijection DEF ExistsBijection
<1>6. 1 \in ClosesIn(q) <=> IsClose(Head(q))
  BY <1>1, <1>3 DEF ClosesIn
<1> QED
  BY <1>2, <1>5, <1>6, FinitelyManyCloses, FS_RemoveElement

(* Requests that close nothing leave the count as it is. *)
LEMMA OthersAppended ==
  ASSUME NEW q \in Seq(Requests), NEW more \in Seq(Requests),
         \A i \in 1 .. Len(more) : ~IsClose(more[i])
  PROVE  ClosesIn(q \o more) = ClosesIn(q)
<1>1. PICK n \in Nat, m \in Nat : n = Len(q) /\ m = Len(more)
  OBVIOUS
<1>2. PICK next : next = q \o more
  OBVIOUS
<1>3. /\ Len(next) = n + m
      /\ \A i \in 1 .. n : next[i] = q[i]
      /\ \A i \in n + 1 .. n + m : next[i] = more[i - n]
  BY <1>1, <1>2
<1>4. \A i \in n + 1 .. n + m : ~IsClose(next[i])
  BY <1>1, <1>3
<1> QED
  BY <1>1, <1>2, <1>3, <1>4 DEF ClosesIn

\* What a step does to the queue and to the count: a close joins, a close is
\* dispatched, or others join or are dispatched.
CloseJoins ==
  /\ \E s \in Subs : requestQueue' = requestQueue \o <<Request("close", s)>>
  /\ pendingCloses' = Inc(pendingCloses)
CloseDispatched ==
  /\ requestQueue # <<>> /\ IsClose(Head(requestQueue))
  /\ requestQueue' = Tail(requestQueue)
  /\ pendingCloses' = Dec(pendingCloses)
OthersJoin ==
  /\ \E more \in Seq(Requests) :
       /\ \A i \in 1 .. Len(more) : ~IsClose(more[i])
       /\ requestQueue' = requestQueue \o more
  /\ pendingCloses' = pendingCloses
OtherDispatched ==
  /\ requestQueue # <<>> /\ ~IsClose(Head(requestQueue))
  /\ requestQueue' = Tail(requestQueue)
  /\ pendingCloses' = pendingCloses
QueueStep == \/ CloseJoins \/ CloseDispatched \/ OthersJoin
             \/ OtherDispatched \/ UNCHANGED <<requestQueue, pendingCloses>>

(* Putting one request on the queue that closes nothing. *)
LEMMA OneJoins ==
  ASSUME NEW r \in Requests, ~IsClose(r), Enqueue(<<r>>),
         pendingCloses' = pendingCloses
  PROVE  QueueStep
<1>1. PICK more : more = <<r>>
  OBVIOUS
<1>2. more \in Seq(Requests) /\ Len(more) = 1 /\ more[1] = r
  BY <1>1
<1>3. \A i \in 1 .. Len(more) : ~IsClose(more[i])
  BY <1>2
<1>4. requestQueue' = requestQueue \o more
  BY <1>1 DEF Enqueue
<1>5. OthersJoin
  BY <1>2, <1>3, <1>4 DEF OthersJoin
<1> QED
  BY <1>5 DEF QueueStep

LEMMA CloseRecorded ==
  ASSUME NEW s \in Subs, Close(s)
  PROVE  QueueStep
BY DEF Close, Enqueue, QueueStep, CloseJoins

(* The steps of the client's threads. *)
LEMMA ClientQueueStep ==
  ASSUME TypeInv, NEW l \in Listeners,
         AddSubscription(l) \/ Mute(l) \/ ClientStep(l)
  PROVE  QueueStep
<1>1. CASE QueueSubscriptionDestroy(l)
  <2>1. /\ Request("destroy", l) \in Requests
        /\ ~IsClose(Request("destroy", l))
    BY DEF Request, Requests, IsClose
  <2>2. pendingCloses' = pendingCloses
    BY <1>1 DEF QueueSubscriptionDestroy, countVars
  <2>3. QueueDestroy(l) \/ UNCHANGED <<requestQueue, clientQueue>>
    BY <1>1 DEF QueueSubscriptionDestroy
  <2> QED
    BY <2>1, <2>2, <2>3, OneJoins DEF QueueDestroy, QueueStep
<1>2. CASE RemoveSubscription(l)
  <2>1. CASE subscriptions[SymbolOf[l]] # None
    <3>1. subscriptions[SymbolOf[l]] \in Subs
      BY <2>1, SubscriberAssumption DEF TypeInv, TypeOK, ItemTypes
    <3>2. Close(subscriptions[SymbolOf[l]])
      BY <1>2, <2>1 DEF RemoveSubscription
    <3> QED
      BY <3>1, <3>2, CloseRecorded
  <2>2. CASE subscriptions[SymbolOf[l]] = None
    BY <1>2, <2>2 DEF RemoveSubscription, QueueStep
  <2> QED
    BY <2>1, <2>2
<1>3. CASE \/ AddSubscription(l) \/ Mute(l) \/ FindToDestroy(l)
           \/ FindToRemove(l) \/ RemoveListener(l) \/ CountListeners(l)
           \/ OnDestroy(l)
  BY <1>3
  DEF AddSubscription, Mute, FindToDestroy, FindToRemove, RemoveListener,
      CountListeners, OnDestroy, countVars, QueueStep
<1> QED
  BY <1>1, <1>2, <1>3 DEF ClientStep

(* A dispatch of anything but a close. *)
LEMMA DispatchQueueStep ==
  ASSUME TypeInv, DispatchEvent
  PROVE  QueueStep
<1>1. CASE CloseRequestCb
  <2>1. /\ requestQueue # <<>> /\ IsClose(Head(requestQueue))
        /\ requestQueue' = Tail(requestQueue)
        /\ pendingCloses' = Dec(pendingCloses)
    BY <1>1 DEF CloseRequestCb, CanDispatch, Dequeue, IsClose
  <2> QED
    BY <2>1 DEF QueueStep, CloseDispatched
<1>2. ASSUME NEW op \in {"open", "refresh", "destroy", "login", "directory"},
             CanDispatch(op), Dequeue, pendingCloses' = pendingCloses
      PROVE  QueueStep
  <2>1. Head(requestQueue).op # "close"
    BY <1>2 DEF CanDispatch
  <2> QED
    BY <1>2, <2>1 DEF CanDispatch, Dequeue, IsClose, QueueStep, OtherDispatched
<1>3. CASE OpenRequestCb \/ RefreshRequestCb
  BY <1>2, <1>3 DEF OpenRequestCb, RefreshRequestCb
<1>4. CASE DestroyRequestCb
  BY <1>2, <1>4 DEF DestroyRequestCb, countVars
<1>5. CASE SessionRequestCb("login") \/ SessionRequestCb("directory")
  BY <1>2, <1>5 DEF SessionRequestCb, countVars
<1> QED
  BY <1>1, <1>3, <1>4, <1>5 DEF DispatchEvent

(* After a recovery an open is queued for every item of the map. *)
LEMMA ReopenQueueStep ==
  ASSUME TypeInv, SourceDirectoryRefreshComplete
  PROVE  QueueStep
<1>1. PICK order \in Orders(Mapped) :
        Enqueue([i \in DOMAIN order |-> Request("open", order[i])])
  BY DEF SourceDirectoryRefreshComplete
<1>2. PICK more : more = [i \in DOMAIN order |-> Request("open", order[i])]
  OBVIOUS
<1>3. order \in Seq(Subs)
  <2>1. Mapped \subseteq Subs
    BY DEF Mapped, TypeInv, TypeOK, ItemTypes
  <2> QED
    BY <2>1, OrderIsSeq
<1>4. /\ more \in Seq(Requests)
      /\ \A i \in 1 .. Len(more) : ~IsClose(more[i])
  <2>1. \A i \in DOMAIN order : /\ Request("open", order[i]) \in Requests
                                /\ ~IsClose(Request("open", order[i]))
    BY <1>3 DEF Request, Requests, IsClose
  <2>2. more \in Seq(Requests) /\ Len(more) = Len(order)
    BY <1>2, <1>3, <2>1
  <2>3. \A i \in 1 .. Len(order) : more[i] = Request("open", order[i])
    BY <1>2, <1>3
  <2> QED
    BY <1>3, <2>1, <2>2, <2>3
<1>5. requestQueue' = requestQueue \o more /\ pendingCloses' = pendingCloses
  BY <1>1, <1>2 DEF Enqueue, SourceDirectoryRefreshComplete, countVars
<1>6. OthersJoin
  BY <1>4, <1>5 DEF OthersJoin
<1> QED
  BY <1>6 DEF QueueStep

LEMMA CloseStep ==
  ASSUME TypeInv, [Next]_vars
  PROVE  QueueStep
<1>1. ASSUME adding.step # "none"
      PROVE  adding.sub \in Subs
  BY <1>1 DEF TypeInv, Definite
<1>2. CASE RequestImage
  <2>1. /\ Request("refresh", adding.sub) \in Requests
        /\ ~IsClose(Request("refresh", adding.sub))
    BY <1>1, <1>2 DEF RequestImage, Request, Requests, IsClose
  <2>2. pendingCloses' = pendingCloses
    BY <1>2 DEF RequestImage, countVars
  <2>3. \/ Enqueue(<<Request("refresh", adding.sub)>>)
        \/ UNCHANGED requestQueue
    BY <1>2 DEF RequestImage
  <2> QED
    BY <2>1, <2>2, <2>3, OneJoins DEF QueueStep
<1>3. CASE Open
  <2>1. /\ Request("open", adding.sub) \in Requests
        /\ ~IsClose(Request("open", adding.sub))
    BY <1>1, <1>3 DEF Open, Request, Requests, IsClose
  <2>2. Enqueue(<<Request("open", adding.sub)>>)
        /\ pendingCloses' = pendingCloses
    BY <1>3 DEF Open, countVars
  <2> QED
    BY <2>1, <2>2, OneJoins
<1>4. CASE Reconnect
  <2>1. /\ Request("login", None) \in Requests
        /\ ~IsClose(Request("login", None))
    BY DEF Request, Requests, IsClose
  <2>2. Enqueue(<<Request("login", None)>>) /\ pendingCloses' = pendingCloses
    BY <1>4 DEF Reconnect, countVars
  <2> QED
    BY <2>1, <2>2, OneJoins
<1>5. CASE LoginResponse
  <2>1. /\ Request("directory", None) \in Requests
        /\ ~IsClose(Request("directory", None))
    BY DEF Request, Requests, IsClose
  <2>2. Enqueue(<<Request("directory", None)>>)
        /\ pendingCloses' = pendingCloses
    BY <1>5 DEF LoginResponse, countVars
  <2> QED
    BY <2>1, <2>2, OneJoins
<1>6. CASE ProcessPendingSubscription \/ AddListener \/ TakeListeners
           \/ CallbackReturns \/ ReadMarketData \/ ProcessMarketPriceResponse
           \/ \E l \in Listeners : OnMessage(l)
  <2>1. CASE ProcessPendingSubscription \/ AddListener \/ TakeListeners
    BY <2>1
    DEF ProcessPendingSubscription, AddListener, TakeListeners, countVars, QueueStep
  <2>2. CASE CallbackReturns \/ \E l \in Listeners : OnMessage(l)
    BY <2>2 DEF CallbackReturns, OnMessage, countVars, QueueStep
  <2>3. CASE ReadMarketData
    BY <2>3 DEF ReadMarketData, countVars, QueueStep
  <2>4. CASE ProcessMarketPriceResponse
    <3>1. HandlerUnchanged
      BY <2>4
      DEF ProcessMarketPriceResponse, ProcessStatus, ProcessRefresh, ProcessUpdate
    <3> QED
      BY <3>1 DEF HandlerUnchanged, QueueStep
  <2> QED
    BY <1>6, <2>1, <2>2, <2>3, <2>4
<1>7. CASE ConsumerStep
  BY <1>2, <1>3, <1>4, <1>5, <1>6, <1>7, DispatchQueueStep, ReopenQueueStep
  DEF ConsumerStep
<1>8. CASE LoseConnection \/ RmdsStep \/ UNCHANGED vars
  BY <1>8
  DEF LoseConnection, RmdsStep, RmdsAnswers, Answer, Update, ChangeState, Send,
      vars, countVars, QueueStep
<1> QED
  BY <1>7, <1>8, ClientQueueStep DEF Next

(* The pending closes reported to the statistics logger are the close      *)
(* requests on the queue, modulo the width of the counter, whichever       *)
(* threads queued them (QueueCloseRequest, SendCloseRequest).              *)
THEOREM ClosesCounted == Spec => []PendingClosesCounted
<1> DEFINE Counted ==
             TypeInv /\ pendingCloses =
                          Cardinality(ClosesIn(requestQueue)) % CounterWidth
<1>1. Init => Counted
  <2> SUFFICES ASSUME Init PROVE Counted
    OBVIOUS
  <2>1. ClosesIn(<<>>) = {}
    BY DEF ClosesIn
  <2>2. Cardinality(ClosesIn(requestQueue)) = 0
    BY <2>1, FS_EmptySet DEF Init
  <2>3. 0 % CounterWidth = 0
    BY SubscriberAssumption
  <2> QED
    BY <2>2, <2>3, TypeInit DEF Init
<1>2. Counted /\ [Next]_vars => Counted'
  <2> SUFFICES ASSUME Counted, [Next]_vars PROVE Counted'
    OBVIOUS
  <2>1. TypeInv' /\ QueueStep
    BY TypeStep, CloseStep
  <2>2. PICK q \in Seq(Requests) : q = requestQueue
    BY DEF TypeInv, TypeOK, ThreadTypes
  <2>3. PICK n \in Nat : n = Cardinality(ClosesIn(q))
    BY FinitelyManyCloses
  <2>4. PICK w \in Nat \ {0} : w = CounterWidth
    BY SubscriberAssumption
  <2>5. pendingCloses = n % w
    BY <2>2, <2>3, <2>4
  <2>6. CASE CloseJoins
    <3>1. PICK r \in Requests : IsClose(r) /\ requestQueue' = q \o <<r>>
      BY <2>2, <2>6 DEF CloseJoins, IsClose, Request, Requests
    <3>2. Cardinality(ClosesIn(requestQueue')) = n + 1
      BY <2>3, <3>1, ClosesAppended
    <3>3. pendingCloses' = ((n % w) + 1) % w
      BY <2>4, <2>5, <2>6 DEF CloseJoins, Inc
    <3>4. ((n % w) + 1) % w = (n + 1) % w
      <4>1. PICK i \in {1, -1} : i = 1
        OBVIOUS
      <4>2. n \in Int
        OBVIOUS
      <4>3. ((n % w) + i) % w = (n + i) % w
        BY <4>2, ModSum
      <4> QED
        BY <4>1, <4>3
    <3>5. pendingCloses' = Cardinality(ClosesIn(requestQueue')) % CounterWidth
      BY <2>4, <3>2, <3>3, <3>4
    <3> QED
      BY <2>1, <3>5
  <2>7. CASE CloseDispatched
    <3>1. Cardinality(ClosesIn(requestQueue')) = n - 1
      BY <2>2, <2>3, <2>7, ClosesTaken DEF CloseDispatched
    <3>2. pendingCloses' = ((n % w) + (-1)) % w
      BY <2>4, <2>5, <2>7 DEF CloseDispatched, Dec
    <3>3. ((n % w) + (-1)) % w = (n + (-1)) % w
      <4>1. PICK i \in {1, -1} : i = -1
        OBVIOUS
      <4>2. n \in Int
        OBVIOUS
      <4>3. ((n % w) + i) % w = (n + i) % w
        BY <4>2, ModSum
      <4> QED
        BY <4>1, <4>3
    <3>4. pendingCloses' = Cardinality(ClosesIn(requestQueue')) % CounterWidth
      <4>1. n + (-1) = n - 1
        OBVIOUS
      <4> QED
        BY <2>4, <3>1, <3>2, <3>3, <4>1
    <3> QED
      BY <2>1, <3>4
  <2>8. CASE OthersJoin
    BY <2>1, <2>2, <2>8, OthersAppended DEF OthersJoin
  <2>9. CASE OtherDispatched
    BY <2>1, <2>2, <2>9, ClosesTaken DEF OtherDispatched
  <2>10. CASE UNCHANGED <<requestQueue, pendingCloses>>
    BY <2>1, <2>10
  <2> QED
    BY <2>1, <2>6, <2>7, <2>8, <2>9, <2>10 DEF QueueStep
<1>3. Counted => PendingClosesCounted
  <2> SUFFICES ASSUME Counted PROVE PendingClosesCounted
    OBVIOUS
  <2>1. requestQueue \in Seq(Requests)
    BY DEF TypeInv, TypeOK, ThreadTypes
  <2>2. CloseRequests = ClosesIn(requestQueue)
    BY <2>1 DEF CloseRequests, ClosesIn, IsClose
  <2> QED
    BY <2>2 DEF PendingClosesCounted
<1> HIDE DEF Counted
<1> QED
  BY <1>1, <1>2, <1>3, PTL DEF Spec

-----------------------------------------------------------------------------
(* Items and stream ids belong together.                                   *)

SMP == INSTANCE StreamManagerProofs WITH NoItem <- None

-----------------------------------------------------------------------------
(* The invariant.                                                          *)

\* The requests of a queue that are about the stream of an item.
AboutItem == {"open", "refresh", "close"}

\* The source knows an item under the symbol it was created for, and an item
\* that was never created has no stream and nobody who works on it.
Named ==
  /\ \A sym \in Symbols :
       subscriptions[sym] # None => upa[subscriptions[sym]].symbol = sym
  /\ \A s \in Subs : upa[s].symbol = None => upa[s].streamId = 0
  /\ adding.step # "none" => upa[adding.sub].symbol # None
  /\ \A i \in 1 .. Len(requestQueue) :
       requestQueue[i].op \in AboutItem =>
          upa[requestQueue[i].who].symbol # None

\* An item is closed once, after the source has forgotten it.
ClosedOnce ==
  /\ \A i \in 1 .. Len(requestQueue) :
       requestQueue[i].op = "close" =>
          \A sym \in Symbols : subscriptions[sym] # requestQueue[i].who
  /\ \A i, j \in 1 .. Len(requestQueue) :
       /\ requestQueue[i].op = "close" /\ requestQueue[j].op = "close"
       /\ requestQueue[i].who = requestQueue[j].who
       => i = j

\* s is known to its source, or its close is still to be dispatched.
InUse(s) ==
  \/ \E sym \in Symbols : subscriptions[sym] = s
  \/ \E i \in 1 .. Len(requestQueue) :
       requestQueue[i].op = "close" /\ requestQueue[i].who = s

Owners ==
  /\ \A i \in SM!Indices :
       itemArray[i] # None =>
          upa[itemArray[i]].streamId = SM!Index2StreamId(i)
  /\ \A s \in Subs :
       InUse(s) /\ upa[s].streamId # 0 => SM!GetItem(upa[s].streamId) = s

StreamInv ==
  TypeInv /\ SM!IdsPartitioned /\ Named /\ ClosedOnce /\ Owners

-----------------------------------------------------------------------------
(* Steps that neither map, close nor move a stream.                        *)

\* Items keep their names and streams, the source its items, the table its
\* ids, and who is being added remains the same.
Keeps ==
  /\ UNCHANGED <<idVars, subscriptions>>
  /\ \A s \in Subs : /\ upa'[s].symbol = upa[s].symbol
                     /\ upa'[s].streamId = upa[s].streamId
  /\ adding'.step # "none" => adding.step # "none" /\ adding'.sub = adding.sub

LEMMA Settled ==
  ASSUME StreamInv, TypeInv', Keeps, requestQueue' = requestQueue
  PROVE  StreamInv'
<1>1. SM!IdsPartitioned'
  BY DEF StreamInv, SM!IdsPartitioned, SM!IsListed, Keeps, idVars
<1>2. /\ \A sym \in Symbols : subscriptions[sym] \in Subs \cup {None}
      /\ adding.step # "none" => adding.sub \in Subs
      /\ \A i \in 1 .. Len(requestQueue) :
           requestQueue[i].op \in AboutItem => requestQueue[i].who \in Subs
      /\ \A i \in SM!Indices : itemArray[i] \in Subs \cup {None}
  <2>1. \A i \in 1 .. Len(requestQueue) : requestQueue[i] \in Requests
    BY DEF StreamInv, TypeInv, TypeOK, ThreadTypes
  <2> QED
    BY <2>1
    DEF StreamInv, TypeInv, TypeOK, ItemTypes, Definite, Requests, AboutItem,
        SM!TypeOK
<1>3. Named'
  BY <1>2, SubscriberAssumption DEF StreamInv, Named, Keeps
<1>4. ClosedOnce'
  BY DEF StreamInv, ClosedOnce, Keeps
<1>5. Owners'
  BY <1>2 DEF StreamInv, Owners, InUse, Keeps, SM!GetItem, idVars
<1> QED
  BY <1>1, <1>3, <1>4, <1>5 DEF StreamInv

\* Requests that close nothing and are about items that exist.
Plain(q) ==
  /\ q \in Seq(Requests)
  /\ \A i \in 1 .. Len(q) :
       /\ q[i].op # "close"
       /\ q[i].op \in AboutItem => upa[q[i].who].symbol # None

LEMMA QueueFacts ==
  ASSUME TypeInv
  PROVE  /\ requestQueue \in Seq(Requests)
         /\ Len(requestQueue) \in Nat
         /\ \A i \in 1 .. Len(requestQueue) :
              requestQueue[i].op \in AboutItem => requestQueue[i].who \in Subs
<1>1. requestQueue \in Seq(Requests)
  BY DEF TypeInv, TypeOK, ThreadTypes
<1>2. \A i \in 1 .. Len(requestQueue) : requestQueue[i] \in Requests
  BY <1>1
<1> QED
  BY <1>1, <1>2 DEF Requests, AboutItem

LEMMA Added ==
  ASSUME TypeInv, NEW q \in Seq(Requests), Enqueue(q)
  PROVE  /\ Len(requestQueue') = Len(requestQueue) + Len(q)
         /\ Len(requestQueue) \in Nat /\ Len(q) \in Nat
         /\ \A i \in 1 .. Len(requestQueue) : requestQueue'[i] = requestQueue[i]
         /\ \A i \in Len(requestQueue) + 1 .. Len(requestQueue) + Len(q) :
              requestQueue'[i] = q[i - Len(requestQueue)]
  BY QueueFacts DEF Enqueue

LEMMA Taken ==
  ASSUME TypeInv, requestQueue # <<>>, requestQueue' = Tail(requestQueue)
  PROVE  /\ Len(requestQueue') = Len(requestQueue) - 1
         /\ Len(requestQueue) \in Nat \ {0}
         /\ \A i \in 1 .. Len(requestQueue') :
              requestQueue'[i] = requestQueue[i + 1]
         /\ Head(requestQueue) = requestQueue[1]
  BY QueueFacts

(* Other requests join the queue. *)
LEMMA Asks ==
  ASSUME StreamInv, TypeInv', Keeps, NEW q, Plain(q), Enqueue(q)
  PROVE  StreamInv'
<1> DEFINE n == Len(requestQueue)
<1>1. /\ \A i \in 1 .. Len(requestQueue') :
           /\ i \in 1 .. n => requestQueue'[i] = requestQueue[i]
           /\ i \notin 1 .. n =>
                /\ requestQueue'[i].op # "close"
                /\ requestQueue'[i].op \in AboutItem =>
                     /\ requestQueue'[i].who \in Subs
                     /\ upa[requestQueue'[i].who].symbol # None
      /\ 1 .. n \subseteq 1 .. Len(requestQueue')
  <2>1. \A i \in 1 .. Len(q) :
           q[i].op \in AboutItem => q[i].who \in Subs
    <3>1. \A i \in 1 .. Len(q) : q[i] \in Requests
      BY DEF Plain
    <3> QED
      BY <3>1 DEF Requests, AboutItem
  <2>2. /\ Len(requestQueue') = n + Len(q) /\ n \in Nat /\ Len(q) \in Nat
        /\ \A i \in 1 .. n : requestQueue'[i] = requestQueue[i]
        /\ \A i \in n + 1 .. n + Len(q) : requestQueue'[i] = q[i - n]
    BY Added DEF Plain, StreamInv
  <2> HIDE DEF n
  <2>3. ASSUME NEW i \in 1 .. Len(requestQueue'), i \notin 1 .. n
        PROVE  i - n \in 1 .. Len(q) /\ requestQueue'[i] = q[i - n]
    BY <2>2, <2>3
  <2>4. 1 .. n \subseteq 1 .. Len(requestQueue')
    BY <2>2
  <2> QED
    BY <2>1, <2>2, <2>3, <2>4 DEF Plain
<1>2. SM!IdsPartitioned'
  BY DEF StreamInv, SM!IdsPartitioned, SM!IsListed, Keeps, idVars
<1>3. /\ \A sym \in Symbols : subscriptions[sym] \in Subs \cup {None}
      /\ adding.step # "none" => adding.sub \in Subs
      /\ \A i \in 1 .. n :
           requestQueue[i].op \in AboutItem => requestQueue[i].who \in Subs
      /\ \A i \in SM!Indices : itemArray[i] \in Subs \cup {None}
  BY QueueFacts
  DEF StreamInv, TypeInv, TypeOK, ItemTypes, Definite, SM!TypeOK
<1> HIDE DEF n
<1>4. Named'
  <2>1. \A i \in 1 .. Len(requestQueue') :
           requestQueue'[i].op \in AboutItem =>
              upa'[requestQueue'[i].who].symbol # None
    BY <1>1, <1>3 DEF StreamInv, Named, Keeps, n
  <2> QED
    BY <1>3, <2>1, SubscriberAssumption DEF StreamInv, Named, Keeps
<1>5. ClosedOnce'
  <2>1. subscriptions' = subscriptions /\ ClosedOnce
    BY DEF StreamInv, Keeps
  <2>2. ASSUME NEW i \in 1 .. Len(requestQueue'), requestQueue'[i].op = "close"
        PROVE  i \in 1 .. Len(requestQueue) /\ requestQueue'[i] = requestQueue[i]
    BY <1>1, <2>2 DEF n
  <2> QED
    BY <2>1, <2>2 DEF ClosedOnce
<1>6. \A s \in Subs : InUse(s)' => InUse(s)
  BY <1>1 DEF InUse, Keeps, n
<1>7. Owners'
  BY <1>3, <1>6 DEF StreamInv, Owners, Keeps, SM!GetItem, idVars
<1> QED
  BY <1>2, <1>4, <1>5, <1>7 DEF StreamInv

(* The next request leaves the queue. *)
LEMMA Answers ==
  ASSUME StreamInv, TypeInv', Keeps, requestQueue # <<>>,
         requestQueue' = Tail(requestQueue)
  PROVE  StreamInv'
<1>1. \A i \in 1 .. Len(requestQueue') :
        /\ i + 1 \in 1 .. Len(requestQueue)
        /\ requestQueue'[i] = requestQueue[i + 1]
  BY Taken DEF StreamInv
<1>2. SM!IdsPartitioned'
  BY DEF StreamInv, SM!IdsPartitioned, SM!IsListed, Keeps, idVars
<1>3. /\ \A sym \in Symbols : subscriptions[sym] \in Subs \cup {None}
      /\ adding.step # "none" => adding.sub \in Subs
      /\ \A i \in 1 .. Len(requestQueue) :
           requestQueue[i].op \in AboutItem => requestQueue[i].who \in Subs
      /\ \A i \in SM!Indices : itemArray[i] \in Subs \cup {None}
  BY QueueFacts
  DEF StreamInv, TypeInv, TypeOK, ItemTypes, Definite, SM!TypeOK
<1>4. Named'
  <2>1. \A i \in 1 .. Len(requestQueue') :
           requestQueue'[i].op \in AboutItem =>
              upa'[requestQueue'[i].who].symbol # None
    BY <1>1, <1>3 DEF StreamInv, Named, Keeps
  <2> QED
    BY <1>3, <2>1, SubscriberAssumption DEF StreamInv, Named, Keeps
<1>5. ClosedOnce'
  BY <1>1 DEF StreamInv, ClosedOnce, Keeps
<1>6. \A s \in Subs : InUse(s)' => InUse(s)
  BY <1>1 DEF InUse, Keeps
<1>7. Owners'
  BY <1>3, <1>6 DEF StreamInv, Owners, Keeps, SM!GetItem, idVars
<1> QED
  BY <1>2, <1>4, <1>5, <1>7 DEF StreamInv

-----------------------------------------------------------------------------
(* A request for an image.                                                 *)

LEMMA FreeSlotEmpty ==
  ASSUME SM!TypeOK, SM!IdsPartitioned, SM!HasFreeSlot
  PROVE  SM!NextFreeIndex \in SM!Indices /\ itemArray[SM!NextFreeIndex] = None
<1>1. CASE SM!FreshIndexLeft
  <2>1. SM!NextFreeIndex = nextIndex /\ nextIndex \in SM!Indices
    BY <1>1, SubscriberAssumption
    DEF SM!TypeOK, SM!FreshIndexLeft, SM!NextFreeIndex, SM!Indices
  <2> QED
    BY <2>1 DEF SM!IdsPartitioned, SM!Indices
<1>2. CASE ~SM!FreshIndexLeft
  <2>1. freeStreamIds \in Seq(SM!Indices) /\ freeStreamIds # <<>>
    BY <1>2 DEF SM!TypeOK, SM!HasFreeSlot
  <2>2. /\ Head(freeStreamIds) \in SM!Indices
        /\ Head(freeStreamIds) = freeStreamIds[1]
        /\ 1 \in 1 .. Len(freeStreamIds)
    BY <2>1
  <2> QED
    BY <1>2, <2>2 DEF SM!IdsPartitioned, SM!IsListed, SM!NextFreeIndex
<1> QED
  BY <1>1, <1>2

(* The table keeps its partition in the two ways its users change it. *)
LEMMA PartitionKept ==
  ASSUME SM!TypeOK, SM!IdsPartitioned,
         \/ \E s \in Subs : SM!AddItem(s)
         \/ \E i \in SM!Indices :
              itemArray[i] # None /\ SM!ReleaseStreamId(SM!Index2StreamId(i))
  PROVE  SM!IdsPartitioned'
<1>1. SMP!StreamManagerAssumption
  BY SubscriberAssumption DEF SMP!StreamManagerAssumption
<1>2. SMP!TypeOK /\ SMP!IdsPartitioned
  BY DEF SM!TypeOK, SMP!TypeOK, SM!IdsPartitioned, SMP!IdsPartitioned,
         SM!IsListed, SMP!IsListed, SM!Indices, SMP!Indices
<1>3. ASSUME NEW s \in Subs, SM!AddItem(s)
      PROVE  SMP!IdsPartitioned'
  <2>1. SMP!AddItem(s)
    BY <1>3
    DEF SM!AddItem, SMP!AddItem, SM!HasFreeSlot, SMP!HasFreeSlot,
        SM!FreshIndexLeft, SMP!FreshIndexLeft, SM!NextFreeIndex,
        SMP!NextFreeIndex
  <2> QED
    BY <1>1, <1>2, <2>1, SMP!FreshKeepsPartition, SMP!ReuseKeepsPartition
<1>4. ASSUME NEW i \in SM!Indices, itemArray[i] # None,
             SM!ReleaseStreamId(SM!Index2StreamId(i))
      PROVE  SMP!IdsPartitioned'
  <2>1. i \in SMP!Indices /\ SMP!ReleaseStreamId(SMP!Index2StreamId(i))
    BY <1>4
    DEF SM!Indices, SMP!Indices, SM!ReleaseStreamId, SMP!ReleaseStreamId,
        SM!Index2StreamId, SMP!Index2StreamId, SM!StreamId2Index,
        SMP!StreamId2Index
  <2> QED
    BY <1>1, <1>2, <1>4, <2>1, SMP!ReleaseKeepsPartition
<1>5. SMP!IdsPartitioned'
  BY <1>3, <1>4
<1> QED
  BY <1>5
  DEF SM!IdsPartitioned, SMP!IdsPartitioned, SM!IsListed, SMP!IsListed,
      SM!Indices, SMP!Indices

LEMMA IndexOfId ==
  /\ \A i \in SM!Indices : SM!StreamId2Index(SM!Index2StreamId(i)) = i
  /\ \A id \in StreamIds : SM!Index2StreamId(SM!StreamId2Index(id)) = id
  /\ \A i \in SM!Indices : SM!Index2StreamId(i) # 0
  BY SubscriberAssumption
  DEF SM!Indices, SM!StreamId2Index, SM!Index2StreamId, StreamIds

(* A first request is the one that takes a stream for its item. *)
LEMMA Takes ==
  ASSUME StreamInv, TypeInv', NEW s \in Subs, upa[s].symbol # None,
         upa[s].streamId = 0, SM!AddItem(s),
         upa' = [upa EXCEPT ![s].streamId = SM!Index2StreamId(SM!NextFreeIndex)],
         UNCHANGED <<subscriptions, adding>>,
         requestQueue # <<>>, requestQueue' = Tail(requestQueue)
  PROVE  StreamInv'
<1>1. \A i \in 1 .. Len(requestQueue') :
        /\ i + 1 \in 1 .. Len(requestQueue)
        /\ requestQueue'[i] = requestQueue[i + 1]
  BY Taken DEF StreamInv
<1>2. SM!TypeOK /\ SM!IdsPartitioned
  BY DEF StreamInv, TypeInv, TypeOK, ItemTypes
<1>3. SM!IdsPartitioned'
  BY <1>2, PartitionKept
<1>4. PICK free \in SM!Indices :
        free = SM!NextFreeIndex /\ itemArray[free] = None
  BY <1>2, FreeSlotEmpty DEF SM!AddItem
<1>5. itemArray' = [itemArray EXCEPT ![free] = s]
  BY <1>4 DEF SM!AddItem
<1>6. /\ \A r \in Subs : /\ upa'[r].symbol = upa[r].symbol
                         /\ r # s => upa'[r].streamId = upa[r].streamId
      /\ upa'[s].streamId = SM!Index2StreamId(free)
  BY <1>4 DEF StreamInv, TypeInv, TypeOK, ItemTypes, Items
<1>7. /\ \A sym \in Symbols : subscriptions[sym] \in Subs \cup {None}
      /\ adding.step # "none" => adding.sub \in Subs
      /\ \A i \in 1 .. Len(requestQueue) :
           requestQueue[i].op \in AboutItem => requestQueue[i].who \in Subs
      /\ itemArray \in [SM!Indices -> Subs \cup {None}]
  BY QueueFacts
  DEF StreamInv, TypeInv, TypeOK, ItemTypes, Definite, SM!TypeOK
<1>8. Named'
  <2>1. \A i \in 1 .. Len(requestQueue') :
           requestQueue'[i].op \in AboutItem =>
              upa'[requestQueue'[i].who].symbol # None
    BY <1>1, <1>6, <1>7 DEF StreamInv, Named
  <2>2. \A r \in Subs : upa'[r].symbol = None => upa'[r].streamId = 0
    BY <1>6 DEF StreamInv, Named
  <2>3. /\ \A sym \in Symbols :
             subscriptions'[sym] # None =>
                upa'[subscriptions'[sym]].symbol = sym
        /\ adding'.step # "none" => upa'[adding'.sub].symbol # None
    BY <1>6, <1>7 DEF StreamInv, Named
  <2> QED
    BY <2>1, <2>2, <2>3 DEF Named
<1>9. ClosedOnce'
  BY <1>1 DEF StreamInv, ClosedOnce
<1>10. Owners'
  <2>1. \A r \in Subs : InUse(r)' => InUse(r)
    BY <1>1 DEF InUse
  <2>2. \A i \in SM!Indices : itemArray[i] # s
    BY <1>7, IndexOfId, SubscriberAssumption DEF StreamInv, Owners
  <2>3. ASSUME NEW i \in SM!Indices, itemArray'[i] # None
        PROVE  upa'[itemArray'[i]].streamId = SM!Index2StreamId(i)
    <3>1. CASE i = free
      BY <1>5, <1>6, <1>7, <3>1
    <3>2. CASE i # free
      BY <1>5, <1>6, <1>7, <2>2, <2>3, <3>2 DEF StreamInv, Owners
    <3> QED
      BY <3>1, <3>2
  <2>4. ASSUME NEW r \in Subs, InUse(r)', upa'[r].streamId # 0
        PROVE  itemArray'[SM!StreamId2Index(upa'[r].streamId)] = r
    <3>1. CASE r = s
      BY <1>5, <1>6, <1>7, <3>1, IndexOfId DEF SM!GetItem
    <3>2. CASE r # s
      <4>1. SM!GetItem(upa[r].streamId) = r /\ upa'[r].streamId = upa[r].streamId
        BY <1>6, <2>1, <2>4, <3>2 DEF StreamInv, Owners
      <4>2. SM!StreamId2Index(upa[r].streamId) \in SM!Indices
        <5>1. upa[r].streamId \in StreamIds
          BY <1>6, <2>4, <3>2 DEF StreamInv, TypeInv, TypeOK, ItemTypes, Items
        <5> QED
          BY <5>1, Ids
      <4> QED
        BY <1>4, <1>5, <1>7, <4>1, <4>2, SubscriberAssumption DEF SM!GetItem
    <3> QED
      BY <3>1, <3>2
  <2> QED
    BY <2>3, <2>4 DEF Owners, SM!GetItem
<1> QED
  BY <1>3, <1>8, <1>9, <1>10 DEF StreamInv

-----------------------------------------------------------------------------
(* Closing, forgetting and creating an item.                               *)

(* The item of the close request at hand still owns the stream it names. *)
LEMMA CloserOwns ==
  ASSUME StreamInv, requestQueue # <<>>, Head(requestQueue).op = "close",
         NEW s \in Subs, s = Head(requestQueue).who, upa[s].streamId # 0
  PROVE  /\ upa[s].streamId \in StreamIds
         /\ SM!StreamId2Index(upa[s].streamId) \in SM!Indices
         /\ itemArray[SM!StreamId2Index(upa[s].streamId)] = s
<1>1. upa[s].streamId \in StreamIds
  BY DEF StreamInv, TypeInv, TypeOK, ItemTypes, Items
<1>2. InUse(s)
  <2>1. 1 \in 1 .. Len(requestQueue) /\ Head(requestQueue) = requestQueue[1]
    BY QueueFacts DEF StreamInv
  <2> QED
    BY <2>1 DEF InUse
<1> QED
  BY <1>1, <1>2, Ids DEF StreamInv, Owners, SM!GetItem

LEMMA Releases ==
  ASSUME StreamInv, TypeInv', requestQueue # <<>>,
         Head(requestQueue).op = "close", requestQueue' = Tail(requestQueue),
         NEW s \in Subs, s = Head(requestQueue).who, upa[s].streamId # 0,
         SM!ReleaseStreamId(upa[s].streamId),
         UNCHANGED <<upa, subscriptions, adding>>
  PROVE  StreamInv'
<1>1. /\ \A i \in 1 .. Len(requestQueue') :
           /\ i + 1 \in 2 .. Len(requestQueue)
           /\ requestQueue'[i] = requestQueue[i + 1]
      /\ Head(requestQueue) = requestQueue[1]
      /\ Len(requestQueue) \in Nat \ {0}
  BY Taken DEF StreamInv
<1>2. PICK k \in SM!Indices :
        /\ k = SM!StreamId2Index(upa[s].streamId) /\ itemArray[k] = s
        /\ upa[s].streamId = SM!Index2StreamId(k)
  BY CloserOwns, IndexOfId
<1>3. SM!IdsPartitioned'
  <2>1. SM!TypeOK /\ SM!IdsPartitioned
    BY DEF StreamInv, TypeInv, TypeOK, ItemTypes
  <2>2. itemArray[k] # None /\ SM!ReleaseStreamId(SM!Index2StreamId(k))
    BY <1>2, SubscriberAssumption
  <2> QED
    BY <2>1, <2>2, PartitionKept
<1>4. itemArray' = [itemArray EXCEPT ![k] = None]
  BY <1>2 DEF SM!ReleaseStreamId
<1>5. itemArray \in [SM!Indices -> Subs \cup {None}]
  BY DEF StreamInv, TypeInv, TypeOK, ItemTypes, SM!TypeOK
<1>6. Named'
  BY <1>1 DEF StreamInv, Named
<1>7. ClosedOnce'
  BY <1>1 DEF StreamInv, ClosedOnce
<1>8. /\ \A r \in Subs : InUse(r)' => InUse(r)
      /\ ~InUse(s)'
  <2>1. \A r \in Subs : InUse(r)' => InUse(r)
    BY <1>1 DEF InUse
  <2>2. \A sym \in Symbols : subscriptions[sym] # s
    BY <1>1 DEF StreamInv, ClosedOnce
  <2>3. ASSUME NEW i \in 1 .. Len(requestQueue'),
               requestQueue'[i].op = "close", requestQueue'[i].who = s
        PROVE  FALSE
    <3>1. i + 1 = 1
      BY <1>1, <2>3 DEF StreamInv, ClosedOnce
    <3> QED
      BY <1>1, <3>1
  <2> QED
    BY <2>1, <2>2, <2>3 DEF InUse
<1>9. Owners'
  <2>1. \A i \in SM!Indices :
          itemArray'[i] # None => upa[itemArray'[i]].streamId
                                    = SM!Index2StreamId(i)
    BY <1>4, <1>5 DEF StreamInv, Owners
  <2>2. ASSUME NEW r \in Subs, InUse(r)', upa[r].streamId # 0
        PROVE  itemArray'[SM!StreamId2Index(upa[r].streamId)] = r
    <3>1. r # s /\ itemArray[SM!StreamId2Index(upa[r].streamId)] = r
      BY <1>8, <2>2 DEF StreamInv, Owners, SM!GetItem
    <3>2. upa[r].streamId \in StreamIds
      BY <2>2 DEF StreamInv, TypeInv, TypeOK, ItemTypes, Items
    <3> QED
      BY <1>2, <1>4, <1>5, <3>1, <3>2, Ids
  <2> QED
    BY <2>1, <2>2 DEF Owners, SM!GetItem
<1> QED
  BY <1>3, <1>6, <1>7, <1>9 DEF StreamInv

LEMMA Forgets ==
  ASSUME StreamInv, TypeInv', NEW sym \in Symbols, NEW s \in Subs,
         s = subscriptions[sym], Close(s), Erase(sym),
         UNCHANGED <<idVars, adding>>
  PROVE  StreamInv'
<1> DEFINE n == Len(requestQueue)
<1>1. /\ \A r \in Subs : /\ upa'[r].symbol = upa[r].symbol
                         /\ upa'[r].streamId = upa[r].streamId
      /\ subscriptions' = [subscriptions EXCEPT ![sym] = None]
  BY DEF Close, Erase, StreamInv, TypeInv, TypeOK, ItemTypes, Items
<1>2. /\ n \in Nat
      /\ \/ requestQueue' = requestQueue
         \/ /\ Len(requestQueue') = n + 1
            /\ \A i \in 1 .. n : requestQueue'[i] = requestQueue[i]
            /\ requestQueue'[n + 1] = Request("close", s)
  <2>1. Request("close", s) \in Requests
    BY DEF Request, Requests
  <2>2. CASE upa[s].consumer
    <3>1. requestQueue' = requestQueue \o <<Request("close", s)>>
      BY <2>2 DEF Close, Enqueue
    <3> QED
      BY <2>1, <3>1, QueueFacts DEF StreamInv
  <2>3. CASE ~upa[s].consumer
    BY <2>3, QueueFacts DEF Close, StreamInv
  <2> QED
    BY <2>2, <2>3
<1> HIDE DEF n
<1>3. /\ subscriptions \in [Symbols -> Subs \cup {None}]
      /\ adding.step # "none" => adding.sub \in Subs
      /\ \A i \in 1 .. n :
           requestQueue[i].op \in AboutItem => requestQueue[i].who \in Subs
      /\ \A i \in SM!Indices : itemArray[i] \in Subs \cup {None}
      /\ None \notin Subs
  BY QueueFacts, SubscriberAssumption
  DEF StreamInv, TypeInv, TypeOK, ItemTypes, Definite, SM!TypeOK, n
<1>4. /\ \A i \in 1 .. Len(requestQueue') :
           /\ i \in 1 .. n => requestQueue'[i] = requestQueue[i]
           /\ i \notin 1 .. n => /\ i = n + 1
                                 /\ requestQueue'[i].op = "close"
                                 /\ requestQueue'[i].who = s
      /\ 1 .. n \subseteq 1 .. Len(requestQueue')
  BY <1>2 DEF Request, n
<1>5. /\ upa[s].symbol = sym /\ sym # None
      /\ \A other \in Symbols : subscriptions'[other] # s
      /\ \A other \in Symbols :
           subscriptions'[other] # None =>
              subscriptions'[other] = subscriptions[other]
  BY <1>1, <1>3, SubscriberAssumption DEF StreamInv, Named
<1>6. SM!IdsPartitioned'
  BY DEF StreamInv, SM!IdsPartitioned, SM!IsListed, idVars
<1>7. Named'
  <2>1. \A i \in 1 .. Len(requestQueue') :
           requestQueue'[i].op \in AboutItem =>
              upa'[requestQueue'[i].who].symbol # None
    BY <1>1, <1>3, <1>4, <1>5 DEF StreamInv, Named, n
  <2>2. \A other \in Symbols :
           subscriptions'[other] # None =>
              upa'[subscriptions'[other]].symbol = other
    BY <1>1, <1>3, <1>5 DEF StreamInv, Named
  <2> QED
    BY <1>1, <1>3, <2>1, <2>2 DEF StreamInv, Named
<1>8. ClosedOnce'
  <2>1. \A i \in 1 .. n :
           requestQueue[i].op = "close" => requestQueue[i].who # s
    BY DEF StreamInv, ClosedOnce, n
  <2>2. \A i \in 1 .. Len(requestQueue') :
           requestQueue'[i].op = "close" =>
              \A other \in Symbols : subscriptions'[other] # requestQueue'[i].who
    BY <1>3, <1>4, <1>5 DEF StreamInv, ClosedOnce, n, AboutItem
  <2>3. \A i, j \in 1 .. Len(requestQueue') :
          /\ requestQueue'[i].op = "close" /\ requestQueue'[j].op = "close"
          /\ requestQueue'[i].who = requestQueue'[j].who
          => i = j
    BY <1>4, <2>1 DEF StreamInv, ClosedOnce, n
  <2> QED
    BY <2>2, <2>3 DEF ClosedOnce
<1>9. \A r \in Subs : InUse(r)' => InUse(r)
  BY <1>3, <1>4, <1>5 DEF InUse, n
<1>10. Owners'
  BY <1>1, <1>3, <1>9 DEF StreamInv, Owners, SM!GetItem, idVars
<1> QED
  BY <1>6, <1>7, <1>8, <1>10 DEF StreamInv

LEMMA Creates ==
  ASSUME StreamInv, TypeInv', NEW sym \in Symbols, NEW s \in Subs,
         upa[s].symbol = None, upa' = [upa EXCEPT ![s].symbol = sym],
         subscriptions[sym] = None,
         subscriptions' = [subscriptions EXCEPT ![sym] = s],
         adding'.sub = s, UNCHANGED <<idVars, requestQueue>>
  PROVE  StreamInv'
<1>1. /\ \A r \in Subs : /\ r # s => upa'[r].symbol = upa[r].symbol
                         /\ upa'[r].streamId = upa[r].streamId
      /\ upa'[s].symbol = sym /\ sym # None
  BY SubscriberAssumption DEF StreamInv, TypeInv, TypeOK, ItemTypes, Items
<1>2. /\ subscriptions \in [Symbols -> Subs \cup {None}]
      /\ \A i \in 1 .. Len(requestQueue) :
           requestQueue[i].op \in AboutItem => requestQueue[i].who \in Subs
      /\ \A i \in SM!Indices : itemArray[i] \in Subs \cup {None}
      /\ None \notin Subs
  BY QueueFacts, SubscriberAssumption
  DEF StreamInv, TypeInv, TypeOK, ItemTypes, SM!TypeOK
<1>3. SM!IdsPartitioned'
  BY DEF StreamInv, SM!IdsPartitioned, SM!IsListed, idVars
<1>4. Named'
  <2>1. \A other \in Symbols :
           subscriptions'[other] # None =>
              upa'[subscriptions'[other]].symbol = other
    BY <1>1, <1>2, SubscriberAssumption DEF StreamInv, Named
  <2>2. \A i \in 1 .. Len(requestQueue) :
           requestQueue[i].op \in AboutItem =>
              upa'[requestQueue[i].who].symbol # None
    BY <1>1, <1>2 DEF StreamInv, Named
  <2>3. \A r \in Subs : upa'[r].symbol = None => upa'[r].streamId = 0
    BY <1>1 DEF StreamInv, Named
  <2> QED
    BY <1>1, <2>1, <2>2, <2>3 DEF Named
<1>5. ClosedOnce'
  BY <1>1, <1>2 DEF StreamInv, ClosedOnce, Named, AboutItem
<1>6. Owners'
  <2>1. \A r \in Subs : r # s /\ InUse(r)' => InUse(r)
    BY <1>2 DEF InUse
  <2>2. upa'[s].streamId = 0
    BY <1>1 DEF StreamInv, Named
  <2> QED
    BY <1>1, <1>2, <2>1, <2>2 DEF StreamInv, Owners, SM!GetItem, idVars
<1> QED
  BY <1>3, <1>4, <1>5, <1>6 DEF StreamInv

(* A listener is to join an item the source knows. *)
LEMMA Joins ==
  ASSUME StreamInv, TypeInv', NEW sym \in Symbols,
         subscriptions[sym] # None, adding'.sub = subscriptions[sym],
         UNCHANGED <<upa, subscriptions, idVars, requestQueue>>
  PROVE  StreamInv'
<1>1. SM!IdsPartitioned'
  BY DEF StreamInv, SM!IdsPartitioned, SM!IsListed, idVars
<1>2. Named'
  BY SubscriberAssumption DEF StreamInv, Named
<1>3. ClosedOnce' /\ Owners'
  BY DEF StreamInv, ClosedOnce, Owners, InUse, SM!GetItem, idVars
<1> QED
  BY <1>1, <1>2, <1>3 DEF StreamInv

-----------------------------------------------------------------------------
(* Every step.                                                             *)

\* The table of ids is used as StreamManager allows, or not at all.
TableStep ==
  \/ \E s \in Subs : SM!AddItem(s)
  \/ \E i \in SM!Indices :
       itemArray[i] # None /\ SM!ReleaseStreamId(SM!Index2StreamId(i))
  \/ UNCHANGED idVars

LEMMA SendStep ==
  ASSUME StreamInv, TypeInv', NEW s \in Subs, upa[s].symbol # None,
         SendOpenRequest(s), UNCHANGED <<subscriptions, adding>>,
         requestQueue # <<>>, requestQueue' = Tail(requestQueue)
  PROVE  StreamInv' /\ TableStep
<1>1. CASE upa[s].streamId = 0 /\ ~SM!HasFreeSlot
  <2>1. UNCHANGED <<upa, idVars>>
    BY <1>1 DEF SendOpenRequest
  <2> QED
    BY <2>1, Answers DEF Keeps, TableStep
<1>2. CASE upa[s].streamId = 0 /\ SM!HasFreeSlot
  <2>1. /\ SM!AddItem(s)
        /\ upa' = [upa EXCEPT ![s].streamId =
                     SM!Index2StreamId(SM!NextFreeIndex)]
    BY <1>2 DEF SendOpenRequest, RequestStream
  <2> QED
    BY <1>2, <2>1, Takes DEF TableStep
<1>3. CASE upa[s].streamId # 0
  <2>1. /\ UNCHANGED idVars
        /\ upa' = [upa EXCEPT ![s].streamId = upa[s].streamId]
    BY <1>3 DEF SendOpenRequest, RequestStream
  <2>2. Keeps
    BY <2>1 DEF Keeps, StreamInv, TypeInv, TypeOK, ItemTypes, Items
  <2> QED
    BY <2>1, <2>2, Answers DEF TableStep
<1> QED
  BY <1>1, <1>2, <1>3

LEMMA HandlersKeep ==
  ASSUME upa \in [Subs -> Items], ProcessMarketPriceResponse
  PROVE  \A s \in Subs : /\ upa'[s].symbol = upa[s].symbol
                         /\ upa'[s].streamId = upa[s].streamId
                         /\ upa'[s].listeners = upa[s].listeners
<1>1. ASSUME NEW seen, ProcessStatus(seen), NEW s \in Subs
      PROVE  /\ upa'[s].symbol = upa[s].symbol
             /\ upa'[s].streamId = upa[s].streamId
             /\ upa'[s].listeners = upa[s].listeners
  BY <1>1 DEF ProcessStatus, Items
<1>2. ASSUME NEW seen, NEW decoded, ProcessRefresh(seen, decoded),
             NEW s \in Subs
      PROVE  /\ upa'[s].symbol = upa[s].symbol
             /\ upa'[s].streamId = upa[s].streamId
             /\ upa'[s].listeners = upa[s].listeners
  <2>1. PICK a, b, c : upa' = [upa EXCEPT ![handling.sub].state = a,
                                         ![handling.sub].isRefresh = b,
                                         ![handling.sub].requester = c]
    BY <1>2 DEF ProcessRefresh
  <2> QED
    BY <2>1 DEF Items
<1>3. ASSUME NEW seen, NEW okRead, NEW decoded,
             ProcessUpdate(seen, okRead, decoded), NEW s \in Subs
      PROVE  /\ upa'[s].symbol = upa[s].symbol
             /\ upa'[s].streamId = upa[s].streamId
             /\ upa'[s].listeners = upa[s].listeners
  BY <1>3 DEF ProcessUpdate, Items
<1> QED
  BY <1>1, <1>2, <1>3 DEF ProcessMarketPriceResponse

LEMMA StreamStep == StreamInv /\ [Next]_vars => StreamInv' /\ TableStep
<1> SUFFICES ASSUME StreamInv, [Next]_vars
             PROVE  StreamInv' /\ TableStep
  OBVIOUS
<1>a. TypeInv /\ TypeInv'
  BY TypeStep DEF StreamInv
<1>b. upa \in [Subs -> Items]
  BY <1>a DEF TypeInv, TypeOK, ItemTypes
<1>c. ASSUME Keeps, requestQueue' = requestQueue
      PROVE  StreamInv' /\ TableStep
  BY <1>a, <1>c, Settled DEF Keeps, TableStep
<1>d. ASSUME Keeps, NEW r \in Requests, r.op # "close", Enqueue(<<r>>),
             r.op \in AboutItem => upa[r.who].symbol # None
      PROVE  StreamInv' /\ TableStep
  <2>1. Plain(<<r>>)
    BY <1>d DEF Plain
  <2> QED
    BY <1>a, <1>d, <2>1, Asks DEF Keeps, TableStep
<1>1. ASSUME NEW l \in Listeners,
             \/ AddSubscription(l) \/ Mute(l) \/ FindToDestroy(l)
             \/ FindToRemove(l) \/ CountListeners(l) \/ OnDestroy(l)
      PROVE  StreamInv' /\ TableStep
  <2>1. UNCHANGED <<idVars, subscriptions, upa, adding, requestQueue>>
    BY <1>1
    DEF AddSubscription, Mute, FindToDestroy, FindToRemove, CountListeners,
        OnDestroy
  <2> QED
    BY <1>c, <2>1 DEF Keeps
<1>2. ASSUME NEW l \in Listeners, QueueSubscriptionDestroy(l)
      PROVE  StreamInv' /\ TableStep
  <2>1. Keeps
    BY <1>2 DEF QueueSubscriptionDestroy, Keeps
  <2>2. CASE requestQueue' = requestQueue
    BY <1>c, <2>1, <2>2
  <2>3. CASE requestQueue' # requestQueue
    <3>1. Enqueue(<<Request("destroy", l)>>)
      BY <1>2, <2>3 DEF QueueSubscriptionDestroy, QueueDestroy
    <3> QED
      BY <1>d, <2>1, <3>1 DEF Request, Requests, AboutItem
  <2> QED
    BY <2>2, <2>3
<1>3. ASSUME NEW l \in Listeners, RemoveListener(l)
      PROVE  StreamInv' /\ TableStep
  BY <1>b, <1>c, <1>3 DEF RemoveListener, Keeps, Items
<1>4. ASSUME NEW l \in Listeners, RemoveSubscription(l)
      PROVE  StreamInv' /\ TableStep
  <2>1. CASE subscriptions[SymbolOf[l]] = None
    BY <1>c, <1>4, <2>1 DEF RemoveSubscription, Keeps
  <2>2. CASE subscriptions[SymbolOf[l]] # None
    <3>1. SymbolOf[l] \in Symbols /\ subscriptions[SymbolOf[l]] \in Subs
      BY <1>a, <2>2, SubscriberAssumption DEF TypeInv, TypeOK, ItemTypes
    <3> QED
      BY <1>a, <1>4, <2>2, <3>1, Forgets DEF RemoveSubscription, TableStep
  <2> QED
    BY <2>1, <2>2
<1>5. ASSUME ProcessPendingSubscription
      PROVE  StreamInv' /\ TableStep
  <2>1. PICK l \in Listeners : /\ l = Head(pendingSubscriptions)
                              /\ SymbolOf[l] \in Symbols
    BY <1>a, <1>5, SubscriberAssumption
    DEF ProcessPendingSubscription, TypeInv, TypeOK, ClientTypes
  <2>2. CASE l \in BadSource
    BY <1>c, <1>5, <2>1, <2>2 DEF ProcessPendingSubscription, Keeps
  <2>3. CASE l \notin BadSource /\ subscriptions[SymbolOf[l]] # None
    <3>1. /\ adding' = [listener |-> l, sub |-> subscriptions[SymbolOf[l]],
                        step |-> "join"]
          /\ UNCHANGED <<upa, subscriptions, idVars, requestQueue>>
      BY <1>5, <2>1, <2>3 DEF ProcessPendingSubscription
    <3>2. subscriptions[SymbolOf[l]] \in Subs
      BY <1>a, <2>1, <2>3 DEF TypeInv, TypeOK, ItemTypes
    <3> QED
      BY <1>a, <2>1, <2>3, <3>1, <3>2, Joins DEF TableStep
  <2>4. CASE l \notin BadSource /\ subscriptions[SymbolOf[l]] = None
    <3>1. PICK s \in Subs :
            /\ upa[s].symbol = None
            /\ upa' = [upa EXCEPT ![s].symbol = SymbolOf[l]]
            /\ subscriptions' = [subscriptions EXCEPT ![SymbolOf[l]] = s]
            /\ adding' = [listener |-> l, sub |-> s, step |-> "create"]
      BY <1>5, <2>1, <2>4 DEF ProcessPendingSubscription
    <3>2. UNCHANGED <<idVars, requestQueue>> /\ adding'.sub = s
      BY <1>5, <3>1 DEF ProcessPendingSubscription
    <3> QED
      BY <1>a, <2>1, <2>4, <3>1, <3>2, Creates DEF TableStep
  <2> QED
    BY <2>2, <2>3, <2>4
<1>6. ASSUME AddListener
      PROVE  StreamInv' /\ TableStep
  <2>1. adding'.sub = adding.sub
    BY <1>a, <1>6 DEF AddListener, TypeInv, TypeOK, ThreadTypes
  <2> QED
    BY <1>b, <1>c, <1>6, <2>1 DEF AddListener, Keeps, Items
<1>7. ASSUME RequestImage
      PROVE  StreamInv' /\ TableStep
  <2>1. Keeps
    BY <1>b, <1>7 DEF RequestImage, Keeps, Items, NoAdd
  <2>2. CASE upa[adding.sub].state # "Live"
    BY <1>c, <1>7, <2>1, <2>2 DEF RequestImage
  <2>3. CASE upa[adding.sub].state = "Live"
    <3>1. adding.sub \in Subs /\ upa[adding.sub].symbol # None
      BY <1>a, <1>7 DEF RequestImage, TypeInv, Definite, StreamInv, Named
    <3>2. Enqueue(<<Request("refresh", adding.sub)>>)
      BY <1>7, <2>3 DEF RequestImage
    <3> QED
      BY <1>d, <2>1, <3>1, <3>2 DEF Request, Requests
  <2> QED
    BY <2>2, <2>3
<1>8. ASSUME Open
      PROVE  StreamInv' /\ TableStep
  <2>1. Keeps
    BY <1>b, <1>8 DEF Open, Opened, Keeps, Items, NoAdd
  <2>2. adding.sub \in Subs /\ upa[adding.sub].symbol # None
    BY <1>a, <1>8 DEF Open, TypeInv, Definite, StreamInv, Named
  <2> QED
    BY <1>d, <1>8, <2>1, <2>2 DEF Open, Request, Requests
<1>9. ASSUME OpenRequestCb \/ RefreshRequestCb
      PROVE  StreamInv' /\ TableStep
  <2>1. PICK op \in {"open", "refresh"} : CanDispatch(op) /\ Dequeue
    BY <1>9 DEF OpenRequestCb, RefreshRequestCb
  <2>2. Queued(op, Head(requestQueue))
    BY <1>a, <2>1, HeadTyped DEF TypeInv, TypeOK
  <2>3. UNCHANGED <<subscriptions, adding>>
    BY <1>9 DEF OpenRequestCb, RefreshRequestCb
  <2>4. CASE Ignored
    BY <1>a, <2>2, <2>3, <2>4, Answers DEF Ignored, Keeps, Queued, TableStep
  <2>5. CASE SendOpenRequest(Head(requestQueue).who)
    <3>1. upa[Head(requestQueue).who].symbol # None
      BY <1>a, <2>2, Taken DEF Queued, StreamInv, Named, AboutItem
    <3> QED
      BY <1>a, <2>2, <2>3, <2>5, <3>1, SendStep DEF Queued
  <2> QED
    BY <1>9, <2>4, <2>5 DEF OpenRequestCb, RefreshRequestCb
<1>10. ASSUME CloseRequestCb
       PROVE  StreamInv' /\ TableStep
  <2>1. Queued("close", Head(requestQueue))
    BY <1>a, <1>10, HeadTyped DEF CloseRequestCb, TypeInv, TypeOK
  <2>2. PICK s \in Subs : s = Head(requestQueue).who
    BY <2>1 DEF Queued
  <2>3. UNCHANGED <<upa, subscriptions, adding>>
    BY <1>10 DEF CloseRequestCb
  <2>4. CASE upa[s].streamId = 0
    <3>1. UNCHANGED idVars
      BY <1>10, <2>2, <2>4 DEF CloseRequestCb
    <3> QED
      BY <1>a, <2>1, <2>3, <3>1, Answers DEF Keeps, Queued, TableStep
  <2>5. CASE upa[s].streamId # 0
    <3>1. SM!ReleaseStreamId(upa[s].streamId)
      BY <1>10, <2>2, <2>5 DEF CloseRequestCb
    <3>2. StreamInv'
      BY <1>a, <2>1, <2>2, <2>3, <2>5, <3>1, Releases DEF Queued
    <3>3. PICK k \in SM!Indices : /\ k = SM!StreamId2Index(upa[s].streamId)
                                 /\ itemArray[k] = s
                                 /\ SM!Index2StreamId(k) = upa[s].streamId
      BY <2>1, <2>2, <2>5, CloserOwns, IndexOfId DEF Queued
    <3> QED
      BY <3>1, <3>2, <3>3, SubscriberAssumption DEF TableStep
  <2> QED
    BY <2>4, <2>5
<1>11. ASSUME DestroyRequestCb \/ SessionRequestCb("login")
              \/ SessionRequestCb("directory")
       PROVE  StreamInv' /\ TableStep
  <2>1. /\ requestQueue # <<>> /\ requestQueue' = Tail(requestQueue)
        /\ UNCHANGED <<idVars, subscriptions, upa, adding>>
    BY <1>11 DEF DestroyRequestCb, SessionRequestCb, CanDispatch, Dequeue
  <2> QED
    BY <1>a, <2>1, Answers DEF Keeps, TableStep
<1>12. ASSUME ReadMarketData
       PROVE  StreamInv' /\ TableStep
  BY <1>b, <1>c, <1>12 DEF ReadMarketData, Keeps, Items
<1>13. ASSUME ProcessMarketPriceResponse
       PROVE  StreamInv' /\ TableStep
  <2>1. UNCHANGED <<idVars, subscriptions, adding, requestQueue>>
    BY <1>13
    DEF ProcessMarketPriceResponse, ProcessStatus, ProcessRefresh,
        ProcessUpdate, HandlerUnchanged
  <2>2. \A s \in Subs : /\ upa'[s].symbol = upa[s].symbol
                        /\ upa'[s].streamId = upa[s].streamId
    BY <1>b, <1>13, HandlersKeep
  <2> QED
    BY <1>c, <2>1, <2>2 DEF Keeps
<1>14. ASSUME \/ TakeListeners \/ CallbackReturns
              \/ \E l \in Listeners : OnMessage(l)
       PROVE  StreamInv' /\ TableStep
  BY <1>c, <1>14 DEF TakeListeners, CallbackReturns, OnMessage, Keeps
<1>15. ASSUME Reconnect \/ LoginResponse
       PROVE  StreamInv' /\ TableStep
  <2>1. Keeps
    BY <1>15 DEF Reconnect, LoginResponse, Keeps
  <2>2. PICK op \in {"login", "directory"} : Enqueue(<<Request(op, None)>>)
    BY <1>15 DEF Reconnect, LoginResponse
  <2> QED
    BY <1>d, <2>1, <2>2 DEF Request, Requests, AboutItem
<1>16. ASSUME SourceDirectoryRefreshComplete
       PROVE  StreamInv' /\ TableStep
  <2>1. Keeps
    BY <1>b, <1>16 DEF SourceDirectoryRefreshComplete, Opened, Keeps, Items
  <2>2. PICK order \in Orders(Mapped) :
          Enqueue([i \in DOMAIN order |-> Request("open", order[i])])
    BY <1>16 DEF SourceDirectoryRefreshComplete
  <2>3. order \in Seq(Mapped) /\ order \in Seq(Subs)
    <3>1. Mapped \in SUBSET Subs
      BY <1>a DEF Mapped, TypeInv, TypeOK, ItemTypes
    <3>2. order \in Seq(Subs)
      BY <2>2, <3>1, OrderIsSeq
    <3>3. \A i \in DOMAIN order : order[i] \in Mapped
      BY <2>2 DEF Orders, Bijection, Injection
    <3>4. DOMAIN order = 1 .. Len(order)
      BY <3>2
    <3> QED
      BY <3>2, <3>3, <3>4
  <2>4. \A i \in 1 .. Len(order) :
          /\ Request("open", order[i]) \in Requests
          /\ upa[order[i]].symbol # None
    <3>1. \A s \in Mapped : upa[s].symbol # None
      BY SubscriberAssumption DEF Mapped, StreamInv, Named
    <3> QED
      BY <2>3, <3>1 DEF Request, Requests
  <2>5. Plain([i \in DOMAIN order |-> Request("open", order[i])])
    BY <2>3, <2>4 DEF Plain, Request
  <2> QED
    BY <1>a, <2>1, <2>2, <2>5, Asks DEF Keeps, TableStep
<1>17. ASSUME LoseConnection
       PROVE  StreamInv' /\ TableStep
  BY <1>b, <1>c, <1>17 DEF LoseConnection, Keeps, Items
<1>18. ASSUME RmdsStep \/ UNCHANGED vars
       PROVE  StreamInv' /\ TableStep
  <2>1. UNCHANGED <<idVars, subscriptions, upa, adding, requestQueue>>
    BY <1>18
    DEF RmdsStep, RmdsAnswers, Answer, Update, ChangeState, Send, vars
  <2> QED
    BY <1>c, <2>1 DEF Keeps
<1>19. ASSUME NEW l \in Listeners, ClientStep(l)
       PROVE  StreamInv' /\ TableStep
  BY <1>1, <1>2, <1>3, <1>4, <1>19 DEF ClientStep
<1>20. ASSUME ConsumerStep
       PROVE  StreamInv' /\ TableStep
  <2>1. ASSUME DispatchEvent
        PROVE  StreamInv' /\ TableStep
    BY <1>9, <1>10, <1>11, <2>1 DEF DispatchEvent
  <2> QED
    BY <1>5, <1>6, <1>7, <1>8, <1>12, <1>13, <1>14, <1>15, <1>16, <1>20, <2>1
    DEF ConsumerStep
<1> QED
  BY <1>1, <1>17, <1>18, <1>19, <1>20 DEF Next

LEMMA StreamInit == Init => StreamInv
<1> SUFFICES ASSUME Init PROVE StreamInv
  OBVIOUS
<1>1. SM!IdsPartitioned
  BY SubscriberAssumption
  DEF Init, SM!Init, SM!IdsPartitioned, SM!IsListed, SM!Indices
<1>2. Named
  BY DEF Init, Named, Unborn, NoAdd
<1>3. ClosedOnce
  BY DEF Init, ClosedOnce
<1>4. Owners
  BY DEF Init, SM!Init, Owners, Unborn
<1> QED
  BY <1>1, <1>2, <1>3, <1>4, TypeInit DEF StreamInv

(* An item owns the one stream id it carries, from its first request until *)
(* its close is dispatched, and an item of the map works on no id that was *)
(* released and may belong to another (UPASubscription.cpp                 *)
(* SendOpenRequest, SendCloseRequest; RMDSSource.cpp RemoveSubscription).  *)
THEOREM Ownership == Spec => []StreamOwnership
<1>1. StreamInv => StreamOwnership
  <2> SUFFICES ASSUME StreamInv PROVE StreamOwnership
    OBVIOUS
  <2>1. \A s \in Mapped : s \in Subs /\ InUse(s)
    BY DEF Mapped, InUse, StreamInv, TypeInv, TypeOK, ItemTypes
  <2> QED
    BY <2>1 DEF StreamInv, Owners, StreamOwnership
<1> QED
  BY <1>1, StreamInit, StreamStep, PTL DEF Spec

(* The items use the table of ids the way StreamManager expects: nothing   *)
(* is released that is not owned.  So what StreamManager promises holds    *)
(* within the subscribing half.                                            *)
THEOREM Refinement == Spec => StreamIdsKept
<1>1. Init => SM!Init
  BY DEF Init
<1>2. TableStep => [SM!Next]_(SM!idVars)
  BY DEF TableStep, SM!Next, SM!idVars, idVars
<1> QED
  BY <1>1, <1>2, StreamInit, StreamStep, PTL
  DEF Spec, StreamIdsKept, SM!Spec


-----------------------------------------------------------------------------
(* Responses find their items.  The invariant.                             *)

\* Stream id was given out, and belongs to s or to nobody.
Serves(id, s) ==
  /\ SM!StreamId2Index(id) < nextIndex
  /\ SM!GetItem(id) \in {s, None}

ItemsServed ==
  \A s \in Subs : upa[s].streamId # 0 => Serves(upa[s].streamId, s)
StreamsServed ==
  \A id \in StreamIds :
    /\ upstream[id].owed > 0 => upstream[id].sub # None
    /\ upstream[id].sub # None => Serves(id, upstream[id].sub)
MessagesServed ==
  \A i \in 1 .. Len(wire) :
    wire[i].class \in Market => Serves(wire[i].streamId, wire[i].item)

Routed ==
  SM!FreshIndexLeft =>
    ItemsServed /\ StreamsServed /\ MessagesServed /\ ResponseReachesItem

\* While fresh ids are left none changes hands.
LEMMA NoneChangesHands ==
  ASSUME StreamInv, TableStep, SM!FreshIndexLeft'
  PROVE  /\ SM!FreshIndexLeft /\ nextIndex \in Nat /\ nextIndex' \in Nat
         /\ \A i \in SM!Indices :
              i < nextIndex => /\ i < nextIndex'
                               /\ itemArray'[i] \in {itemArray[i], None}
<1>1. SM!TypeOK
  BY DEF StreamInv, TypeInv, TypeOK, ItemTypes
<1>2. NumStreamIds \in Nat /\ nextIndex \in Nat
  BY <1>1, SubscriberAssumption DEF SM!TypeOK
<1>3. ASSUME NEW s \in Subs, SM!AddItem(s)
      PROVE  /\ SM!FreshIndexLeft /\ nextIndex' = nextIndex + 1
             /\ itemArray' = [itemArray EXCEPT ![nextIndex] = s]
  BY <1>2, <1>3 DEF SM!AddItem, SM!FreshIndexLeft, SM!NextFreeIndex
<1>4. CASE \E s \in Subs : SM!AddItem(s)
  BY <1>1, <1>2, <1>3, <1>4 DEF SM!TypeOK, SM!Indices
<1>5. CASE \E i \in SM!Indices : SM!ReleaseStreamId(SM!Index2StreamId(i))
  BY <1>1, <1>2, <1>5 DEF SM!ReleaseStreamId, SM!FreshIndexLeft, SM!TypeOK
<1>6. CASE UNCHANGED idVars
  BY <1>2, <1>6 DEF idVars, SM!FreshIndexLeft
<1> QED
  BY <1>4, <1>5, <1>6 DEF TableStep

LEMMA ServesStill ==
  ASSUME StreamInv, TableStep, SM!FreshIndexLeft'
  PROVE  \A id \in StreamIds : \A s :
           Serves(id, s) =>
             /\ SM!StreamId2Index(id) < nextIndex'
             /\ itemArray'[SM!StreamId2Index(id)] \in {s, None}
  BY NoneChangesHands, Ids DEF Serves, SM!GetItem

LEMMA ItemsStill ==
  ASSUME StreamInv, StreamInv', TableStep, SM!FreshIndexLeft', Routed,
         \A s \in Subs :
           \/ upa'[s].streamId = upa[s].streamId
           \/ /\ SM!StreamId2Index(upa'[s].streamId) < nextIndex'
              /\ itemArray'[SM!StreamId2Index(upa'[s].streamId)] \in {s, None}
  PROVE  ItemsServed'
<1>1. ItemsServed
  BY NoneChangesHands DEF Routed
<1>2. ASSUME NEW s \in Subs, upa'[s].streamId # 0,
             upa'[s].streamId = upa[s].streamId
      PROVE  /\ SM!StreamId2Index(upa'[s].streamId) < nextIndex'
             /\ itemArray'[SM!StreamId2Index(upa'[s].streamId)] \in {s, None}
  <2>1. upa[s].streamId \in StreamIds /\ upa[s].streamId # 0
    BY <1>2 DEF StreamInv, TypeInv, TypeOK, ItemTypes, Items
  <2> QED
    BY <1>1, <1>2, <2>1, ServesStill DEF ItemsServed
<1> QED
  BY <1>2 DEF ItemsServed, Serves, SM!GetItem

LEMMA StreamsStill ==
  ASSUME StreamInv, TableStep, SM!FreshIndexLeft', Routed,
         \A id \in StreamIds :
           \/ upstream'[id] = NoStream
           \/ /\ upstream'[id].sub = upstream[id].sub
              /\ upstream'[id].owed > 0 => upstream[id].owed > 0
           \/ /\ upstream'[id].sub \in Subs
              /\ SM!StreamId2Index(id) < nextIndex'
              /\ itemArray'[SM!StreamId2Index(id)]
                   \in {upstream'[id].sub, None}
  PROVE  StreamsServed'
<1>1. StreamsServed
  BY NoneChangesHands DEF Routed
<1> QED
  BY <1>1, ServesStill, SubscriberAssumption
  DEF StreamsServed, Serves, SM!GetItem, NoStream

LEMMA MessagesStill ==
  ASSUME StreamInv, TableStep, SM!FreshIndexLeft', Routed,
         \A i \in 1 .. Len(wire') :
           wire'[i].class \in Market =>
             \/ \E j \in 1 .. Len(wire) : wire'[i] = wire[j]
             \/ /\ wire'[i].streamId \in StreamIds
                /\ Serves(wire'[i].streamId, wire'[i].item)
  PROVE  MessagesServed'
<1>1. MessagesServed
  BY NoneChangesHands DEF Routed
<1>2. \A j \in 1 .. Len(wire) :
        wire[j].class \in Market => wire[j].streamId \in StreamIds
  BY DEF StreamInv, TypeInv, Definite
<1>3. ASSUME NEW i \in 1 .. Len(wire'), wire'[i].class \in Market
      PROVE  /\ wire'[i].streamId \in StreamIds
             /\ Serves(wire'[i].streamId, wire'[i].item)
  BY <1>1, <1>2, <1>3 DEF MessagesServed
<1> QED
  BY <1>3, ServesStill DEF MessagesServed, Serves, SM!GetItem

(* Nothing is asked, sent or taken up. *)
LEMMA RoutedStill ==
  ASSUME StreamInv, StreamInv', TableStep, Routed,
         \A s \in Subs : upa'[s].streamId = upa[s].streamId,
         \A id \in StreamIds : upstream'[id] \in {upstream[id], NoStream},
         \A i \in 1 .. Len(wire') :
           wire'[i].class \in Market =>
             \E j \in 1 .. Len(wire) : wire'[i] = wire[j],
         handling' \in {handling, NoMsg}
  PROVE  Routed'
<1> SUFFICES ASSUME SM!FreshIndexLeft'
             PROVE  (ItemsServed /\ StreamsServed /\ MessagesServed
                       /\ ResponseReachesItem)'
  BY DEF Routed
<1>1. ItemsServed'
  BY ItemsStill
<1>2. StreamsServed'
  BY StreamsStill
<1>3. MessagesServed'
  BY MessagesStill
<1>4. ResponseReachesItem'
  BY NoneChangesHands DEF Routed, ResponseReachesItem
<1> QED
  BY <1>1, <1>2, <1>3, <1>4

LEMMA TailIsOfIt ==
  ASSUME NEW S, NEW q \in Seq(S), q # <<>>
  PROVE  \A i \in 1 .. Len(Tail(q)) :
           \E j \in 1 .. Len(q) : Tail(q)[i] = q[j]
<1>1. /\ Len(q) \in Nat \ {0} /\ Len(Tail(q)) = Len(q) - 1
      /\ \A i \in 1 .. Len(Tail(q)) : Tail(q)[i] = q[i + 1]
  OBVIOUS
<1> QED
  BY <1>1

LEMMA RoutedStep ==
  StreamInv /\ Routed /\ [Next]_vars => Routed'
<1> SUFFICES ASSUME StreamInv, Routed, [Next]_vars
             PROVE  Routed'
  OBVIOUS
<1>a. StreamInv' /\ TableStep
  BY StreamStep
<1>b. upa \in [Subs -> Items] /\ upa' \in [Subs -> Items]
  BY <1>a DEF StreamInv, TypeInv, TypeOK, ItemTypes
<1>c. upstream \in [StreamIds -> Streams]
  BY DEF StreamInv, TypeInv, TypeOK, RmdsTypes, Streams
<1>d. ASSUME \A s \in Subs : upa'[s].streamId = upa[s].streamId,
             UNCHANGED rmdsVars, handling' \in {handling, NoMsg}
      PROVE  Routed'
  BY <1>a, <1>d, RoutedStill DEF rmdsVars
<1>1. ASSUME NEW l \in Listeners,
             AddSubscription(l) \/ Mute(l) \/ ClientStep(l)
      PROVE  Routed'
  <2>1. UNCHANGED rmdsVars /\ handling' = handling
    BY <1>1
    DEF AddSubscription, Mute, ClientStep, FindToDestroy,
        QueueSubscriptionDestroy, FindToRemove, RemoveListener,
        CountListeners, RemoveSubscription, OnDestroy
  <2>2. \A s \in Subs : upa'[s].streamId = upa[s].streamId
    BY <1>1, <1>b
    DEF AddSubscription, Mute, ClientStep, FindToDestroy,
        QueueSubscriptionDestroy, FindToRemove, RemoveListener,
        CountListeners, RemoveSubscription, OnDestroy, Close, Items
  <2> QED
    BY <1>d, <2>1, <2>2
<1>2. ASSUME \/ ProcessPendingSubscription \/ AddListener \/ RequestImage
             \/ Open
      PROVE  Routed'
  <2>1. UNCHANGED rmdsVars /\ handling' = handling
    BY <1>2 DEF ProcessPendingSubscription, AddListener, RequestImage, Open
  <2>2. \A s \in Subs : upa'[s].streamId = upa[s].streamId
    <3>1. CASE ProcessPendingSubscription
      <4>1. CASE UNCHANGED upa
        BY <4>1
      <4>2. CASE \E s \in Subs :
                   upa' = [upa EXCEPT ![s].symbol =
                             SymbolOf[Head(pendingSubscriptions)]]
        BY <1>b, <4>2 DEF Items
      <4>3. \/ UNCHANGED upa
            \/ \E s \in Subs :
                 upa' = [upa EXCEPT ![s].symbol =
                           SymbolOf[Head(pendingSubscriptions)]]
        BY <3>1 DEF ProcessPendingSubscription
      <4> QED
        BY <4>1, <4>2, <4>3
    <3>2. CASE AddListener
      <4>1. upa' = [upa EXCEPT ![adding.sub].listeners =
                                  @ \cup {adding.listener}]
        BY <3>2 DEF AddListener
      <4> QED
        BY <1>b, <4>1 DEF Items
    <3>3. CASE Open
      <4>1. upa' = [upa EXCEPT ![adding.sub] = [upa[adding.sub] EXCEPT
                                  !.state = "Subscribing", !.consumer = TRUE]]
        BY <3>3 DEF Open, Opened
      <4> QED
        BY <1>b, <4>1 DEF Items
    <3>4. CASE RequestImage
      <4>1. CASE UNCHANGED upa
        BY <4>1
      <4>2. CASE upa' = [upa EXCEPT
                           ![adding.sub].isRefresh = TRUE,
                           ![adding.sub].requester = adding.listener]
        BY <1>b, <4>2 DEF Items
      <4> QED
        BY <3>4, <4>1, <4>2 DEF RequestImage
    <3> QED
      BY <1>2, <3>1, <3>2, <3>3, <3>4
  <2> QED
    BY <1>d, <2>1, <2>2
<1>3. ASSUME TakeListeners \/ CallbackReturns \/ Reconnect
              \/ \E l \in Listeners : OnMessage(l)
      PROVE  Routed'
  BY <1>3, <1>d DEF TakeListeners, CallbackReturns, OnMessage, Reconnect
<1>4. ASSUME LoginResponse \/ SourceDirectoryRefreshComplete
      PROVE  Routed'
  <2>1. \A i \in 1 .. Len(wire') : \E j \in 1 .. Len(wire) : wire'[i] = wire[j]
    <3>1. /\ wire \in Seq(Responses) /\ wire # <<>> /\ wire' = Tail(wire)
      BY <1>4
      DEF LoginResponse, SourceDirectoryRefreshComplete, StreamInv, TypeInv,
          TypeOK, RmdsTypes
    <3> QED
      BY <3>1, TailIsOfIt
  <2>2. \A s \in Subs : upa'[s].streamId = upa[s].streamId
    BY <1>4, <1>b, OpenedKeeps DEF LoginResponse
  <2>3. upstream' = upstream /\ handling' = handling
    BY <1>4 DEF LoginResponse, SourceDirectoryRefreshComplete
  <2> QED
    BY <1>a, <2>1, <2>2, <2>3, RoutedStill
<1>5. ASSUME ProcessMarketPriceResponse
      PROVE  Routed'
  <2>1. UNCHANGED rmdsVars /\ handling' = NoMsg
    BY <1>5
    DEF ProcessMarketPriceResponse, ProcessStatus, ProcessRefresh,
        ProcessUpdate, HandlerUnchanged
  <2>2. \A s \in Subs : upa'[s].streamId = upa[s].streamId
    BY <1>5, <1>b, HandlersKeep
  <2> QED
    BY <1>d, <2>1, <2>2
<1>6. ASSUME LoseConnection
      PROVE  Routed'
  <2>1. /\ wire' = <<>> /\ upstream' = [id \in StreamIds |-> NoStream]
        /\ handling' = handling
    BY <1>6 DEF LoseConnection
  <2>2. \A s \in Subs : upa'[s].streamId = upa[s].streamId
    BY <1>6, <1>b DEF LoseConnection, Items
  <2> QED
    BY <1>a, <2>1, <2>2, RoutedStill
<1>7. ASSUME ReadMarketData
      PROVE  Routed'
  <2> SUFFICES ASSUME SM!FreshIndexLeft'
               PROVE  (ItemsServed /\ StreamsServed /\ MessagesServed
                         /\ ResponseReachesItem)'
    BY DEF Routed
  <2>1. UNCHANGED <<upstream, idVars>>
    BY <1>7 DEF ReadMarketData
  <2>2. \A s \in Subs : upa'[s].streamId = upa[s].streamId
    BY <1>7, <1>b DEF ReadMarketData, Items
  <2>3. /\ wire \in Seq(Responses) /\ wire # <<>> /\ wire' = Tail(wire)
        /\ Head(wire).class \in Market
    BY <1>7
    DEF ReadMarketData, StreamInv, TypeInv, TypeOK, RmdsTypes, Market
  <2>4. ItemsServed'
    BY <1>a, <2>2, ItemsStill
  <2>5. StreamsServed'
    BY <1>a, <2>1, StreamsStill
  <2>6. MessagesServed'
    BY <1>a, <2>3, TailIsOfIt, MessagesStill
  <2>7. Serves(Head(wire).streamId, Head(wire).item)
    <3>1. MessagesServed
      BY <1>a, NoneChangesHands DEF Routed
    <3>2. 1 \in 1 .. Len(wire) /\ Head(wire) = wire[1]
      BY <2>3
    <3> QED
      BY <2>3, <3>1, <3>2 DEF MessagesServed
  <2>8. \/ handling' = handling
        \/ /\ handling'.msg = Head(wire)
           /\ handling'.sub = SM!GetItem(Head(wire).streamId)
           /\ handling'.sub # None
    BY <1>7 DEF ReadMarketData
  <2>9. ResponseReachesItem'
    <3>1. SM!FreshIndexLeft /\ ResponseReachesItem
      BY <1>a, NoneChangesHands DEF Routed
    <3> QED
      BY <2>7, <2>8, <3>1 DEF ResponseReachesItem, Serves
  <2> QED
    BY <2>4, <2>5, <2>6, <2>9
<1>8. ASSUME OpenRequestCb \/ RefreshRequestCb
      PROVE  Routed'
  <2>1. PICK op \in {"open", "refresh"} : CanDispatch(op) /\ Dequeue
    BY <1>8 DEF OpenRequestCb, RefreshRequestCb
  <2>2. PICK s \in Subs : s = Head(requestQueue).who
    BY <2>1, HeadTyped DEF StreamInv, TypeInv, TypeOK, Queued
  <2>3. UNCHANGED <<wire, handling>>
    BY <1>8 DEF OpenRequestCb, RefreshRequestCb
  <2>4. CASE Ignored
    BY <1>d, <2>3, <2>4 DEF Ignored, rmdsVars
  <2>5. CASE SendOpenRequest(s) /\ upa[s].streamId = 0 /\ ~SM!HasFreeSlot
    BY <1>d, <2>3, <2>5 DEF SendOpenRequest, rmdsVars
  <2>6. CASE /\ SendOpenRequest(s)
             /\ upa[s].streamId # 0 \/ SM!HasFreeSlot
    <3> SUFFICES ASSUME SM!FreshIndexLeft'
                 PROVE  (ItemsServed /\ StreamsServed /\ MessagesServed
                           /\ ResponseReachesItem)'
      BY DEF Routed
    <3>1. /\ upa' = [upa EXCEPT ![s].streamId = RequestStream(s)]
          /\ upstream' \in {upstream, Asked(RequestStream(s), s)}
          /\ RequestStream(s) \in StreamIds
      <4>1. /\ upa' = [upa EXCEPT ![s].streamId = RequestStream(s)]
            /\ upstream' \in {upstream, Asked(RequestStream(s), s)}
        BY <2>6 DEF SendOpenRequest
      <4>2. upa'[s].streamId = RequestStream(s)
        BY <1>b, <4>1 DEF Items
      <4>3. RequestStream(s) # 0
        BY <2>6, IndexOfId, AddItemTypes
        DEF RequestStream, SendOpenRequest, StreamInv, TypeInv, TypeOK,
            ItemTypes
      <4> QED
        BY <1>b, <4>1, <4>2, <4>3 DEF Items
    <3>2. /\ SM!StreamId2Index(RequestStream(s)) < nextIndex'
          /\ itemArray'[SM!StreamId2Index(RequestStream(s))] \in {s, None}
      <4>1. CASE upa[s].streamId # 0
        <5>1. ItemsServed
          BY <1>a, NoneChangesHands DEF Routed
        <5> QED
          BY <1>a, <3>1, <4>1, <5>1, ServesStill DEF RequestStream, ItemsServed
      <4>2. CASE upa[s].streamId = 0
        <5>1. SM!AddItem(s)
          BY <2>6, <4>2 DEF SendOpenRequest
        <5>2. SM!FreshIndexLeft /\ nextIndex \in Nat
          BY <1>a, NoneChangesHands
        <5>3. /\ nextIndex' = nextIndex + 1
              /\ itemArray' = [itemArray EXCEPT ![nextIndex] = s]
              /\ RequestStream(s) = SM!Index2StreamId(nextIndex)
          BY <4>2, <5>1, <5>2
          DEF SM!AddItem, SM!FreshIndexLeft, SM!NextFreeIndex, RequestStream
        <5>4. /\ nextIndex \in SM!Indices
              /\ itemArray \in [SM!Indices -> Subs \cup {None}]
          BY <5>2, SubscriberAssumption
          DEF SM!FreshIndexLeft, SM!Indices, StreamInv, TypeInv, TypeOK,
              ItemTypes, SM!TypeOK
        <5> QED
          BY <5>2, <5>3, <5>4, IndexOfId
      <4> QED
        BY <4>1, <4>2
    <3>3. ItemsServed'
      <4>1. /\ upa'[s].streamId = RequestStream(s)
            /\ \A r \in Subs : r # s => upa'[r].streamId = upa[r].streamId
        BY <1>b, <3>1 DEF Items
      <4> QED
        BY <1>a, <3>2, <4>1, ItemsStill
    <3>4. StreamsServed'
      <4>1. CASE upstream' = upstream
        BY <1>a, <4>1, StreamsStill
      <4>2. CASE upstream' = Asked(RequestStream(s), s)
        <5>1. /\ upstream'[RequestStream(s)].sub = s
              /\ \A id \in StreamIds :
                   id # RequestStream(s) => upstream'[id] = upstream[id]
          BY <1>c, <3>1, <4>2 DEF Asked
        <5> QED
          BY <1>a, <3>2, <5>1, StreamsStill
      <4> QED
        BY <3>1, <4>1, <4>2
    <3>5. MessagesServed'
      BY <1>a, <2>3, MessagesStill
    <3>6. ResponseReachesItem'
      BY <1>a, <2>3, NoneChangesHands DEF Routed, ResponseReachesItem
    <3> QED
      BY <3>3, <3>4, <3>5, <3>6
  <2> QED
    BY <1>8, <2>2, <2>4, <2>5, <2>6 DEF OpenRequestCb, RefreshRequestCb
<1>9. ASSUME CloseRequestCb
      PROVE  Routed'
  <2>1. PICK id : /\ upstream' \in {upstream, [upstream EXCEPT ![id] = NoStream]}
    BY <1>9 DEF CloseRequestCb
  <2>2. \A k \in StreamIds : upstream'[k] \in {upstream[k], NoStream}
    BY <1>c, <2>1
  <2>3. UNCHANGED <<upa, wire, handling>>
    BY <1>9 DEF CloseRequestCb
  <2> QED
    BY <1>a, <2>2, <2>3, RoutedStill
<1>10. ASSUME DestroyRequestCb \/ SessionRequestCb("login")
               \/ SessionRequestCb("directory")
       PROVE  Routed'
  <2>1. UNCHANGED <<upa, upstream, handling>>
    BY <1>10 DEF DestroyRequestCb, SessionRequestCb, rmdsVars
  <2>2. \A i \in 1 .. Len(wire') :
          wire'[i].class \in Market =>
             \E j \in 1 .. Len(wire) : wire'[i] = wire[j]
    <3>1. CASE DestroyRequestCb
      BY <3>1 DEF DestroyRequestCb, rmdsVars
    <3>2. ASSUME NEW op \in {"login", "directory"}, SessionRequestCb(op)
          PROVE  \A i \in 1 .. Len(wire') :
                   wire'[i].class \in Market =>
                      \E j \in 1 .. Len(wire) : wire'[i] = wire[j]
      <4>1. /\ wire \in Seq(Responses)
            /\ wire' = Append(wire, Response(op, "ok", 0, None))
        BY <3>2
        DEF SessionRequestCb, StreamInv, TypeInv, TypeOK, RmdsTypes
      <4>2. Response(op, "ok", 0, None).class \notin Market
        BY DEF Response, Market
      <4> QED
        BY <4>1, <4>2
    <3> QED
      BY <1>10, <3>1, <3>2
  <2> QED
    BY <1>a, <2>1, <2>2, RoutedStill
<1>11. ASSUME RmdsStep
       PROVE  Routed'
  <2> SUFFICES ASSUME SM!FreshIndexLeft'
               PROVE  (ItemsServed /\ StreamsServed /\ MessagesServed
                         /\ ResponseReachesItem)'
    BY DEF Routed
  <2> DEFINE Sent(id, class, st, next) ==
        /\ Send(id, class, st, next) /\ upstream[id].sub # None
        /\ next.sub = upstream[id].sub
        /\ next.owed > 0 => upstream[id].owed > 0
  <2>0. PICK id \in StreamIds : \E class, st, next : Sent(id, class, st, next)
    <3>1. StreamsServed
      BY <1>a, NoneChangesHands DEF Routed
    <3>2. ASSUME NEW id \in StreamIds, NEW class, NEW st,
                 Answer(id, class, st)
          PROVE  \E next : /\ Send(id, class, st, next)
                           /\ upstream[id].sub # None
                           /\ next.sub = upstream[id].sub
                           /\ next.owed > 0 => upstream[id].owed > 0
      <4>1. [upstream[id] EXCEPT !.owed = @ - 1].sub = upstream[id].sub
        BY <1>c DEF Streams
      <4> QED
        BY <3>1, <3>2, <4>1 DEF Answer, StreamsServed
    <3>3. ASSUME NEW id \in StreamIds, Update(id)
          PROVE  /\ Send(id, "update", "ok", upstream[id])
                 /\ upstream[id].sub # None
      BY <3>3 DEF Update
    <3>4. ASSUME NEW id \in StreamIds, NEW st, ChangeState(id, st)
          PROVE  /\ Send(id, "status", st, upstream[id])
                 /\ upstream[id].sub # None
      BY <3>4 DEF ChangeState
    <3> QED
      BY <1>11, <3>2, <3>3, <3>4 DEF RmdsStep, RmdsAnswers
  <2>1. PICK class, st, next : Sent(id, class, st, next)
    BY <2>0
  <2>2. UNCHANGED <<upa, handling>>
    BY <2>1 DEF Send
  <2>3. ItemsServed'
    BY <1>a, <2>2, ItemsStill
  <2>4. StreamsServed'
    <3>1. /\ \A k \in StreamIds : k # id => upstream'[k] = upstream[k]
          /\ upstream'[id] \in {NoStream, next}
      BY <1>c, <2>1 DEF Send
    <3> QED
      BY <1>a, <2>1, <3>1, StreamsStill
  <2>5. MessagesServed'
    <3>1. Serves(id, upstream[id].sub)
      BY <1>a, <2>1, NoneChangesHands DEF Routed, StreamsServed
    <3>2. /\ wire \in Seq(Responses)
          /\ wire' = Append(wire, Response(class, st, id, upstream[id].sub))
      BY <2>1 DEF Send, StreamInv, TypeInv, TypeOK, RmdsTypes
    <3>3. \A i \in 1 .. Len(wire') :
            \/ \E j \in 1 .. Len(wire) : wire'[i] = wire[j]
            \/ wire'[i] = Response(class, st, id, upstream[id].sub)
      <4>1. /\ Len(wire) \in Nat /\ Len(wire') = Len(wire) + 1
            /\ \A i \in 1 .. Len(wire) : wire'[i] = wire[i]
            /\ wire'[Len(wire) + 1] = Response(class, st, id, upstream[id].sub)
        BY <3>2
      <4> QED
        BY <4>1
    <3> QED
      BY <1>a, <2>1, <3>1, <3>3, MessagesStill DEF Response
  <2>6. ResponseReachesItem'
    BY <1>a, <2>2, NoneChangesHands DEF Routed, ResponseReachesItem
  <2> QED
    BY <2>3, <2>4, <2>5, <2>6
<1>12. CASE UNCHANGED vars
  BY <1>12, <1>d DEF vars
<1>13. ASSUME ConsumerStep
       PROVE  Routed'
  <2>1. ASSUME DispatchEvent
        PROVE  Routed'
    BY <1>8, <1>9, <1>10, <2>1 DEF DispatchEvent
  <2> QED
    BY <1>2, <1>3, <1>4, <1>5, <1>7, <1>13, <2>1 DEF ConsumerStep
<1> QED
  BY <1>1, <1>6, <1>11, <1>12, <1>13 DEF Next

(* A response is processed by the item it was sent for as long as fresh    *)
(* stream ids are left, however late it comes and whatever was closed and  *)
(* opened meanwhile (UPAConsumer.cpp ProcessResponse).                     *)
THEOREM Routing == Spec => []ResponseReachesItem
<1>1. Init => StreamInv /\ Routed
  <2> SUFFICES ASSUME Init PROVE Routed
    BY StreamInit
  <2> QED
    BY DEF Init, Routed, ItemsServed, StreamsServed, MessagesServed,
           ResponseReachesItem, Unborn, NoStream
<1>2. StreamInv /\ Routed /\ [Next]_vars => (StreamInv /\ Routed)'
  BY StreamStep, RoutedStep
<1>3. Routed => ResponseReachesItem
  BY DEF Routed, ResponseReachesItem
<1> QED
  BY <1>1, <1>2, <1>3, PTL DEF Spec
-----------------------------------------------------------------------------
(* The client hears nothing of a subscription after its onDestroy, but for *)
(* the two exceptions of NoCallbackAfterDestroy.  The invariant.           *)

\* The destroy of l has reached the client's queue, or the client.
Departed(l) == l \in clientQueue \/ destroyed[l] > 0

\* Only what the client has muted is on its way to onDestroy.
MutedFirst ==
  /\ \A l \in Listeners : api[l] \notin {"new", "created"} => isShutdown[l]
  /\ \A l \in Listeners : Departed(l) => isShutdown[l]
  /\ \A i \in 1 .. Len(requestQueue) :
       requestQueue[i].op = "destroy" => isShutdown[requestQueue[i].who]

\* Listeners join the items of their own symbols.
Matched ==
  /\ \A s \in Subs :
       \A l \in upa[s].listeners : upa[s].symbol = SymbolOf[l]
  /\ adding.step # "none" => upa[adding.sub].symbol = SymbolOf[adding.listener]

\* s is an item of l.
ItemOf(s, l) == l \in upa[s].listeners /\ upa[s].symbol = SymbolOf[l]

\* Whoever is called, or about to be, and has not begun to leave, is on the
\* list of an item.
CalledIsListed ==
  \A l \in Listeners \ BadSource :
    /\ l \in snap \/ calling.listener = l
    /\ api[l] \in {"new", "created", "muted"}
    => \E s \in Subs : ItemOf(s, l)

\* Whoever is called although it has departed was left behind on an item
\* that its destroy has not found.
CalledIsOrphan ==
  \A l \in Listeners \ BadSource :
    Departed(l) /\ calling.listener = l =>
      \E s \in Subs \ Mapped : l \in upa[s].listeners /\ s # target[l]

Quiet == MutedFirst /\ Matched /\ CalledIsListed /\ CalledIsOrphan

-----------------------------------------------------------------------------
(* Steps that leave a part of it alone.                                    *)

\* Every destroy on the queue was there before.
NoNewDestroy ==
  \A i \in 1 .. Len(requestQueue') :
    requestQueue'[i].op = "destroy" =>
      \E j \in 1 .. Len(requestQueue) : requestQueue'[i] = requestQueue[j]

\* Items keep their symbols and lose no listener.
ListsKept ==
  \A s \in Subs : /\ upa'[s].symbol = upa[s].symbol
                  /\ upa[s].listeners \subseteq upa'[s].listeners

LEMMA MutedStill ==
  ASSUME TypeInv, MutedFirst, UNCHANGED clientVars, NoNewDestroy
  PROVE  MutedFirst'
<1>1. \A l \in Listeners : Departed(l)' = Departed(l)
  BY DEF Departed, clientVars
<1> QED
  BY <1>1 DEF MutedFirst, clientVars, NoNewDestroy

LEMMA MatchedStill ==
  ASSUME TypeInv, Matched, adding' \in {adding, NoAdd},
         \A s \in Subs : /\ upa'[s].symbol = upa[s].symbol
                         /\ upa'[s].listeners \subseteq upa[s].listeners
  PROVE  Matched'
<1>1. adding.step # "none" => adding.sub \in Subs
  BY DEF TypeInv, Definite
<1> QED
  BY <1>1 DEF Matched, NoAdd

LEMMA ListedStill ==
  ASSUME CalledIsListed, UNCHANGED api, ListsKept, snap' \subseteq snap,
         \/ calling' \in {calling, NoCall}
         \/ calling'.listener \in snap \cup BadSource
  PROVE  CalledIsListed'
<1>1. NoCall.listener \notin Listeners
  BY SubscriberAssumption DEF NoCall
<1>2. ASSUME NEW l \in Listeners \ BadSource,
             l \in snap' \/ calling'.listener = l
      PROVE  l \in snap \/ calling.listener = l
  BY <1>1, <1>2
<1> QED
  BY <1>2 DEF CalledIsListed, ItemOf, ListsKept

LEMMA OrphanStill ==
  ASSUME CalledIsOrphan, UNCHANGED <<clientQueue, destroyed>>, ListsKept,
         Mapped' \subseteq Mapped,
         \A l \in Listeners : target'[l] \in {target[l], None} \cup Mapped,
         \/ calling' \in {calling, NoCall}
         \/ calling'.listener \in BadSource
         \/ /\ ~isShutdown[calling'.listener]
            /\ MutedFirst
  PROVE  CalledIsOrphan'
<1>1. NoCall.listener \notin Listeners
  BY SubscriberAssumption DEF NoCall
<1>2. ASSUME NEW l \in Listeners \ BadSource, Departed(l)',
             calling'.listener = l
      PROVE  Departed(l) /\ calling.listener = l
  BY <1>1, <1>2 DEF Departed, MutedFirst
<1>3. ASSUME NEW l \in Listeners, NEW s \in Subs \ Mapped,
             l \in upa[s].listeners, s # target[l]
      PROVE  /\ s \in Subs \ Mapped' /\ l \in upa'[s].listeners
             /\ s # target'[l]
  BY <1>3, SubscriberAssumption DEF ListsKept
<1> QED
  BY <1>2, <1>3 DEF CalledIsOrphan

LEMMA QueueLeft ==
  ASSUME TypeInv,
         \/ requestQueue' = requestQueue
         \/ requestQueue # <<>> /\ requestQueue' = Tail(requestQueue)
         \/ \E q \in Seq(Requests) :
              /\ Enqueue(q)
              /\ \A i \in 1 .. Len(q) : q[i].op # "destroy"
  PROVE  NoNewDestroy
<1>1. CASE requestQueue' = requestQueue
  BY <1>1 DEF NoNewDestroy
<1>2. CASE requestQueue # <<>> /\ requestQueue' = Tail(requestQueue)
  <2>1. \A i \in 1 .. Len(requestQueue') :
          /\ i + 1 \in 1 .. Len(requestQueue)
          /\ requestQueue'[i] = requestQueue[i + 1]
    <3>1. PICK n \in Nat \ {0} :
            /\ n = Len(requestQueue) /\ Len(requestQueue') = n - 1
            /\ \A i \in 1 .. n - 1 : requestQueue'[i] = requestQueue[i + 1]
      BY <1>2, Taken
    <3> QED
      BY <3>1
  <2> QED
    BY <2>1 DEF NoNewDestroy
<1>3. ASSUME NEW q \in Seq(Requests), Enqueue(q),
             \A i \in 1 .. Len(q) : q[i].op # "destroy"
      PROVE  NoNewDestroy
  <2>1. PICK n \in Nat : n = Len(requestQueue)
    BY QueueFacts
  <2>2. /\ Len(requestQueue') = n + Len(q) /\ Len(q) \in Nat
        /\ \A i \in 1 .. n : requestQueue'[i] = requestQueue[i]
        /\ \A i \in n + 1 .. n + Len(q) : requestQueue'[i] = q[i - n]
    BY <1>3, <2>1, Added
  <2>3. ASSUME NEW i \in 1 .. Len(requestQueue'), i \notin 1 .. n
        PROVE  requestQueue'[i].op # "destroy"
    <3>1. i - n \in 1 .. Len(q) /\ requestQueue'[i] = q[i - n]
      BY <2>1, <2>2, <2>3
    <3> QED
      BY <1>3, <3>1
  <2> QED
    BY <2>1, <2>2, <2>3 DEF NoNewDestroy
<1> QED
  BY <1>1, <1>2, <1>3

LEMMA DestroyTyped ==
  ASSUME TypeInv
  PROVE  \A i \in 1 .. Len(requestQueue) :
           requestQueue[i].op = "destroy" => requestQueue[i].who \in Listeners
<1>1. \A i \in 1 .. Len(requestQueue) : requestQueue[i] \in Requests
  BY DEF TypeInv, TypeOK, ThreadTypes
<1> QED
  BY <1>1 DEF Requests

-----------------------------------------------------------------------------
(* Every step.                                                             *)

LEMMA QuietStep ==
  StreamInv /\ Quiet /\ [Next]_vars => Quiet'
<1> SUFFICES ASSUME StreamInv, Quiet, [Next]_vars
             PROVE  Quiet'
  OBVIOUS
<1>a. TypeInv /\ MutedFirst /\ Matched /\ CalledIsListed /\ CalledIsOrphan
  BY DEF StreamInv, Quiet
<1>b. /\ upa \in [Subs -> Items] /\ DOMAIN api = Listeners
      /\ api = [l \in Listeners |-> api[l]]
      /\ target \in [Listeners -> Subs \cup {None}]
      /\ isShutdown \in [Listeners -> BOOLEAN]
      /\ destroyed \in [Listeners -> Nat]
      /\ subscriptions \in [Symbols -> Subs \cup {None}]
      /\ Mapped \subseteq Subs
  BY <1>a DEF TypeInv, TypeOK, ItemTypes, ClientTypes, Mapped
<1>c. ASSUME UNCHANGED <<clientVars, snap>>, NoNewDestroy,
             calling' \in {calling, NoCall}, adding' \in {adding, NoAdd},
             Mapped' \subseteq Mapped,
             \A s \in Subs : /\ upa'[s].symbol = upa[s].symbol
                             /\ upa'[s].listeners = upa[s].listeners
      PROVE  Quiet'
  <2>1. ListsKept /\ UNCHANGED <<api, target, clientQueue, destroyed>>
    BY <1>c DEF ListsKept, clientVars
  <2> QED
    BY <1>a, <1>c, <2>1, MutedStill, MatchedStill, ListedStill, OrphanStill
    DEF Quiet
<1>1. ASSUME NEW l \in Listeners, AddSubscription(l) \/ Mute(l)
      PROVE  Quiet'
  <2>1. /\ UNCHANGED <<target, clientQueue, destroyed, subscriptions, upa,
                        requestQueue, adding, snap, calling>>
        /\ api[l] \in {"new", "created"}
        /\ api' = [api EXCEPT ![l] = api'[l]]
        /\ api'[l] \in {"created", "muted"}
        /\ api'[l] = "muted" => isShutdown'[l]
        /\ \A k \in Listeners : isShutdown[k] => isShutdown'[k]
    BY <1>1, <1>b DEF AddSubscription, Mute, deliveryVars
  <2>2. MutedFirst'
    <3>1. \A k \in Listeners : Departed(k)' = Departed(k)
      BY <2>1 DEF Departed
    <3>2. \A i \in 1 .. Len(requestQueue) :
            requestQueue[i].op = "destroy" =>
               requestQueue[i].who \in Listeners
      BY <1>a, DestroyTyped
    <3> QED
      BY <1>a, <1>b, <2>1, <3>1, <3>2 DEF MutedFirst
  <2>3. Matched' /\ Mapped' = Mapped /\ ListsKept
    BY <1>a, <2>1 DEF Matched, Mapped, ListsKept
  <2>4. CalledIsListed'
    BY <1>a, <1>b, <2>1 DEF CalledIsListed, ItemOf
  <2>5. CalledIsOrphan'
    BY <1>a, <2>1, <2>3, OrphanStill
  <2> QED
    BY <2>2, <2>3, <2>4, <2>5 DEF Quiet
<1>2. ASSUME NEW l \in Listeners, FindToDestroy(l)
      PROVE  Quiet'
  <2>1. /\ UNCHANGED <<isShutdown, clientQueue, subscriptions, upa,
                        requestQueue, adding, snap, calling>>
        /\ api[l] = "muted" /\ isShutdown[l]
        /\ api' = [api EXCEPT ![l] = api'[l]]
        /\ api'[l] \in {"remove", "destroy"}
        /\ target' = [target EXCEPT ![l] = FoundSub(l)]
        /\ destroyed' = [destroyed EXCEPT ![l] = destroyed'[l]]
        /\ FoundSub(l) # None => destroyed' = destroyed
    <3>1. /\ UNCHANGED <<isShutdown, clientQueue, subscriptions, upa,
                          requestQueue, adding, snap, calling>>
          /\ api[l] = "muted" /\ target' = [target EXCEPT ![l] = FoundSub(l)]
      BY <1>2 DEF FindToDestroy, deliveryVars
    <3>2. isShutdown[l]
      BY <1>a, <3>1 DEF MutedFirst
    <3>3. CASE FoundSub(l) = None
      <4>1. /\ destroyed' = [destroyed EXCEPT ![l] = @ + 1]
            /\ api' = [api EXCEPT ![l] = "remove"]
        BY <1>2, <3>3 DEF FindToDestroy
      <4>2. api'[l] = "remove" /\ destroyed'[l] = destroyed[l] + 1
        BY <1>b, <4>1
      <4> QED
        BY <3>1, <3>2, <3>3, <4>1, <4>2
    <3>4. CASE FoundSub(l) # None
      <4>1. destroyed' = destroyed /\ api' = [api EXCEPT ![l] = "destroy"]
        BY <1>2, <3>4 DEF FindToDestroy
      <4>2. api'[l] = "destroy" /\ destroyed = [destroyed EXCEPT ![l] = destroyed[l]]
        BY <1>b, <4>1
      <4> QED
        BY <3>1, <3>2, <4>1, <4>2
    <3> QED
      BY <3>3, <3>4
  <2>2. \A k \in Listeners \ {l} :
          /\ api'[k] = api[k] /\ destroyed'[k] = destroyed[k]
          /\ target'[k] = target[k]
    BY <1>b, <2>1
  <2>3. MutedFirst'
    <3>1. \A k \in Listeners \ {l} : Departed(k)' = Departed(k)
      BY <2>1, <2>2 DEF Departed
    <3> QED
      BY <1>a, <2>1, <2>2, <3>1 DEF MutedFirst
  <2>4. Matched' /\ Mapped' = Mapped
    BY <1>a, <2>1 DEF Matched, Mapped
  <2>5. CalledIsListed'
    BY <1>a, <1>b, <2>1, <2>2 DEF CalledIsListed, ItemOf
  <2>6. ASSUME NEW k \in Listeners \ BadSource, Departed(k)',
               calling.listener = k
        PROVE  \E s \in Subs \ Mapped : /\ k \in upa[s].listeners
                                        /\ s # target'[k]
    <3>1. CASE k # l
      BY <1>a, <2>1, <2>2, <2>6, <3>1 DEF CalledIsOrphan, Departed
    <3>2. CASE k = l /\ FoundSub(l) # None
      <4>1. FoundSub(l) \in Mapped
        BY <2>6, <3>2, SubscriberAssumption DEF FoundSub, Mapped
      <4> QED
        BY <1>a, <1>b, <2>1, <2>6, <3>2, <4>1 DEF CalledIsOrphan, Departed
    <3>3. CASE k = l /\ FoundSub(l) = None
      <4>1. PICK s \in Subs : ItemOf(s, l)
        BY <1>a, <2>1, <2>6, <3>3 DEF CalledIsListed
      <4>2. subscriptions[SymbolOf[l]] = None
        BY <2>6, <3>3 DEF FoundSub
      <4>3. s \notin Mapped
        BY <4>1, <4>2, SubscriberAssumption
        DEF Mapped, ItemOf, StreamInv, Named
      <4> QED
        BY <1>b, <2>1, <3>3, <4>1, <4>3, SubscriberAssumption DEF ItemOf
    <3> QED
      BY <3>1, <3>2, <3>3
  <2> QED
    BY <2>1, <2>3, <2>4, <2>5, <2>6 DEF Quiet, CalledIsOrphan
<1>3. ASSUME NEW l \in Listeners, QueueSubscriptionDestroy(l)
      PROVE  Quiet'
  <2>1. /\ UNCHANGED <<isShutdown, clientQueue, destroyed, subscriptions, upa,
                        adding, snap, calling>>
        /\ api[l] = "destroy" /\ isShutdown[l]
        /\ api' = [api EXCEPT ![l] = "remove"]
        /\ target' = [target EXCEPT ![l] = None]
    BY <1>3, <1>a
    DEF QueueSubscriptionDestroy, QueueDestroy, deliveryVars, MutedFirst
  <2>2. \A k \in Listeners \ {l} : api'[k] = api[k] /\ target'[k] = target[k]
    BY <1>b, <2>1
  <2>3. \A i \in 1 .. Len(requestQueue') :
          requestQueue'[i].op = "destroy" => isShutdown[requestQueue'[i].who]
    <3>1. CASE requestQueue' = requestQueue
      BY <1>a, <3>1 DEF MutedFirst
    <3>2. CASE Enqueue(<<Request("destroy", l)>>)
      <4>1. PICK q \in Seq(Requests) :
              Len(q) = 1 /\ q[1] = Request("destroy", l) /\ Enqueue(q)
        <5>1. PICK r \in Requests : r = Request("destroy", l)
          BY DEF Request, Requests
        <5>2. <<r>> \in Seq(Requests) /\ Len(<<r>>) = 1 /\ <<r>>[1] = r
          OBVIOUS
        <5> QED
          BY <3>2, <5>1, <5>2
      <4>2. PICK n \in Nat :
              /\ n = Len(requestQueue) /\ Len(requestQueue') = n + 1
              /\ \A i \in 1 .. n : requestQueue'[i] = requestQueue[i]
              /\ requestQueue'[n + 1] = Request("destroy", l)
        <5>1. PICK n \in Nat : n = Len(requestQueue)
          BY <1>a, QueueFacts
        <5>2. /\ Len(requestQueue') = n + Len(q)
              /\ \A i \in 1 .. n : requestQueue'[i] = requestQueue[i]
              /\ \A i \in n + 1 .. n + Len(q) : requestQueue'[i] = q[i - n]
          BY <1>a, <4>1, <5>1, Added
        <5>3. n + 1 \in n + 1 .. n + Len(q) /\ n + 1 - n = 1
          BY <4>1, <5>1
        <5>4. requestQueue'[n + 1] = q[1]
          BY <5>2, <5>3
        <5> QED
          BY <4>1, <5>1, <5>2, <5>4
      <4> QED
        BY <1>a, <2>1, <4>2 DEF MutedFirst, Request
    <3> QED
      BY <1>3, <3>1, <3>2 DEF QueueSubscriptionDestroy, QueueDestroy
  <2>4. MutedFirst'
    BY <1>a, <2>1, <2>2, <2>3 DEF MutedFirst, Departed
  <2>5. Matched' /\ Mapped' = Mapped /\ ListsKept
    BY <1>a, <2>1 DEF Matched, Mapped, ListsKept
  <2>6. CalledIsListed'
    BY <1>a, <1>b, <2>1, <2>2 DEF CalledIsListed, ItemOf
  <2>7. CalledIsOrphan'
    BY <1>a, <1>b, <2>1, <2>5, OrphanStill
  <2> QED
    BY <2>4, <2>5, <2>6, <2>7 DEF Quiet
<1>4. ASSUME NEW l \in Listeners, FindToRemove(l) \/ CountListeners(l)
      PROVE  Quiet'
  <2>1. /\ UNCHANGED <<isShutdown, clientQueue, destroyed, subscriptions, upa,
                        requestQueue, adding, snap, calling>>
        /\ api[l] \in {"remove", "count"} /\ isShutdown[l]
        /\ api' = [api EXCEPT ![l] = api'[l]]
        /\ api'[l] \in {"unlist", "erase", "done"}
        /\ target' = [target EXCEPT ![l] = target'[l]]
        /\ target'[l] \in {FoundSub(l), None}
    BY <1>4, <1>a, <1>b
    DEF FindToRemove, CountListeners, deliveryVars, MutedFirst
  <2>2. \A k \in Listeners \ {l} : api'[k] = api[k] /\ target'[k] = target[k]
    BY <1>b, <2>1
  <2>3. MutedFirst'
    BY <1>a, <2>1, <2>2 DEF MutedFirst, Departed
  <2>4. Matched' /\ Mapped' = Mapped /\ ListsKept
    BY <1>a, <2>1 DEF Matched, Mapped, ListsKept
  <2>5. CalledIsListed'
    BY <1>a, <1>b, <2>1, <2>2 DEF CalledIsListed, ItemOf
  <2>6. CalledIsOrphan'
    <3>1. FoundSub(l) \in Mapped \cup {None}
      BY SubscriberAssumption DEF FoundSub, Mapped
    <3> QED
      BY <1>a, <1>b, <2>1, <2>2, <2>4, <3>1, OrphanStill
  <2> QED
    BY <2>3, <2>4, <2>5, <2>6 DEF Quiet
<1>5. ASSUME NEW l \in Listeners, RemoveListener(l)
      PROVE  Quiet'
  <2>1. /\ UNCHANGED <<isShutdown, clientQueue, destroyed, subscriptions,
                        target, requestQueue, adding, snap, calling>>
        /\ api[l] = "unlist" /\ isShutdown[l]
        /\ api' = [api EXCEPT ![l] = "count"]
    BY <1>5, <1>a DEF RemoveListener, deliveryVars, MutedFirst
  <2>2. \A k \in Listeners \ {l} : api'[k] = api[k]
    BY <1>b, <2>1
  <2>3. \A s \in Subs :
          /\ upa'[s].symbol = upa[s].symbol
          /\ upa'[s].listeners \in {upa[s].listeners, upa[s].listeners \ {l}}
          /\ s # target[l] => upa'[s].listeners = upa[s].listeners
    <3>1. upa' = [upa EXCEPT ![target[l]].listeners = @ \ {l}]
      BY <1>5 DEF RemoveListener
    <3> QED
      BY <1>b, <3>1 DEF Items
  <2>4. MutedFirst'
    BY <1>a, <2>1, <2>2 DEF MutedFirst, Departed
  <2>5. Matched' /\ Mapped' = Mapped
    <3>1. Matched'
      BY <1>a, <2>1, <2>3, MatchedStill
    <3> QED
      BY <2>1, <3>1 DEF Mapped
  <2>6. CalledIsListed'
    <3>1. ASSUME NEW k \in Listeners \ BadSource,
                 k \in snap \/ calling.listener = k,
                 api'[k] \in {"new", "created", "muted"}
          PROVE  \E s \in Subs : ItemOf(s, k)'
      <4>1. k # l
        BY <1>b, <2>1, <3>1
      <4>2. PICK s \in Subs : ItemOf(s, k)
        BY <1>a, <2>2, <3>1, <4>1 DEF CalledIsListed
      <4> QED
        BY <2>3, <4>1, <4>2 DEF ItemOf
    <3> QED
      BY <2>1, <3>1 DEF CalledIsListed
  <2>7. CalledIsOrphan'
    BY <1>a, <2>1, <2>3, <2>5 DEF CalledIsOrphan, Departed
  <2> QED
    BY <2>4, <2>5, <2>6, <2>7 DEF Quiet
<1>6. ASSUME NEW l \in Listeners, RemoveSubscription(l)
      PROVE  Quiet'
  <2>1. /\ UNCHANGED <<isShutdown, clientQueue, destroyed, target, adding,
                        snap, calling>>
        /\ api[l] = "erase" /\ isShutdown[l]
        /\ api' = [api EXCEPT ![l] = "done"]
    BY <1>6, <1>a DEF RemoveSubscription, deliveryVars, MutedFirst
  <2>2. \A k \in Listeners \ {l} : api'[k] = api[k]
    BY <1>b, <2>1
  <2>3. \A s \in Subs : /\ upa'[s].symbol = upa[s].symbol
                         /\ upa'[s].listeners = upa[s].listeners
    BY <1>6, <1>b DEF RemoveSubscription, Close, Items
  <2>4. NoNewDestroy
    <3>1. CASE Enqueue(<<Request("close", subscriptions[SymbolOf[l]])>>)
               /\ subscriptions[SymbolOf[l]] # None
      <4>1. Request("close", subscriptions[SymbolOf[l]]) \in Requests
        BY <1>b, <3>1, SubscriberAssumption DEF Request, Requests
      <4>2. PICK r \in Requests : r.op = "close" /\ Enqueue(<<r>>)
        BY <3>1, <4>1 DEF Request
      <4>3. /\ <<r>> \in Seq(Requests)
            /\ \A i \in 1 .. Len(<<r>>) : <<r>>[i].op # "destroy"
        BY <4>2
      <4> QED
        BY <1>a, <4>2, <4>3, QueueLeft
    <3>2. CASE requestQueue' = requestQueue
      BY <1>a, <3>2, QueueLeft
    <3> QED
      BY <1>6, <3>1, <3>2 DEF RemoveSubscription, Close
  <2>5. Mapped' \subseteq Mapped
    BY <1>6, <1>b DEF RemoveSubscription, Erase, Mapped
  <2>6. MutedFirst'
    BY <1>a, <2>1, <2>2, <2>4 DEF MutedFirst, Departed, NoNewDestroy
  <2>7. Matched' /\ ListsKept
    BY <1>a, <2>1, <2>3, MatchedStill DEF ListsKept
  <2>8. CalledIsListed'
    BY <1>a, <1>b, <2>1, <2>2, <2>3 DEF CalledIsListed, ItemOf
  <2>9. CalledIsOrphan'
    BY <1>a, <2>1, <2>5, <2>7, OrphanStill
  <2> QED
    BY <2>6, <2>7, <2>8, <2>9 DEF Quiet
<1>7. ASSUME NEW l \in Listeners, OnDestroy(l)
      PROVE  Quiet'
  <2>1. /\ UNCHANGED <<api, isShutdown, target, subscriptions, upa,
                        requestQueue, adding, snap, calling>>
        /\ \A k \in Listeners : Departed(k)' => Departed(k)
    BY <1>7, <1>b DEF OnDestroy, deliveryVars, Departed
  <2>2. MutedFirst'
    BY <1>a, <2>1 DEF MutedFirst
  <2>3. Matched' /\ Mapped' = Mapped
    BY <1>a, <2>1 DEF Matched, Mapped
  <2>4. CalledIsListed' /\ CalledIsOrphan'
    BY <1>a, <2>1, <2>3 DEF CalledIsListed, CalledIsOrphan, ItemOf
  <2> QED
    BY <2>2, <2>3, <2>4 DEF Quiet
<1>8. ASSUME ProcessPendingSubscription
      PROVE  Quiet'
  <2>1. PICK l \in Listeners : /\ l = Head(pendingSubscriptions)
                              /\ SymbolOf[l] \in Symbols
    BY <1>a, <1>8, SubscriberAssumption
    DEF ProcessPendingSubscription, TypeInv, TypeOK, ClientTypes
  <2>2. /\ snap' = {} /\ calling = NoCall
        /\ calling' = NoCall \/ calling'.listener \in BadSource
        /\ UNCHANGED <<clientVars, requestQueue>>
    BY <1>8, <2>1 DEF ProcessPendingSubscription, Idle
  <2>3. calling'.listener \notin Listeners \ BadSource
    BY <2>2, SubscriberAssumption DEF NoCall
  <2>4. CalledIsListed' /\ CalledIsOrphan'
    BY <2>2, <2>3 DEF CalledIsListed, CalledIsOrphan
  <2>5. MutedFirst'
    BY <1>a, <2>2, QueueLeft, MutedStill
  <2>6. Matched'
    <3>1. CASE l \in BadSource
      BY <1>a, <1>8, <2>1, <3>1 DEF ProcessPendingSubscription, Matched
    <3>2. CASE l \notin BadSource /\ subscriptions[SymbolOf[l]] # None
      <4>1. /\ adding' = [listener |-> l, sub |-> subscriptions[SymbolOf[l]],
                          step |-> "join"]
            /\ upa' = upa
        BY <1>8, <2>1, <3>2 DEF ProcessPendingSubscription
      <4> QED
        BY <1>a, <2>1, <3>2, <4>1 DEF Matched, StreamInv, Named
    <3>3. CASE l \notin BadSource /\ subscriptions[SymbolOf[l]] = None
      <4>1. PICK s \in Subs :
              /\ upa[s].symbol = None
              /\ upa' = [upa EXCEPT ![s].symbol = SymbolOf[l]]
              /\ adding' = [listener |-> l, sub |-> s, step |-> "create"]
        BY <1>8, <2>1, <3>3 DEF ProcessPendingSubscription
      <4>2. upa[s].listeners = {}
        BY <1>a, <1>b, <4>1, SubscriberAssumption DEF Matched, Items
      <4>3. /\ upa'[s].symbol = SymbolOf[l]
            /\ \A r \in Subs : /\ upa'[r].listeners = upa[r].listeners
                              /\ r # s => upa'[r].symbol = upa[r].symbol
        BY <1>b, <4>1 DEF Items
      <4> QED
        BY <1>a, <4>1, <4>2, <4>3 DEF Matched
    <3> QED
      BY <3>1, <3>2, <3>3
  <2> QED
    BY <2>4, <2>5, <2>6 DEF Quiet
<1>9. ASSUME AddListener
      PROVE  Quiet'
  <2>1. /\ UNCHANGED <<clientVars, subscriptions, requestQueue, snap, calling>>
        /\ adding.sub \in Subs /\ adding.step # "none"
        /\ upa' = [upa EXCEPT ![adding.sub].listeners =
                                 @ \cup {adding.listener}]
        /\ adding' = [adding EXCEPT !.step =
                        IF @ = "join" THEN "image" ELSE "open"]
    BY <1>9, <1>a DEF AddListener, deliveryVars, TypeInv, Definite
  <2>2. /\ adding'.sub = adding.sub /\ adding'.listener = adding.listener
    BY <1>a, <2>1 DEF TypeInv, TypeOK, ThreadTypes
  <2>3. \A s \in Subs :
          /\ upa'[s].symbol = upa[s].symbol
          /\ s # adding.sub => upa'[s].listeners = upa[s].listeners
          /\ upa'[adding.sub].listeners
               = upa[adding.sub].listeners \cup {adding.listener}
    BY <1>b, <2>1 DEF Items
  <2>4. ListsKept /\ Mapped' = Mapped
    BY <2>1, <2>3 DEF ListsKept, Mapped
  <2>5. Matched'
    BY <1>a, <2>1, <2>2, <2>3 DEF Matched
  <2>6. MutedFirst' /\ CalledIsListed' /\ CalledIsOrphan'
    BY <1>a, <2>1, <2>4, QueueLeft, MutedStill, ListedStill, OrphanStill
    DEF clientVars
  <2> QED
    BY <2>5, <2>6 DEF Quiet
<1>10. ASSUME RequestImage \/ Open
       PROVE  Quiet'
  <2>1. /\ UNCHANGED <<clientVars, snap, calling, subscriptions>>
        /\ adding' = NoAdd
    BY <1>10 DEF RequestImage, Open, deliveryVars
  <2>2. \A s \in Subs : /\ upa'[s].symbol = upa[s].symbol
                         /\ upa'[s].listeners = upa[s].listeners
    <3>1. CASE RequestImage
      BY <1>b, <3>1 DEF RequestImage, Items
    <3>2. CASE Open
      <4>1. upa' = [upa EXCEPT ![adding.sub] = [upa[adding.sub] EXCEPT
                                  !.state = "Subscribing", !.consumer = TRUE]]
        BY <3>2 DEF Open, Opened
      <4> QED
        BY <1>b, <4>1 DEF Items
    <3> QED
      BY <1>10, <3>1, <3>2
  <2>3. NoNewDestroy
    <3>1. CASE requestQueue' = requestQueue
      BY <1>a, <3>1, QueueLeft
    <3>2. CASE \E op \in {"refresh", "open"} :
                 Enqueue(<<Request(op, adding.sub)>>) /\ adding.sub \in Subs
      <4>1. PICK r \in Requests : r.op # "destroy" /\ Enqueue(<<r>>)
        BY <3>2 DEF Request, Requests
      <4>2. /\ <<r>> \in Seq(Requests)
            /\ \A i \in 1 .. Len(<<r>>) : <<r>>[i].op # "destroy"
        BY <4>1
      <4> QED
        BY <1>a, <4>1, <4>2, QueueLeft
    <3> QED
      BY <1>10, <1>a, <3>1, <3>2 DEF RequestImage, Open, TypeInv, Definite
  <2> QED
    BY <1>c, <2>1, <2>2, <2>3 DEF Mapped
<1>11. ASSUME \/ OpenRequestCb \/ RefreshRequestCb \/ CloseRequestCb
              \/ SessionRequestCb("login") \/ SessionRequestCb("directory")
       PROVE  Quiet'
  <2>1. /\ UNCHANGED <<clientVars, snap, calling, adding, subscriptions>>
        /\ requestQueue # <<>> /\ requestQueue' = Tail(requestQueue)
    BY <1>11
    DEF OpenRequestCb, RefreshRequestCb, CloseRequestCb, SessionRequestCb,
        CanDispatch, Dequeue, deliveryVars
  <2>2. \A s \in Subs : /\ upa'[s].symbol = upa[s].symbol
                         /\ upa'[s].listeners = upa[s].listeners
    <3>1. CASE UNCHANGED upa
      BY <3>1
    <3>2. CASE \E s : upa' = [upa EXCEPT ![s].streamId = RequestStream(s)]
      BY <1>b, <3>2 DEF Items
    <3>3. \/ UNCHANGED upa
          \/ \E s : upa' = [upa EXCEPT ![s].streamId = RequestStream(s)]
      BY <1>11
      DEF OpenRequestCb, RefreshRequestCb, CloseRequestCb, SessionRequestCb,
          SendOpenRequest, Ignored
    <3> QED
      BY <3>1, <3>2, <3>3
  <2> QED
    BY <1>a, <1>c, <2>1, <2>2, QueueLeft DEF Mapped
<1>12. ASSUME DestroyRequestCb
       PROVE  Quiet'
  <2>1. /\ UNCHANGED <<api, isShutdown, target, destroyed, subscriptions, upa,
                        adding, snap>>
        /\ calling = NoCall /\ calling' = NoCall
        /\ CanDispatch("destroy") /\ Dequeue
        /\ clientQueue' = clientQueue \cup {Head(requestQueue).who}
    BY <1>12 DEF DestroyRequestCb, deliveryVars, CanDispatch, Idle
  <2>2. /\ requestQueue # <<>> /\ requestQueue' = Tail(requestQueue)
        /\ Head(requestQueue).op = "destroy"
    BY <2>1 DEF CanDispatch, Dequeue
  <2>3. isShutdown[Head(requestQueue).who]
    BY <1>a, <2>2, Taken DEF MutedFirst
  <2>4. MutedFirst'
    <3>1. NoNewDestroy
      BY <1>a, <2>2, QueueLeft
    <3> QED
      BY <1>a, <2>1, <2>3, <3>1 DEF MutedFirst, NoNewDestroy, Departed
  <2>5. Matched'
    BY <1>a, <2>1 DEF Matched
  <2>6. CalledIsListed' /\ CalledIsOrphan'
    <3>1. NoCall.listener \notin Listeners
      BY SubscriberAssumption DEF NoCall
    <3> QED
      BY <1>a, <2>1, <3>1 DEF CalledIsListed, CalledIsOrphan, ItemOf
  <2> QED
    BY <2>4, <2>5, <2>6 DEF Quiet
<1>13. ASSUME \/ ReadMarketData \/ ProcessMarketPriceResponse
              \/ CallbackReturns \/ LoseConnection
              \/ RmdsStep \/ UNCHANGED vars
       PROVE  Quiet'
  <2>1. /\ UNCHANGED <<clientVars, requestQueue, snap, adding, subscriptions>>
        /\ calling' \in {calling, NoCall}
    <3>1. CASE ReadMarketData \/ CallbackReturns \/ LoseConnection
      BY <3>1 DEF ReadMarketData, CallbackReturns, LoseConnection, deliveryVars
    <3>2. CASE ProcessMarketPriceResponse
      <4>1. HandlerUnchanged
        BY <3>2
        DEF ProcessMarketPriceResponse, ProcessStatus, ProcessRefresh, ProcessUpdate
      <4> QED
        BY <4>1 DEF HandlerUnchanged
    <3>3. CASE RmdsStep \/ UNCHANGED vars
      BY <3>3
      DEF RmdsStep, RmdsAnswers, Answer, Update, ChangeState, Send, vars, deliveryVars
    <3> QED
      BY <1>13, <3>1, <3>2, <3>3
  <2>2. \A s \in Subs : /\ upa'[s].symbol = upa[s].symbol
                         /\ upa'[s].listeners = upa[s].listeners
    <3>1. CASE ProcessMarketPriceResponse
      BY <1>b, <3>1, HandlersKeep
    <3>2. CASE ReadMarketData
      <4>1. PICK r : \/ UNCHANGED upa
                     \/ upa' = [upa EXCEPT ![r].gotInitial = TRUE]
        BY <3>2 DEF ReadMarketData
      <4>2. CASE UNCHANGED upa
        BY <4>2
      <4>3. CASE upa' = [upa EXCEPT ![r].gotInitial = TRUE]
        BY <1>b, <4>3 DEF Items
      <4> QED
        BY <4>1, <4>2, <4>3
    <3>3. CASE LoseConnection
      BY <1>b, <3>3 DEF LoseConnection, Items
    <3>4. CASE CallbackReturns \/ RmdsStep \/ UNCHANGED vars
      BY <3>4
      DEF CallbackReturns, RmdsStep, RmdsAnswers, Answer, Update, ChangeState,
          Send, vars
    <3> QED
      BY <1>13, <3>1, <3>2, <3>3, <3>4
  <2> QED
    BY <1>a, <1>c, <2>1, <2>2, QueueLeft DEF Mapped
<1>14. ASSUME Reconnect \/ LoginResponse
       PROVE  Quiet'
  <2>1. UNCHANGED <<clientVars, snap, calling, adding, subscriptions, upa>>
    BY <1>14 DEF Reconnect, LoginResponse, deliveryVars
  <2>2. PICK r \in Requests : r.op # "destroy" /\ Enqueue(<<r>>)
    BY <1>14 DEF Reconnect, LoginResponse, Request, Requests
  <2>3. /\ <<r>> \in Seq(Requests)
        /\ \A i \in 1 .. Len(<<r>>) : <<r>>[i].op # "destroy"
    BY <2>2
  <2> QED
    BY <1>a, <1>c, <2>1, <2>2, <2>3, QueueLeft DEF Mapped
<1>15. ASSUME SourceDirectoryRefreshComplete
       PROVE  Quiet'
  <2>1. UNCHANGED <<clientVars, snap, calling, adding, subscriptions>>
    BY <1>15 DEF SourceDirectoryRefreshComplete, deliveryVars
  <2>2. \A s \in Subs : /\ upa'[s].symbol = upa[s].symbol
                         /\ upa'[s].listeners = upa[s].listeners
    BY <1>b, <1>15, OpenedKeeps
  <2>3. PICK order \in Orders(Mapped) :
          Enqueue([i \in DOMAIN order |-> Request("open", order[i])])
    BY <1>15 DEF SourceDirectoryRefreshComplete
  <2>4. order \in Seq(Subs)
    BY <1>b, <2>3, OrderIsSeq
  <2>5. PICK q \in Seq(Requests) :
          /\ q = [i \in DOMAIN order |-> Request("open", order[i])]
          /\ \A i \in 1 .. Len(q) : q[i].op # "destroy"
    <3> DEFINE q == [i \in DOMAIN order |-> Request("open", order[i])]
    <3>1. DOMAIN order = 1 .. Len(order) /\ Len(order) \in Nat
      BY <2>4
    <3>2. \A i \in 1 .. Len(order) : Request("open", order[i]) \in Requests
      BY <2>4 DEF Request, Requests
    <3>3. q \in Seq(Requests) /\ Len(q) = Len(order)
      BY <3>1, <3>2
    <3>4. \A i \in 1 .. Len(q) : q[i].op # "destroy"
      BY <3>1, <3>3 DEF Request
    <3> QED
      BY <3>3, <3>4
  <2> QED
    BY <1>a, <1>c, <2>1, <2>2, <2>3, <2>5, QueueLeft DEF Mapped
<1>16. ASSUME TakeListeners
       PROVE  Quiet'
  <2>1. /\ UNCHANGED <<clientVars, requestQueue, calling, adding, upa,
                        subscriptions>>
        /\ notices # <<>> /\ calling = NoCall
        /\ snap' = upa[Head(notices).sub].listeners
    BY <1>16 DEF TakeListeners
  <2>2. PICK s \in Subs : snap' = upa[s].listeners
    <3>1. Head(notices) \in Notices
      BY <1>a, <2>1 DEF TypeInv, TypeOK, ThreadTypes
    <3> QED
      BY <2>1, <3>1 DEF Notices
  <2>3. CalledIsListed'
    <3>1. NoCall.listener \notin Listeners
      BY SubscriberAssumption DEF NoCall
    <3> QED
      BY <1>a, <2>1, <2>2, <3>1 DEF CalledIsListed, ItemOf, Matched
  <2>4. MutedFirst' /\ Matched'
    BY <1>a, <2>1, QueueLeft, MutedStill, MatchedStill
  <2>5. CalledIsOrphan'
    BY <1>a, <2>1 DEF CalledIsOrphan, Departed, Mapped, clientVars
  <2> QED
    BY <2>3, <2>4, <2>5 DEF Quiet
<1>17. ASSUME NEW l \in Listeners, OnMessage(l)
       PROVE  Quiet'
  <2>1. /\ UNCHANGED <<clientVars, requestQueue, adding, upa, subscriptions>>
        /\ l \in snap /\ snap' \subseteq snap
        /\ \/ calling' = calling
           \/ ~isShutdown[l] /\ calling'.listener = l
    BY <1>17 DEF OnMessage, PassesOn
  <2>2. MutedFirst' /\ Matched'
    BY <1>a, <2>1, QueueLeft, MutedStill, MatchedStill
  <2>3. ListsKept /\ Mapped' = Mapped
    BY <2>1 DEF ListsKept, Mapped
  <2>4. CalledIsListed' /\ CalledIsOrphan'
    BY <1>a, <2>1, <2>3, ListedStill, OrphanStill DEF clientVars
  <2> QED
    BY <2>2, <2>4 DEF Quiet
<1>18. ASSUME NEW l \in Listeners, ClientStep(l)
       PROVE  Quiet'
  BY <1>2, <1>3, <1>4, <1>5, <1>6, <1>7, <1>18 DEF ClientStep
<1>19. ASSUME ConsumerStep
       PROVE  Quiet'
  BY <1>8, <1>9, <1>10, <1>11, <1>12, <1>13, <1>14, <1>15, <1>16, <1>17,
     <1>19
  DEF ConsumerStep, DispatchEvent
<1> QED
  BY <1>1, <1>13, <1>18, <1>19 DEF Next

(* The client hears nothing of a subscription after its onDestroy: a       *)
(* callback that runs then reports an unknown source, or belongs to a      *)
(* listener left on an item that the source has erased (RMDSSubscriber.cpp *)
(* AddSubscriptionToSource, subscription.cpp subscriptionBridge_destroy).  *)
THEOREM Silence == Spec => []NoCallbackAfterDestroy
<1>1. Init => StreamInv /\ Quiet
  <2> SUFFICES ASSUME Init PROVE Quiet
    BY StreamInit
  <2>1. MutedFirst /\ Matched
    BY DEF Init, MutedFirst, Matched, Departed, Unborn, NoAdd
  <2>2. CalledIsListed /\ CalledIsOrphan
    BY SubscriberAssumption
    DEF Init, CalledIsListed, CalledIsOrphan, Departed, NoCall
  <2> QED
    BY <2>1, <2>2 DEF Quiet
<1>2. StreamInv /\ Quiet /\ [Next]_vars => (StreamInv /\ Quiet)'
  BY StreamStep, QuietStep
<1>3. StreamInv /\ Quiet => NoCallbackAfterDestroy
  BY DEF StreamInv, TypeInv, Definite, Quiet, CalledIsOrphan, Departed,
         NoCallbackAfterDestroy
<1> QED
  BY <1>1, <1>2, <1>3, PTL DEF Spec
=============================================================================
