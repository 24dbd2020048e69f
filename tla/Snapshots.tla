----------------------------- MODULE Snapshots -----------------------------
(***************************************************************************)
(* One-shot requests.  The client sends a subscription message of type     *)
(* MAMA_SUBSC_SNAPSHOT through a publisher's inbox; RMDSSubscriber makes a *)
(* RMDSBridgeSnapshot of it, with a UPASubscription of its own that is in  *)
(* no source's map, and the answer goes to the inbox once the response has *)
(* come.  The stream id is then released.                                  *)
(*                                                                         *)
(* Client threads ask; the consumer thread does the rest, its request      *)
(* queue throttled as in Subscriber.  A connection may be lost at any time *)
(* and comes back; the login of the new one is queued behind what the      *)
(* queue still holds.  The RMDS end is external.                           *)
(***************************************************************************)
EXTENDS Integers, Sequences, FiniteSets

CONSTANTS
  Snapshots,             \* what the client may ask for
  UnknownSource,         \* those whose source is not in the directory
  Books,                 \* those in an order book domain
  NoSnapshot,            \* an empty place in the table of stream ids
  FirstSnapId, NumSnapIds,
  MaxSnapPending,        \* maxPendingOpens_
  MaxLosses              \* bound: connections lost

ASSUME SnapshotsAssumption ==
  /\ UnknownSource \subseteq Snapshots /\ Books \subseteq Snapshots
  /\ NoSnapshot \notin Snapshots /\ IsFiniteSet(Snapshots)
  /\ FirstSnapId \in Nat \ {0} /\ NumSnapIds \in Nat \ {0}
  /\ MaxSnapPending \in Nat \ {0} /\ MaxLosses \in Nat

VARIABLES
  pendingSnapshots,      \* RMDSSubscriber::pendingSnapshots_
  snapQueue,             \* closures on the request queue
  snapState,             \* the state of each one's UPASubscription
  streamOf,              \* its streamId_
  hasReply,              \* snapShots whose snapShot_ is set
  snapNext, snapFree, snapItems, \* the table of stream ids
  snapPending,           \* pendingItems_
  snapSession,           \* "down", "up", or "live": logged in, with a directory
  losses,
  owed,                  \* RMDS: requests it has not answered
  snapWire,              \* responses on their way
  answers,               \* what came to each one's inbox
  givenUp                \* history: exchanges that did not go well

tableVars == <<snapNext, snapFree, snapItems>>
lineVars == <<snapSession, losses, owed, snapWire>>
objectVars == <<snapState, streamOf, hasReply>>
snapshotVars == <<pendingSnapshots, snapQueue, objectVars, tableVars, snapPending,
                  lineVars, answers, givenUp>>

Table == INSTANCE StreamManager WITH
  StartStreamID <- FirstSnapId, NumStreamIds <- NumSnapIds, Subs <- Snapshots,
  NoItem <- NoSnapshot, nextIndex <- snapNext, freeStreamIds <- snapFree,
  itemArray <- snapItems

SnapshotsInit ==
  /\ pendingSnapshots = << >> /\ snapQueue = << >>
  /\ snapState = [s \in Snapshots |-> "new"]
  /\ streamOf = [s \in Snapshots |-> 0]
  /\ hasReply = {}
  /\ Table!Init
  /\ snapPending = {}
  /\ snapSession = "live" /\ losses = 0 /\ owed = {} /\ snapWire = << >>
  /\ answers = [s \in Snapshots |-> << >>] /\ givenUp = {}

(* sendFromInboxByIndex and SendSnapshotRequest.  A subject of more than   *)
(* two parts is refused on the spot.                                       *)
SendSnapshotRequest(s) ==
  /\ snapState[s] = "new"
  /\ snapState' = [snapState EXCEPT ![s] = "asked"]
  /\ pendingSnapshots' = Append(pendingSnapshots, s)
  /\ UNCHANGED <<snapQueue, streamOf, hasReply, tableVars, snapPending, lineVars,
                 answers, givenUp>>

(* ProcessPendingSubcriptions and AddSnaphotToSource.  OnError of a        *)
(* RMDSBridgeSnapshot does nothing: an unknown source is never reported.   *)
AddSnapshotToSource ==
  /\ snapSession = "live" /\ pendingSnapshots # << >>
  /\ pendingSnapshots' = Tail(pendingSnapshots)
  /\ LET s == Head(pendingSnapshots) IN
       IF s \in UnknownSource
       THEN /\ givenUp' = givenUp \cup {s}
            /\ UNCHANGED <<snapQueue, snapState, hasReply>>
       ELSE /\ snapState' = [snapState EXCEPT ![s] = "Subscribing"]
            /\ hasReply' = hasReply \cup {s}
            /\ snapQueue' = Append(snapQueue, s)
            /\ UNCHANGED givenUp
  /\ UNCHANGED <<streamOf, tableVars, snapPending, lineVars, answers>>

(* SubscriptionSnapshotRequestCb and SendOpenRequest, which is the one of  *)
(* subscriptions: what it reports to the listeners reaches no snapshot,    *)
(* which has none, and the id stays with a request that was not sent.      *)
Sending == {"sent", "notSent"}

\* A released id is used again while a message of its stream is on the way
\* or still owed, by a stream that was answered with a message of another.
StillOnItsWay(id) == \/ \E k \in DOMAIN snapWire : snapWire[k].id = id
                     \/ \E r \in owed : streamOf[r] = id

SnapshotRequestCb ==
  /\ snapSession # "down" /\ snapQueue # << >>
  /\ Cardinality(snapPending) < MaxSnapPending
  /\ snapQueue' = Tail(snapQueue)
  /\ LET s == Head(snapQueue) IN
       \/ /\ ~Table!HasFreeSlot
          /\ givenUp' = givenUp \cup {s}
          /\ UNCHANGED <<streamOf, tableVars, snapPending, owed>>
       \/ /\ Table!AddItem(s)
          /\ streamOf' = [streamOf EXCEPT ![s] = Table!Index2StreamId(Table!NextFreeIndex)]
          /\ \E outcome \in Sending :
               IF outcome = "sent"
               THEN /\ snapPending' = snapPending \cup {s}
                    \* Before the login the RMDS may as well not answer.
                    /\ owed' \in {owed \cup {s}} \cup IF snapSession = "live" THEN {} ELSE {owed}
                    /\ givenUp' = IF owed' = owed \/ StillOnItsWay(streamOf'[s])
                                  THEN givenUp \cup {s} ELSE givenUp
               ELSE /\ givenUp' = givenUp \cup {s}
                    /\ UNCHANGED <<snapPending, owed>>
  /\ UNCHANGED <<pendingSnapshots, snapState, hasReply, snapSession, losses, snapWire, answers>>

---------------------------------------------------------------------------
(* The RMDS: a refresh that ends the stream, a status that refuses it, or  *)
(* one that says the item is suspect and then the refresh.                 *)

Reply(s, class, state, decodes) ==
  [id |-> streamOf[s], of |-> s, class |-> class, state |-> state, decodes |-> decodes]

RmdsReplies(s) ==
  /\ s \in owed /\ owed' = owed \ {s}
  /\ \E decodes \in BOOLEAN, replies \in {<<"image">>, <<"closed">>, <<"refused">>,
                                          <<"suspect", "image">>} :
       LET message(kind) == CASE kind = "image"   -> Reply(s, "refresh", "nonStreaming", decodes)
                              [] kind = "closed"  -> Reply(s, "refresh", "closed", decodes)
                              [] kind = "refused" -> Reply(s, "status", "closed", TRUE)
                              [] kind = "suspect" -> Reply(s, "status", "suspect", TRUE)
       IN snapWire' = snapWire \o [k \in DOMAIN replies |-> message(replies[k])]
  /\ UNCHANGED <<pendingSnapshots, snapQueue, objectVars, tableVars, snapPending, snapSession,
                 losses, answers, givenUp>>

---------------------------------------------------------------------------
(* Responses.                                                              *)

(* RMDSBridgeSnapshot::OnMessage: the reply, and CompleteSnapshot.         *)
(* Mutant: the stream id is not released.                                  *)
AnswerOnly(s, how) ==
  /\ answers' = [answers EXCEPT ![s] = Append(@, how)]
  /\ hasReply' = hasReply \ {s}
  /\ UNCHANGED tableVars
Answer(s, how) ==
  /\ answers' = [answers EXCEPT ![s] = Append(@, how)]
  /\ hasReply' = hasReply \ {s}
  /\ Table!ReleaseStreamId(streamOf[s])

Unanswered(s) ==
  /\ givenUp' = IF s \in hasReply THEN givenUp \cup {s} ELSE givenUp
  /\ UNCHANGED <<answers, hasReply, tableVars>>

(* SetRsslState: a stream that ends with the image leaves the item         *)
(* inactive, a suspect one marks it stale, an error goes to the listeners. *)
StateAfter(s, m) ==
  CASE m.state = "nonStreaming" /\ s \in hasReply -> "Inactive"
    [] m.state = "suspect" -> "Stale"
    [] OTHER -> snapState[s]

(* A price refresh in a bad state goes no further; a book refresh does,    *)
(* and a book status is answered by nobody.                                *)
IsReply(s, m) ==
  CASE m.class = "refresh" -> m.decodes /\ (s \in Books \/ m.state # "closed")
    [] m.class = "status" -> s \notin Books

ProcessSnapshotResponse(s, m) ==
  IF snapState[s] = "Inactive"
  THEN UNCHANGED <<objectVars, tableVars, snapPending, answers, givenUp>>
  ELSE /\ snapPending' = IF snapState[s] = "Subscribing"
                         THEN snapPending \ {s} ELSE snapPending
       /\ snapState' = IF m.class = "refresh" \/ s \in Books
                       THEN [snapState EXCEPT ![s] = StateAfter(s, m)] ELSE snapState
       /\ IF IsReply(s, m) /\ s \in hasReply
          THEN /\ Answer(s, [how |-> m.class, of |-> m.of])
               /\ UNCHANGED givenUp
          ELSE IF m.state = "suspect" THEN UNCHANGED <<answers, hasReply, tableVars, givenUp>>
                                      ELSE Unanswered(s)
       /\ UNCHANGED streamOf

(* ProcessResponse: a message whose id has been released is dropped.       *)
ProcessResponse ==
  /\ snapSession # "down" /\ snapWire # << >> /\ snapWire' = Tail(snapWire)
  /\ LET m == Head(snapWire) IN
       IF Table!GetItem(m.id) = NoSnapshot
       THEN UNCHANGED <<objectVars, tableVars, snapPending, answers, givenUp>>
       ELSE ProcessSnapshotResponse(Table!GetItem(m.id), m)
  /\ UNCHANGED <<pendingSnapshots, snapQueue, snapSession, losses, owed>>

---------------------------------------------------------------------------
(* RecoverConnection leaves the table, the pending items and the queue as  *)
(* they are, and SetAllStale and ResubscribeAll know nothing of snapshots. *)
Lose ==
  /\ losses < MaxLosses /\ losses' = losses + 1
  /\ snapSession # "down" /\ snapSession' = "down"
  /\ owed' = {} /\ snapWire' = << >>
  /\ givenUp' = givenUp \cup (hasReply \cap (owed \cup {m.of : m \in {snapWire[k] :
                                                        k \in DOMAIN snapWire}}))
  /\ UNCHANGED <<pendingSnapshots, snapQueue, objectVars, tableVars, snapPending, answers>>

Reconnect ==
  /\ snapSession = "down" /\ snapSession' = "up"
  /\ UNCHANGED <<pendingSnapshots, snapQueue, objectVars, tableVars, snapPending, losses, owed,
                 snapWire, answers, givenUp>>

LogIn ==
  /\ snapSession = "up" /\ snapQueue = << >> /\ snapSession' = "live"
  /\ Cardinality(snapPending) < MaxSnapPending
  /\ UNCHANGED <<pendingSnapshots, snapQueue, objectVars, tableVars, snapPending, losses, owed,
                 snapWire, answers, givenUp>>

SnapshotsNext ==
  \/ \E s \in Snapshots : SendSnapshotRequest(s) \/ RmdsReplies(s)
  \/ AddSnapshotToSource \/ SnapshotRequestCb \/ ProcessResponse
  \/ Lose \/ Reconnect \/ LogIn

SnapshotsSpec == SnapshotsInit /\ [][SnapshotsNext]_snapshotVars

---------------------------------------------------------------------------
AtRest == /\ snapSession = "live" /\ owed = {} /\ snapWire = << >>
          /\ pendingSnapshots = << >> /\ snapQueue = << >>

(* No snapshot is answered twice or with the response to another, though   *)
(* ids go from one to the next and a status may be followed by the image;  *)
(* and when nothing is under way, each that was asked for and whose        *)
(* exchange with the RMDS went well has its answer and holds neither a     *)
(* stream id nor a place in the throttle (UPASubscription::Snapshot,       *)
(* InternalProcessMarketPriceResponse, CompleteSnapshot).                  *)
SnapshotsSettle ==
  /\ \A s \in Snapshots : /\ Len(answers[s]) <= 1
                          /\ \A k \in DOMAIN answers[s] : answers[s][k].of = s \/ s \in givenUp
  /\ AtRest => \A s \in Snapshots \ givenUp :
       /\ snapState[s] # "new" => answers[s] # << >>
       /\ s \notin snapPending
       /\ \A i \in DOMAIN snapItems : snapItems[i] # s
=============================================================================
