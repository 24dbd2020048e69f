------------------------------- MODULE Poster -------------------------------
(***************************************************************************)
(* Posting: a MAMA publisher of a contributed item is a UPABridgePoster,   *)
(* which sends post messages over the consumer's channel; UPAPostManager   *)
(* gives each a post id and routes the RMDS's ack or nak, which carries    *)
(* the id, back to the poster.                                             *)
(*                                                                         *)
(* Threads.  A poster publishes and is destroyed on a thread of the        *)
(* client.  The consumer thread handles the answers.  postListLock_ and    *)
(* inFlightListLock_ guard one list each; the counter of post ids has no   *)
(* lock.  The RMDS is external.                                            *)
(***************************************************************************)
EXTENDS Integers, Sequences, SequencesExt

CONSTANTS
  Posters,          \* UPABridgePosters, each for an item of its own
  None,             \* no answer
  OnStream,         \* those that post on the stream of a subscription
  SharedThread,     \* whether one thread of the client uses all posters
  MaxPostId,        \* maxPostId_: the ids are 0 .. MaxPostId - 1
  MaxPublishes,     \* bound: messages the client publishes
  MaxDisconnects    \* bound: connections lost

ASSUME PosterAssumption ==
  /\ OnStream \subseteq Posters
  /\ SharedThread \in BOOLEAN
  /\ MaxPostId \in Nat \ {0}
  /\ MaxPublishes \in Nat /\ MaxDisconnects \in Nat

VARIABLES
  \* UPAPostManager
  nextPostId,
  postList,       \* records: a post id and the post it was given to
  \* UPABridgePoster
  inFlight,       \* inFlightPosts_
  lastMsgStatus,
  isShut,         \* Shutdown has been called
  work,           \* DoPostMessage in progress
  \* the consumer thread
  answering,      \* the record whose ack is being processed
  connected, disconnects,
  \* the RMDS (external)
  upstream,       \* posts it has not answered yet
  marked,         \* the status it believes each item has
  unmarked,       \* posters whose last attempt to send a status failed
  published       \* messages published so far

posterVars == <<inFlight, lastMsgStatus, isShut, work>>
sessionVars == <<connected, disconnects>>
rmdsVars == <<upstream, marked, unmarked>>
vars == <<nextPostId, postList, posterVars, answering, sessionVars, rmdsVars,
          published>>

Statuses == {"ok", "stale"}

Resting == [todo |-> <<>>, stage |-> "rest", status |-> "ok", id |-> 0]

Init ==
  /\ nextPostId = 0 /\ postList = <<>>
  /\ inFlight = [p \in Posters |-> <<>>]
  /\ lastMsgStatus = [p \in Posters |-> "ok"]
  /\ isShut = [p \in Posters |-> FALSE]
  /\ work = [p \in Posters |-> Resting]
  /\ answering = None
  /\ connected = TRUE /\ disconnects = 0
  /\ upstream = {} /\ marked = [p \in Posters |-> "ok"] /\ unmarked = {}
  /\ published = 0

-----------------------------------------------------------------------------
(* DoPostMessage, on the client's thread.                                  *)

IsResting(p) == work[p].todo = <<>>
ThreadIsFree == SharedThread => \A p \in Posters : IsResting(p)

\* The post p is working on.
Post(p) == [id |-> work[p].id, poster |-> p, kind |-> Head(work[p].todo)]

(* Which posts a message takes: the data, and a status when the message    *)
(* has another status than the last one had.  The item is marked stale     *)
(* before stale data is sent and unmarked after good data is.              *)
Posts(st, last) ==
  IF st = last THEN <<"data">>
  ELSE IF last = "ok" THEN <<"status", "data">> ELSE <<"data", "status">>

(* PublishMessage: nothing is posted unless the subscriber is live.        *)
PublishMessage(p, st) ==
  /\ ThreadIsFree /\ IsResting(p) /\ ~isShut[p]
  /\ connected /\ published < MaxPublishes
  /\ published' = published + 1
  /\ work' = [work EXCEPT ![p] =
                [todo |-> Posts(st, lastMsgStatus[p]), stage |-> "start",
                 status |-> st, id |-> 0]]
  /\ UNCHANGED <<nextPostId, postList, inFlight, lastMsgStatus, isShut,
                 answering, sessionVars, rmdsVars>>

At(p, stage, kinds) ==
  ~IsResting(p) /\ work[p].stage = stage /\ Head(work[p].todo) \in kinds
GoTo(p, stage) == work' = [work EXCEPT ![p].stage = stage]

\* The post is done with, or the whole message is given up.
NextPost(p) ==
  work' = [work EXCEPT ![p] =
             IF Len(work[p].todo) = 1 THEN Resting
             ELSE [todo |-> Tail(work[p].todo), stage |-> "start",
                   status |-> work[p].status, id |-> 0]]
GiveUp(p) == work' = [work EXCEPT ![p] = Resting]

\* A status that is not sent.
MissesStatus(p) ==
  unmarked' = IF Head(work[p].todo) = "status" THEN unmarked \cup {p}
                                                ELSE unmarked

(* rsslGetBuffer fails before the data is given an id. *)
NoBuffer(p) ==
  /\ At(p, "start", {"data"})
  /\ GiveUp(p)
  /\ UNCHANGED <<nextPostId, postList, inFlight, lastMsgStatus, isShut,
                 answering, sessionVars, rmdsVars, published>>

\* The id after reading n; MaxPostId itself is never used.  Mutant: it is
\* incremented before it is returned.
PreIncremented(n) == IF n < MaxPostId THEN n + 1 ELSE 0
FreshPostId(n) == IF n < MaxPostId THEN n ELSE 0

(* GetNextPostId reads the counter,                                        *)
GetNextPostId(p) ==
  /\ At(p, "start", {"data", "status"})
  /\ work' = [work EXCEPT ![p].id = FreshPostId(nextPostId),
                          ![p].stage = "numbered"]
  /\ UNCHANGED <<nextPostId, postList, inFlight, lastMsgStatus, isShut,
                 answering, sessionVars, rmdsVars, published>>

(* and writes it back.  Mutant: it is not moved on.                        *)
StandStill(id) == nextPostId' = id
MoveOn(id) == nextPostId' = id + 1

(* AddPost lists the post with its id. *)
AddPost(p) ==
  /\ At(p, "numbered", {"data", "status"})
  /\ MoveOn(work[p].id)
  /\ postList' = Append(postList, Post(p))
  /\ GoTo(p, "added")
  /\ UNCHANGED <<inFlight, lastMsgStatus, isShut, answering, sessionVars,
                 rmdsVars, published>>

(* The rest of BuildPostMessage: when the data does not encode the message *)
(* is given up and its record stays on postList; otherwise the poster      *)
(* remembers the id.  Mutant: it does not.                                 *)
ForgetId(p) == UNCHANGED inFlight
RememberId(p) == inFlight' = [inFlight EXCEPT ![p] = Append(@, work[p].id)]

BuildPostMessage(p) ==
  /\ At(p, "added", {"data"})
  /\ \/ RememberId(p) /\ GoTo(p, "built")
     \/ GiveUp(p) /\ UNCHANGED inFlight
  /\ UNCHANGED <<nextPostId, postList, lastMsgStatus, isShut, answering,
                 sessionVars, rmdsVars, published>>

(* SetState.  Mutant: the new status is not kept. *)
KeepOldStatus(p) == UNCHANGED lastMsgStatus
SetState(p) ==
  lastMsgStatus' = [lastMsgStatus EXCEPT ![p] = work[p].status]

(* The rest of PostStatusMessage: the poster does not remember the id.     *)
(* Without a buffer it reports success and the data is sent all the same.  *)
(* An encoding step may fail before or after SetState.                     *)
PostStatusMessage(p) ==
  /\ At(p, "added", {"status"})
  /\ \/ SetState(p) /\ GoTo(p, "built") /\ UNCHANGED unmarked
     \/ NextPost(p) /\ MissesStatus(p) /\ UNCHANGED lastMsgStatus
     \/ /\ GiveUp(p) /\ MissesStatus(p)
        /\ SetState(p) \/ UNCHANGED lastMsgStatus
  /\ UNCHANGED <<nextPostId, postList, inFlight, isShut, answering,
                 sessionVars, upstream, marked, published>>

(* SendUPAMessage, whose result is ignored. *)
SendUPAMessage(p) ==
  /\ At(p, "built", {"data", "status"})
  /\ NextPost(p)
  /\ \/ /\ connected
        /\ upstream' = upstream \cup {Post(p)}
        /\ IF Head(work[p].todo) = "status"
           THEN /\ marked' = [marked EXCEPT ![p] = work[p].status]
                /\ unmarked' = unmarked \ {p}
           ELSE UNCHANGED <<marked, unmarked>>
     \/ MissesStatus(p) /\ UNCHANGED <<upstream, marked>>
  /\ UNCHANGED <<nextPostId, postList, inFlight, lastMsgStatus, isShut,
                 answering, sessionVars, published>>

\* Shutdown empties the list of ids.  Mutant: it is left as it is.
LeaveIds(p) == UNCHANGED inFlight
ClearIds(p) == inFlight' = [inFlight EXCEPT ![p] = <<>>]

(* mamaPublisher_destroy; the client does not destroy what it is using. *)
Shutdown(p) ==
  /\ ThreadIsFree /\ IsResting(p) /\ ~isShut[p]
  /\ isShut' = [isShut EXCEPT ![p] = TRUE]
  /\ ClearIds(p)
  /\ UNCHANGED <<nextPostId, postList, lastMsgStatus, work, answering,
                 sessionVars, rmdsVars, published>>

ClientStep(p) ==
  \/ \E st \in Statuses : PublishMessage(p, st)
  \/ NoBuffer(p) \/ GetNextPostId(p) \/ AddPost(p) \/ BuildPostMessage(p)
  \/ PostStatusMessage(p) \/ SendUPAMessage(p) \/ Shutdown(p)

-----------------------------------------------------------------------------
(* The consumer thread.                                                    *)

(* RemovePost: the first record with the id is taken off the list.         *)
Matching(id) == SelectInSeq(postList, LAMBDA r : r.id = id)

(* The answer to post m arrives.  RemovePost finds a record and ProcessAck *)
(* the id with the poster of the record, or the answer is ignored.  The    *)
(* two look-ups are one step: nothing that another thread does in between  *)
(* is different from what it does before or after.                         *)
ProcessAck(m) ==
  /\ answering = None
  /\ m \in upstream /\ upstream' = upstream \ {m}
  /\ LET i == Matching(m.id)
         p == postList[i].poster
         found == i # 0 /\ Contains(inFlight[p], m.id)
     IN  /\ postList' = IF i # 0 THEN RemoveAt(postList, i) ELSE postList
         /\ IF found
            THEN /\ inFlight' = [inFlight EXCEPT ![p] = RemoveFirst(@, m.id)]
                 /\ answering' = [record |-> postList[i], about |-> m]
            ELSE UNCHANGED <<inFlight, answering>>
  /\ UNCHANGED <<nextPostId, lastMsgStatus, isShut, work, sessionVars, marked,
                 unmarked, published>>

(* The inbox of the post is sent the answer, and onError called for a nak. *)
ReportAnswer ==
  /\ answering # None
  /\ answering' = None
  /\ UNCHANGED <<nextPostId, postList, posterVars, sessionVars, rmdsVars,
                 published>>

(* An answer on a stream whose subscription is closed is not looked at. *)
IgnoreAnswer(m) ==
  /\ answering = None
  /\ m \in upstream /\ m.poster \in OnStream
  /\ upstream' = upstream \ {m}
  /\ UNCHANGED <<nextPostId, postList, posterVars, answering, sessionVars,
                 marked, unmarked, published>>

(* The connection is lost with the answers under way; nothing of what the  *)
(* posts left behind is cleared.                                           *)
LoseConnection ==
  /\ answering = None /\ connected /\ disconnects < MaxDisconnects
  /\ connected' = FALSE /\ disconnects' = disconnects + 1
  /\ upstream' = {}
  /\ UNCHANGED <<nextPostId, postList, posterVars, answering, marked,
                 unmarked, published>>

Reconnect ==
  /\ ~connected /\ connected' = TRUE
  /\ UNCHANGED <<nextPostId, postList, posterVars, answering, disconnects,
                 rmdsVars, published>>

ConsumerStep ==
  \/ \E m \in upstream : ProcessAck(m) \/ IgnoreAnswer(m)
  \/ ReportAnswer
  \/ LoseConnection \/ Reconnect

Next == (\E p \in Posters : ClientStep(p)) \/ ConsumerStep

Spec == Init /\ [][Next]_vars

-----------------------------------------------------------------------------
PostIds == 0 .. MaxPostId - 1
PostRecords == [id : PostIds, poster : Posters, kind : {"data", "status"}]
Works == [todo : Seq({"data", "status"}), status : Statuses, id : PostIds,
          stage : {"rest", "start", "numbered", "added", "built"}]

TypeOK ==
  /\ nextPostId \in 0 .. MaxPostId
  /\ postList \in Seq(PostRecords)
  /\ inFlight \in [Posters -> Seq(PostIds)]
  /\ lastMsgStatus \in [Posters -> Statuses]
  /\ isShut \in [Posters -> BOOLEAN]
  /\ work \in [Posters -> Works]
  /\ answering \in [record : PostRecords, about : PostRecords] \cup {None}
  /\ connected \in BOOLEAN /\ disconnects \in 0 .. MaxDisconnects
  /\ upstream \subseteq PostRecords
  /\ marked \in [Posters -> Statuses] /\ unmarked \subseteq Posters
  /\ published \in 0 .. MaxPublishes

(* The client is told of a post what the RMDS answered to that post        *)
(* (UPAPostManager: "we can use this identify the poster and route the ack *)
(* message to it").  Two threads that take an id at once break it.         *)
AckReachesPost == answering # None => answering.record = answering.about

(* The RMDS's answer to data will be matched, whatever was given up, lost  *)
(* or ignored before: while a post is unanswered its record is the first   *)
(* on postList with its id and its poster, unless it was destroyed, knows  *)
(* the id.  An answer never overtakes the poster's note of the id          *)
(* (BuildPostMessage, RemovePost, ProcessAck).                             *)
UnansweredIsKnown ==
  \A m \in upstream :
    /\ Matching(m.id) # 0 /\ postList[Matching(m.id)] = m
    /\ m.kind = "data" /\ ~isShut[m.poster]
         => Contains(inFlight[m.poster], m.id)

(* The RMDS has been told the status of an item before it gets stale data, *)
(* and between messages its view is the poster's, through messages that    *)
(* were given up half way, unless the status itself could not be sent      *)
(* (DoPostMessage: "If the new status is stale, mark the item before we    *)
(* send the stale data").                                                  *)
StaleIsMarked ==
  \A p \in Posters \ unmarked :
    /\ IsResting(p) => marked[p] = lastMsgStatus[p]
    /\ At(p, "built", {"data"}) /\ work[p].status = "stale"
         => marked[p] = "stale"

(* Once a poster is destroyed no further answer is taken up for it         *)
(* (UPABridgePoster::Shutdown, ProcessAck); one that has been taken up may *)
(* still be reported.                                                      *)
QuietOnceShut ==
  [][answering = None /\ answering' # None
       => ~isShut[answering'.record.poster]]_vars
=============================================================================
