----------------------------- MODULE Subscriber -----------------------------
(***************************************************************************)
(* The subscribing half of the bridge: the MAMA subscriptions of the       *)
(* client (RMDSBridgeSubscription, here "listeners"), the per-symbol map   *)
(* of RMDSSource, the UPASubscriptions that own one RMDS stream each, the  *)
(* throttled request queue and the message loop of UPAConsumer, and the    *)
(* recovery of a lost connection.                                          *)
(*                                                                         *)
(* Threads.  The client's threads create, mute and destroy subscriptions;  *)
(* one consumer thread does everything else and calls the client back.     *)
(* Each action is the code between two points at which another thread can  *)
(* get in: the critical sections of pendingListLock_, subscriptionMapLock_ *)
(* and subscriptionLock_, or one closure or message handled by the         *)
(* consumer thread.  The RMDS end of the connection is external.           *)
(***************************************************************************)
EXTENDS Integers, Sequences, FiniteSets, Functions

CONSTANTS
  Listeners,       \* the client's subscriptions (RMDSBridgeSubscription)
  Symbols,         \* item names
  SymbolOf,        \* the symbol each listener asks for
  BadSource,       \* listeners whose source is not in the source directory
  Leavers,         \* listeners the client destroys sooner or later
  Subs,            \* UPASubscription objects
  None,            \* no object
  StartStreamID, NumStreamIds,
  MaxPending,      \* maxPendingOpens_: requests awaiting their response
  CounterWidth,    \* bound: the modulus of the unsigned counters
  MaxDisconnects,  \* bound: connections lost
  MaxWire,         \* bound: unsolicited messages wait while as many are in flight
  StreamStates,    \* stream states the RMDS uses
  SendOutcomes,    \* what sending a request may come to
  Decodes,         \* whether the payloads of images and updates decode
  SendRecap        \* sendRecap_: images go to every listener of the item

ASSUME SubscriberAssumption ==
  /\ SymbolOf \in [Listeners -> Symbols]
  /\ BadSource \subseteq Listeners /\ Leavers \subseteq Listeners
  /\ None \notin Subs \cup Listeners \cup Symbols /\ IsFiniteSet(Subs)
  /\ StartStreamID \in Nat \ {0} /\ NumStreamIds \in Nat \ {0}
  /\ MaxPending \in Nat \ {0} /\ CounterWidth \in Nat \ {0}
  /\ MaxDisconnects \in Nat /\ MaxWire \in Nat
  /\ StreamStates \subseteq {"ok", "suspect", "nochange", "closed",
                             "closedRecover", "preempted", "nonstreaming"}
  /\ SendOutcomes \subseteq {"sent", "noBuffer", "notEncoded", "failed"}
  /\ Decodes \subseteq BOOLEAN /\ SendRecap \in BOOLEAN

VARIABLES
  \* the client's threads
  api,                   \* how far each listener has come
  target,                \* the UPASubscription its destroy is working on
  isShutdown, gotImage,  \* fields of RMDSBridgeSubscription
  clientQueue,           \* destroy closures on the client's MAMA queue
  destroyed,             \* how often onDestroy was called
  failed,                \* listeners that were given an error
  \* RMDSSubscriber, RMDSSource and UPASubscription
  pendingSubscriptions,  \* created, not yet added to a source
  subscriptions,         \* RMDSSource::subscriptions_
  upa,                   \* the UPASubscriptions
  \* UPAStreamManager
  nextIndex, freeStreamIds, itemArray, pendingItems, openItems, pendingCloses,
  \* UPAConsumer
  requestQueue,          \* closures waiting for the consumer thread
  subscriberState,       \* subscriberState_, after the first connection
  disconnects,
  adding,                \* AddSubscriptionToSource in progress
  handling,              \* a response being processed
  notices,               \* NotifyListeners calls the handler has yet to make
  current, snap,         \* the call in progress, its listeners still to do
  calling,               \* the client callback being executed
  \* the RMDS (external)
  upstream,              \* per stream id: who it serves, images owed
  wire                   \* messages in flight to the consumer

clientVars == <<api, target, isShutdown, clientQueue, destroyed>>
idVars == <<nextIndex, freeStreamIds, itemArray>>
countVars == <<pendingItems, openItems, pendingCloses>>
sessionVars == <<subscriberState, disconnects>>
deliveryVars == <<notices, current, snap, calling, gotImage, failed>>
rmdsVars == <<upstream, wire>>
vars == <<clientVars, pendingSubscriptions, subscriptions, upa, idVars,
          countVars, requestQueue, sessionVars, adding, handling,
          deliveryVars, rmdsVars>>

SM == INSTANCE StreamManager WITH NoItem <- None

StreamIds == StartStreamID .. StartStreamID + NumStreamIds - 1

\* A UPASubscription object before the factory has created it.
Unborn == [symbol |-> None, state |-> "Inactive", streamId |-> 0,
           listeners |-> {}, isRefresh |-> FALSE, requester |-> None,
           gotInitial |-> FALSE, consumer |-> FALSE]

NoAdd == [listener |-> None, sub |-> None, step |-> "none"]
NoMsg == [msg |-> None, sub |-> None, seen |-> "Inactive"]
NoCall == [listener |-> None, type |-> "none"]
NoNotice == [sub |-> None, type |-> "none", requester |-> None]
NoStream == [sub |-> None, owed |-> 0]

-----------------------------------------------------------------------------
(* The transport is connected, logged in and has its dictionary, and the   *)
(* client has not subscribed to anything yet.                              *)
Init ==
  /\ api = [l \in Listeners |-> "new"]
  /\ target = [l \in Listeners |-> None]
  /\ isShutdown = [l \in Listeners |-> FALSE]
  /\ gotImage = [l \in Listeners |-> FALSE]
  /\ clientQueue = {}
  /\ destroyed = [l \in Listeners |-> 0]
  /\ failed = {}
  /\ pendingSubscriptions = <<>>
  /\ subscriptions = [sym \in Symbols |-> None]
  /\ upa = [s \in Subs |-> Unborn]
  /\ SM!Init
  /\ pendingItems = {} /\ openItems = 0 /\ pendingCloses = 0
  /\ requestQueue = <<>>
  /\ subscriberState = "live" /\ disconnects = 0
  /\ adding = NoAdd /\ handling = NoMsg
  /\ notices = <<>> /\ current = NoNotice /\ snap = {} /\ calling = NoCall
  /\ upstream = [id \in StreamIds |-> NoStream]
  /\ wire = <<>>

-----------------------------------------------------------------------------
(* Request queue, counters, listeners: the small steps handlers share.     *)

Request(op, who) == [op |-> op, who |-> who]
Enqueue(requests) == requestQueue' = requestQueue \o requests
Notice(s, type) == [sub |-> s, type |-> type, requester |-> None]

\* The counters are unsigned.  Mutant: a signed one.
Inc(counter) == (counter + 1) % CounterWidth
DecSigned(counter) == counter - 1
Dec(counter) == (counter - 1) % CounterWidth

Idle == /\ adding = NoAdd /\ handling = NoMsg
        /\ notices = <<>> /\ snap = {} /\ calling = NoCall

Connected == subscriberState # "connecting"

(* The UPASubscriptions the source knows, and every order of a set: the    *)
(* maps the code iterates over are unordered.                              *)
Mapped == {subscriptions[sym] : sym \in Symbols} \ {None}
Orders(S) == Bijection(1 .. Cardinality(S), S)

-----------------------------------------------------------------------------
(* The client's threads.                                                   *)

(* mamaSubscription_create: the parts that can fail are left to the        *)
(* consumer thread.                                                        *)
AddSubscription(l) ==
  /\ api[l] = "new"
  /\ api' = [api EXCEPT ![l] = "created"]
  /\ pendingSubscriptions' = Append(pendingSubscriptions, l)
  /\ UNCHANGED <<target, isShutdown, clientQueue, destroyed, subscriptions,
                 upa, idVars, countVars, requestQueue, sessionVars, adding,
                 handling, deliveryVars, rmdsVars>>

(* mamaSubscription_mute, which MAMA calls before it destroys. *)
Mute(l) ==
  /\ api[l] = "created" /\ l \in Leavers
  /\ api' = [api EXCEPT ![l] = "muted"]
  /\ isShutdown' = [isShutdown EXCEPT ![l] = TRUE]
  /\ UNCHANGED <<target, clientQueue, destroyed, pendingSubscriptions,
                 subscriptions, upa, idVars, countVars, requestQueue,
                 sessionVars, adding, handling, deliveryVars, rmdsVars>>

\* What sources_->Find and FindSubscription yield for a listener.
FoundSub(l) == IF l \in BadSource THEN None ELSE subscriptions[SymbolOf[l]]

(* mamaSubscription_destroy looks for the UPASubscription; without one it  *)
(* calls onDestroy on the spot.                                            *)
FindToDestroy(l) ==
  /\ api[l] = "muted"
  /\ target' = [target EXCEPT ![l] = FoundSub(l)]
  /\ \/ /\ FoundSub(l) = None
        /\ destroyed' = [destroyed EXCEPT ![l] = @ + 1]
        /\ api' = [api EXCEPT ![l] = "remove"]
     \/ /\ FoundSub(l) # None
        /\ api' = [api EXCEPT ![l] = "destroy"]
        /\ UNCHANGED destroyed
  /\ UNCHANGED <<isShutdown, clientQueue, pendingSubscriptions, subscriptions,
                 upa, idVars, countVars, requestQueue, sessionVars, adding,
                 handling, deliveryVars, rmdsVars>>

\* The closure goes to the consumer thread's queue first.  Mutant: straight
\* to the client's queue.
DestroyOnClientQueue(l) ==
  /\ clientQueue' = clientQueue \cup {l}
  /\ UNCHANGED requestQueue
QueueDestroy(l) ==
  /\ Enqueue(<<Request("destroy", l)>>)
  /\ UNCHANGED clientQueue

(* FindListener and, if the listener is there and the item has been        *)
(* opened, QueueSubscriptionDestroy; otherwise nobody will call onDestroy. *)
QueueSubscriptionDestroy(l) ==
  /\ api[l] = "destroy"
  /\ api' = [api EXCEPT ![l] = "remove"]
  /\ IF l \in upa[target[l]].listeners /\ upa[target[l]].consumer
     THEN QueueDestroy(l)
     ELSE UNCHANGED <<requestQueue, clientQueue>>
  /\ target' = [target EXCEPT ![l] = None]
  /\ UNCHANGED <<isShutdown, destroyed, pendingSubscriptions, subscriptions,
                 upa, idVars, countVars, sessionVars, adding, handling,
                 deliveryVars, rmdsVars>>

(* RMDSSubscriber::RemoveSubscription looks the UPASubscription up again,  *)
FindToRemove(l) ==
  /\ api[l] = "remove"
  /\ target' = [target EXCEPT ![l] = FoundSub(l)]
  /\ api' = [api EXCEPT ![l] = IF FoundSub(l) = None THEN "done"
                                                     ELSE "unlist"]
  /\ UNCHANGED <<isShutdown, clientQueue, destroyed, pendingSubscriptions,
                 subscriptions, upa, idVars, countVars, requestQueue,
                 sessionVars, adding, handling, deliveryVars, rmdsVars>>

(* takes the listener off its list,                                        *)
RemoveListener(l) ==
  /\ api[l] = "unlist"
  /\ upa' = [upa EXCEPT ![target[l]].listeners = @ \ {l}]
  /\ api' = [api EXCEPT ![l] = "count"]
  /\ UNCHANGED <<target, isShutdown, clientQueue, destroyed,
                 pendingSubscriptions, subscriptions, idVars, countVars,
                 requestQueue, sessionVars, adding, handling, deliveryVars,
                 rmdsVars>>

(* and, when the list was empty, has RMDSSource remove the symbol.         *)
CountListeners(l) ==
  /\ api[l] = "count"
  /\ api' = [api EXCEPT ![l] =
               IF upa[target[l]].listeners = {} THEN "erase" ELSE "done"]
  /\ target' = [target EXCEPT ![l] = None]
  /\ UNCHANGED <<isShutdown, clientQueue, destroyed,
                 pendingSubscriptions, subscriptions, upa, idVars, countVars,
                 requestQueue, sessionVars, adding, handling, deliveryVars,
                 rmdsVars>>

(* UPASubscription::Close.  The close request is queued only once the item *)
(* has been opened: consumer_ is null before that.  Mutant: the request is *)
(* counted although it is not queued.                                      *)
CloseCounted(s) ==
  /\ upa' = [upa EXCEPT ![s].state = "Inactive"]
  /\ pendingCloses' = Inc(pendingCloses)
  /\ IF upa[s].consumer THEN Enqueue(<<Request("close", s)>>)
                        ELSE UNCHANGED requestQueue
Close(s) ==
  /\ upa' = [upa EXCEPT ![s].state = "Inactive"]
  /\ IF upa[s].consumer
     THEN /\ pendingCloses' = Inc(pendingCloses)
          /\ Enqueue(<<Request("close", s)>>)
     ELSE UNCHANGED <<pendingCloses, requestQueue>>

\* subscriptions_.erase.  Mutant: the symbol stays in the map.
Keep(sym) == UNCHANGED subscriptions
Erase(sym) == subscriptions' = [subscriptions EXCEPT ![sym] = None]

(* RMDSSource::RemoveSubscription: whatever the map now holds under the    *)
(* symbol is closed and erased.                                            *)
RemoveSubscription(l) ==
  /\ api[l] = "erase"
  /\ api' = [api EXCEPT ![l] = "done"]
  /\ IF subscriptions[SymbolOf[l]] # None
     THEN /\ Close(subscriptions[SymbolOf[l]])
          /\ Erase(SymbolOf[l])
     ELSE UNCHANGED <<upa, pendingCloses, requestQueue, subscriptions>>
  /\ UNCHANGED <<target, isShutdown, clientQueue, destroyed,
                 pendingSubscriptions, idVars, pendingItems, openItems,
                 sessionVars, adding, handling, deliveryVars, rmdsVars>>

(* The client's own queue runs SubscriptionDestroyCb. *)
OnDestroy(l) ==
  /\ l \in clientQueue
  /\ clientQueue' = clientQueue \ {l}
  /\ destroyed' = [destroyed EXCEPT ![l] = @ + 1]
  /\ UNCHANGED <<api, target, isShutdown, pendingSubscriptions, subscriptions,
                 upa, idVars, countVars, requestQueue, sessionVars, adding,
                 handling, deliveryVars, rmdsVars>>

ClientStep(l) ==
  \/ FindToDestroy(l) \/ QueueSubscriptionDestroy(l) \/ FindToRemove(l)
  \/ RemoveListener(l) \/ CountListeners(l) \/ RemoveSubscription(l)
  \/ OnDestroy(l)

-----------------------------------------------------------------------------
(* The consumer thread: new listeners.                                     *)

(* ProcessPendingSubcriptions takes the oldest listener off the list and   *)
(* AddSubscriptionToSource looks for its source and its UPASubscription.   *)
(* A bad source is reported to the client right here, a missing            *)
(* UPASubscription is created and put into the map.  The code swaps the    *)
(* whole list out first; taking its listeners one at a time gives the same *)
(* behaviours, as client threads only ever append to the list.             *)
ProcessPendingSubscription ==
  /\ Idle /\ subscriberState = "live" /\ pendingSubscriptions # <<>>
  /\ pendingSubscriptions' = Tail(pendingSubscriptions)
  /\ LET l == Head(pendingSubscriptions)
         sym == SymbolOf[l]
     IN  \/ /\ l \in BadSource
            /\ calling' = [listener |-> l, type |-> "error"]
            /\ UNCHANGED <<adding, upa, subscriptions>>
         \/ /\ l \notin BadSource /\ subscriptions[sym] # None
            /\ adding' = [listener |-> l, sub |-> subscriptions[sym],
                          step |-> "join"]
            /\ UNCHANGED <<calling, upa, subscriptions>>
         \/ /\ l \notin BadSource /\ subscriptions[sym] = None
            /\ \E s \in Subs :
                 /\ upa[s].symbol = None
                 /\ upa' = [upa EXCEPT ![s].symbol = sym]
                 /\ subscriptions' = [subscriptions EXCEPT ![sym] = s]
                 /\ adding' = [listener |-> l, sub |-> s, step |-> "create"]
            /\ UNCHANGED calling
  /\ UNCHANGED <<clientVars, idVars, countVars, requestQueue, sessionVars,
                 handling, notices, current, snap, gotImage, failed,
                 rmdsVars>>

AddListener ==
  /\ adding.step \in {"join", "create"}
  /\ upa' = [upa EXCEPT ![adding.sub].listeners = @ \cup {adding.listener}]
  /\ adding' = [adding EXCEPT !.step =
                  IF @ = "join" THEN "image" ELSE "open"]
  /\ UNCHANGED <<clientVars, pendingSubscriptions, subscriptions, idVars,
                 countVars, requestQueue, sessionVars, handling, deliveryVars,
                 rmdsVars>>

(* A listener that joins a live item has an image requested for it; any    *)
(* other waits for the image "in due course".                              *)
RequestImage ==
  /\ adding.step = "image"
  /\ adding' = NoAdd
  /\ IF upa[adding.sub].state = "Live"
     THEN /\ upa' = [upa EXCEPT ![adding.sub].isRefresh = TRUE,
                                ![adding.sub].requester = adding.listener]
          /\ Enqueue(<<Request("refresh", adding.sub)>>)
     ELSE UNCHANGED <<upa, requestQueue>>
  /\ UNCHANGED <<clientVars, pendingSubscriptions, subscriptions, idVars,
                 countVars, sessionVars, handling, deliveryVars, rmdsVars>>

\* Mutant: opening again leaves the item in the state it is in.
OpenedAsIs(s) == [upa[s] EXCEPT !.consumer = TRUE]
Opened(s) == [upa[s] EXCEPT !.state = "Subscribing", !.consumer = TRUE]

(* UPASubscription::Open of a new item. *)
Open ==
  /\ adding.step = "open"
  /\ adding' = NoAdd
  /\ upa' = [upa EXCEPT ![adding.sub] = Opened(adding.sub)]
  /\ Enqueue(<<Request("open", adding.sub)>>)
  /\ UNCHANGED <<clientVars, pendingSubscriptions, subscriptions, idVars,
                 countVars, sessionVars, handling, deliveryVars, rmdsVars>>

-----------------------------------------------------------------------------
(* The consumer thread: the throttled request queue.                       *)

(* PumpQueueEvents: every kind of closure waits while maxPendingOpens_     *)
(* requests are unanswered.  Mutant: one more is let through.              *)
CanDispatchOneMore(op) ==
  /\ Idle /\ Connected
  /\ Cardinality(pendingItems) <= MaxPending
  /\ requestQueue # <<>> /\ Head(requestQueue).op = op
CanDispatch(op) ==
  /\ Idle /\ Connected
  /\ Cardinality(pendingItems) < MaxPending
  /\ requestQueue # <<>> /\ Head(requestQueue).op = op

Dequeue == requestQueue' = Tail(requestQueue)

\* The stream an open or refresh of s goes out on.  Mutant: always a new one.
NewStream(s) == SM!Index2StreamId(SM!NextFreeIndex)
RequestStream(s) == IF upa[s].streamId # 0 THEN upa[s].streamId
                    ELSE SM!Index2StreamId(SM!NextFreeIndex)

\* The RMDS learns that s wants an image on stream id.
Asked(id, s) ==
  [upstream EXCEPT ![id] =
     [sub |-> s, owed |-> IF @.sub = s THEN @.owed + 1 ELSE 1]]

(* SendOpenRequest.  A first request needs a stream id; without one, or    *)
(* when the request does not encode, the listeners are told.  Without a    *)
(* buffer the request is dropped and when the channel refuses the message  *)
(* the item stops being pending; neither is reported, and nothing is tried *)
(* again.                                                                  *)
SendOpenRequest(s) ==
  \/ /\ upa[s].streamId = 0 /\ ~SM!HasFreeSlot
     /\ notices' = <<Notice(s, "error")>>
     /\ UNCHANGED <<upa, idVars, pendingItems, upstream>>
  \/ /\ upa[s].streamId # 0 \/ SM!HasFreeSlot
     /\ IF upa[s].streamId = 0
        THEN SM!AddItem(s) ELSE UNCHANGED idVars
     /\ upa' = [upa EXCEPT ![s].streamId = RequestStream(s)]
     /\ \/ /\ "sent" \in SendOutcomes
           /\ pendingItems' = pendingItems \cup {s}
           /\ upstream' = Asked(RequestStream(s), s)
           /\ UNCHANGED notices
        \/ /\ "noBuffer" \in SendOutcomes
           /\ UNCHANGED <<pendingItems, upstream, notices>>
        \/ /\ "notEncoded" \in SendOutcomes
           /\ notices' = <<Notice(s, "error")>>
           /\ UNCHANGED <<pendingItems, upstream>>
        \/ /\ "failed" \in SendOutcomes
           /\ pendingItems' = pendingItems \ {s}
           /\ UNCHANGED <<upstream, notices>>

Ignored == UNCHANGED <<upa, idVars, pendingItems, upstream, notices>>

(* SubscriptionOpenRequestCb: the item may have been closed meanwhile. *)
OpenRequestCb ==
  /\ CanDispatch("open") /\ Dequeue
  /\ LET s == Head(requestQueue).who
     IN  IF upa[s].state = "Subscribing" THEN SendOpenRequest(s) ELSE Ignored
  /\ UNCHANGED <<clientVars, pendingSubscriptions, subscriptions, openItems,
                 pendingCloses, sessionVars, adding, handling, current, snap,
                 calling, gotImage, failed, wire>>

(* SubscriptionRefreshRequestCb. *)
RefreshRequestCb ==
  /\ CanDispatch("refresh") /\ Dequeue
  /\ LET s == Head(requestQueue).who
     IN  IF upa[s].state \in {"Subscribing", "Live"}
         THEN SendOpenRequest(s) ELSE Ignored
  /\ UNCHANGED <<clientVars, pendingSubscriptions, subscriptions, openItems,
                 pendingCloses, sessionVars, adding, handling, current, snap,
                 calling, gotImage, failed, wire>>

(* SubscriptionCloseRequestCb and SendCloseRequest: if a stream was opened *)
(* tell the RMDS, count the item out, release the id and, if the item is   *)
(* still Subscribing, stop counting it as pending.                         *)
CloseRequestCb ==
  /\ CanDispatch("close") /\ Dequeue
  /\ pendingCloses' = Dec(pendingCloses)
  /\ LET s == Head(requestQueue).who
         id == upa[s].streamId
     IN  IF id = 0
         THEN UNCHANGED <<idVars, pendingItems, openItems, upstream>>
         ELSE /\ \/ /\ "sent" \in SendOutcomes
                    /\ upstream' = [upstream EXCEPT ![id] = NoStream]
                    /\ openItems' = Dec(openItems)
                 \/ /\ SendOutcomes # {"sent"}
                    /\ UNCHANGED <<upstream, openItems>>
              /\ SM!ReleaseStreamId(id)
              /\ pendingItems' = IF upa[s].state = "Subscribing"
                                 THEN pendingItems \ {s} ELSE pendingItems
  /\ UNCHANGED <<clientVars, pendingSubscriptions, subscriptions, upa,
                 sessionVars, adding, handling, deliveryVars, wire>>

(* UPASubscription::SubscriptionDestroyCb hands the closure on to the      *)
(* client's own queue.                                                     *)
DestroyRequestCb ==
  /\ CanDispatch("destroy") /\ Dequeue
  /\ clientQueue' = clientQueue \cup {Head(requestQueue).who}
  /\ UNCHANGED <<api, target, isShutdown, destroyed, pendingSubscriptions,
                 subscriptions, upa, idVars, countVars, sessionVars, adding,
                 handling, deliveryVars, rmdsVars>>

Response(class, st, id, s) ==
  [class |-> class, state |-> st, streamId |-> id, item |-> s]

(* LoginRequestCb and SourceDirectoryRequestCb; the RMDS grants both. *)
SessionRequestCb(op) ==
  /\ CanDispatch(op) /\ Dequeue
  /\ wire' = Append(wire, Response(op, "ok", 0, None))
  /\ UNCHANGED <<clientVars, pendingSubscriptions, subscriptions, upa, idVars,
                 countVars, sessionVars, adding, handling, deliveryVars,
                 upstream>>

DispatchEvent ==
  \/ OpenRequestCb \/ RefreshRequestCb \/ CloseRequestCb \/ DestroyRequestCb
  \/ SessionRequestCb("login") \/ SessionRequestCb("directory")

-----------------------------------------------------------------------------
(* The consumer thread: responses.                                         *)

(* ProcessResponse finds the owner of the stream and the state of the item *)
(* decides: a released stream and a closed item are ignored, the answer to *)
(* a request ends its wait.  What the state is used for comes later, in    *)
(* the handlers, and a client thread may have closed the item by then.     *)
ReadMarketData ==
  /\ Idle /\ wire # <<>>
  /\ Head(wire).class \in {"refresh", "update", "status"}
  /\ wire' = Tail(wire)
  /\ LET s == SM!GetItem(Head(wire).streamId)
         begin == handling' = [msg |-> Head(wire), sub |-> s,
                               seen |-> upa[s].state]
     IN  \/ /\ s = None
            /\ UNCHANGED <<upa, pendingItems, handling>>
         \/ /\ s # None /\ upa[s].state = "Inactive"
            /\ pendingItems' = IF upa[s].gotInitial THEN pendingItems
                                                    ELSE pendingItems \ {s}
            /\ UNCHANGED <<upa, handling>>
         \/ /\ s # None /\ upa[s].state \in {"Subscribing", "Stale"}
            /\ pendingItems' = pendingItems \ {s}
            /\ upa' = [upa EXCEPT ![s].gotInitial = TRUE]
            /\ begin
         \/ /\ s # None /\ upa[s].state = "Live"
            /\ begin
            /\ UNCHANGED <<upa, pendingItems>>
  /\ UNCHANGED <<clientVars, pendingSubscriptions, subscriptions, idVars,
                 openItems, pendingCloses, requestQueue, sessionVars, adding,
                 deliveryVars, upstream>>

(* SetRsslState, as a function of the stream state and of the item state   *)
(* it saw: whether the message counts as good, the new item state ("keep"  *)
(* when there is none), and what the listeners are told.                   *)
IsGood(st) == st \in {"ok", "suspect", "nochange", "nonstreaming"}

BecomesLive(st, seen) ==
  \/ st = "ok" /\ seen \in {"Subscribing", "Stale"}
  \/ st = "nochange" /\ seen = "Subscribing"
BecomesStale(st, seen) == st = "suspect" /\ seen # "Inactive"

RsslState(s, st, seen) ==
  CASE BecomesLive(st, seen)  -> "Live"
    [] BecomesStale(st, seen) -> "Stale"
    [] OTHER                  -> upa[s].state

StateNotices(s, st, seen) ==
  CASE st \in {"closed", "preempted"}     -> <<Notice(s, "error")>>
    [] BecomesStale(st, seen)             -> <<Notice(s, "status")>>
    [] st = "ok" /\ seen = "Stale"        -> <<Notice(s, "status")>>
    [] OTHER                              -> <<>>

CountOpened(st, seen) ==
  openItems' = IF BecomesLive(st, seen) /\ seen = "Subscribing"
               THEN Inc(openItems) ELSE openItems

\* The item states a handler may have read: the one ReadMarketData read, or
\* the present one, which a client's Close may have changed since.
SeenStates == {handling.seen, upa[handling.sub].state}

HandlerUnchanged ==
  UNCHANGED <<clientVars, pendingSubscriptions, subscriptions, idVars,
              pendingCloses, requestQueue, sessionVars, adding, current, snap,
              calling, gotImage, failed, rmdsVars>>

(* A status message. *)
ProcessStatus(seen) ==
  /\ handling.msg.class = "status" /\ handling' = NoMsg
  /\ LET s == handling.sub
         st == handling.msg.state
     IN  /\ upa' = [upa EXCEPT ![s].state = RsslState(s, st, seen)]
         /\ CountOpened(st, seen)
         /\ notices' = StateNotices(s, st, seen)
  /\ UNCHANGED pendingItems
  /\ HandlerUnchanged

(* An image.  If a refresh was asked for, the item is no longer pending    *)
(* and the image goes to the listener that asked as its initial image, to  *)
(* the others as a recap; otherwise all of them get it.  An image whose    *)
(* payload does not decode is dropped after its state was applied.         *)
ProcessRefresh(seen, decoded) ==
  /\ handling.msg.class = "refresh" /\ handling' = NoMsg
  /\ LET s == handling.sub
         st == handling.msg.state
         toRequester == IsGood(st) /\ decoded /\ upa[s].isRefresh
         image == [sub |-> s, requester |-> upa[s].requester,
                   type |-> IF toRequester THEN "refreshImage" ELSE "image"]
     IN  /\ pendingItems' = IF upa[s].isRefresh THEN pendingItems \ {s}
                                                ELSE pendingItems
         /\ upa' = [upa EXCEPT
              ![s].state = IF st = "nonstreaming" /\ seen = "Stale"
                           THEN "Live" ELSE RsslState(s, st, seen),
              ![s].isRefresh = @ /\ ~toRequester,
              ![s].requester = IF toRequester THEN None ELSE @]
         /\ CountOpened(st, seen)
         /\ notices' = StateNotices(s, st, seen) \o
              IF IsGood(st) /\ decoded THEN <<image>> ELSE <<>>
  /\ HandlerUnchanged

(* An update.  An update carries no state, yet the code reads one from the *)
(* same storage: on a stale item any outcome (okRead) is possible, and if  *)
(* it reads as OK the item goes live and the update is passed off as an    *)
(* image.                                                                  *)
ProcessUpdate(seen, okRead, decoded) ==
  /\ handling.msg.class = "update" /\ handling' = NoMsg
  /\ LET s == handling.sub
         fakeInitial == seen = "Stale" /\ okRead
         type == IF fakeInitial THEN "image" ELSE "update"
     IN  /\ upa' = [upa EXCEPT ![s].state =
                      IF fakeInitial THEN "Live" ELSE @]
         /\ notices' = IF decoded THEN <<Notice(s, type)>> ELSE <<>>
  /\ UNCHANGED <<pendingItems, openItems>>
  /\ HandlerUnchanged

ProcessMarketPriceResponse ==
  /\ handling # NoMsg
  /\ \E seen \in SeenStates, decoded \in Decodes :
       \/ ProcessStatus(seen)
       \/ ProcessRefresh(seen, decoded)
       \/ \E okRead \in BOOLEAN : ProcessUpdate(seen, okRead, decoded)

-----------------------------------------------------------------------------
(* The consumer thread: calling the listeners back.                        *)

(* NotifyListeners... copies the list of listeners under the lock. *)
TakeListeners ==
  /\ handling = NoMsg /\ notices # <<>> /\ snap = {} /\ calling = NoCall
  /\ notices' = Tail(notices)
  /\ snap' = upa[Head(notices).sub].listeners
  /\ current' = IF snap' = {} THEN NoNotice ELSE Head(notices)
  /\ UNCHANGED <<clientVars, pendingSubscriptions, subscriptions, upa, idVars,
                 countVars, requestQueue, sessionVars, adding, handling,
                 calling, gotImage, failed, rmdsVars>>

\* What sets gotImage_.  Mutant: the answer to a refresh does not.
IsFirstImage(type) == type = "image"
IsImage(type) == type \in {"image", "refreshImage"}

\* Whether RMDSBridgeSubscription lets the message through to the client.
PassesOn(l) ==
  /\ ~isShutdown[l]
  /\ current.type = "refreshImage" => l = current.requester \/ SendRecap
  /\ current.type = "update" => gotImage[l]

(* OnMessage, OnError: check the listener, then call the client.  Between  *)
(* the check and the call the client may mute the listener.                *)
OnMessage(l) ==
  /\ l \in snap /\ calling = NoCall
  /\ snap' = snap \ {l}
  /\ current' = IF snap' = {} THEN NoNotice ELSE current
  /\ IF PassesOn(l)
     THEN /\ calling' = [listener |-> l, type |-> current.type]
          /\ gotImage' = [gotImage EXCEPT ![l] = @ \/ IsImage(current.type)]
     ELSE UNCHANGED <<calling, gotImage>>
  /\ UNCHANGED <<clientVars, pendingSubscriptions, subscriptions, upa, idVars,
                 countVars, requestQueue, sessionVars, adding, handling,
                 notices, failed, rmdsVars>>

CallbackReturns ==
  /\ calling # NoCall
  /\ calling' = NoCall
  /\ failed' = IF calling.type = "error"
               THEN failed \cup {calling.listener} ELSE failed
  /\ UNCHANGED <<clientVars, pendingSubscriptions, subscriptions, upa, idVars,
                 countVars, requestQueue, sessionVars, adding, handling,
                 notices, current, snap, gotImage, rmdsVars>>

-----------------------------------------------------------------------------
(* The consumer thread: losing and recovering the connection.              *)

(* RecoverConnection: ConnectionNotification(false) makes every open item  *)
(* stale and tells its listeners; whatever was in flight is gone.          *)
LoseConnection ==
  /\ Idle /\ Connected /\ disconnects < MaxDisconnects
  /\ disconnects' = disconnects + 1
  /\ subscriberState' = "connecting"
  /\ LET open == {s \in Mapped : upa[s].state # "Inactive"}
     IN  /\ upa' = [s \in Subs |-> [upa[s] EXCEPT !.state =
                      IF s \in open THEN "Stale" ELSE @]]
         /\ \E order \in Orders(open) :
              notices' = [i \in DOMAIN order |-> Notice(order[i], "status")]
  /\ upstream' = [id \in StreamIds |-> NoStream]
  /\ wire' = <<>>
  /\ UNCHANGED <<clientVars, pendingSubscriptions, subscriptions, idVars,
                 countVars, requestQueue, adding, handling, current, snap,
                 calling, gotImage, failed>>

(* The channel is up again: ConnectionNotification(true) queues the login. *)
Reconnect ==
  /\ Idle /\ ~Connected
  /\ subscriberState' = "loggingin"
  /\ Enqueue(<<Request("login", None)>>)
  /\ UNCHANGED <<clientVars, pendingSubscriptions, subscriptions, upa, idVars,
                 countVars, disconnects, adding, handling, deliveryVars,
                 rmdsVars>>

(* LoginResponse asks for the source directory. *)
LoginResponse ==
  /\ Idle /\ wire # <<>> /\ Head(wire).class = "login"
  /\ wire' = Tail(wire)
  /\ subscriberState' = "requestingSourceDirectory"
  /\ Enqueue(<<Request("directory", None)>>)
  /\ UNCHANGED <<clientVars, pendingSubscriptions, subscriptions, upa, idVars,
                 countVars, disconnects, adding, handling, deliveryVars,
                 upstream>>

(* SourceDirectoryRefreshComplete: the dictionary is still loaded, so      *)
(* DictionaryUpdate follows at once; it goes live and re-opens every item  *)
(* of the map.                                                             *)
SourceDirectoryRefreshComplete ==
  /\ Idle /\ wire # <<>> /\ Head(wire).class = "directory"
  /\ wire' = Tail(wire)
  /\ subscriberState' = "live"
  /\ upa' = [s \in Subs |-> IF s \in Mapped THEN Opened(s) ELSE upa[s]]
  /\ \E order \in Orders(Mapped) :
       Enqueue([i \in DOMAIN order |-> Request("open", order[i])])
  /\ UNCHANGED <<clientVars, pendingSubscriptions, subscriptions, idVars,
                 countVars, disconnects, adding, handling, deliveryVars,
                 upstream>>

ConsumerStep ==
  \/ ProcessPendingSubscription \/ AddListener \/ RequestImage \/ Open
  \/ DispatchEvent \/ ReadMarketData \/ ProcessMarketPriceResponse
  \/ TakeListeners \/ (\E l \in Listeners : OnMessage(l)) \/ CallbackReturns
  \/ Reconnect \/ LoginResponse \/ SourceDirectoryRefreshComplete

-----------------------------------------------------------------------------
(* The RMDS (external): it answers each request with an image or ends the  *)
(* stream, and reports updates and changes of state on open streams.       *)

EndsStream(st) == st \in {"closed", "closedRecover", "nonstreaming"}

\* The RMDS sends a message on stream id and is left with stream as next.
Send(id, class, st, next) ==
  /\ wire' = Append(wire, Response(class, st, id, upstream[id].sub))
  /\ upstream' = [upstream EXCEPT ![id] =
                    IF EndsStream(st) THEN NoStream ELSE next]
  /\ UNCHANGED <<clientVars, pendingSubscriptions, subscriptions, upa, idVars,
                 countVars, requestQueue, sessionVars, adding, handling,
                 deliveryVars>>

Answer(id, class, st) ==
  /\ upstream[id].owed > 0
  /\ class = "refresh" \/ st \in {"closed", "closedRecover", "preempted"}
  /\ Send(id, class, st, [upstream[id] EXCEPT !.owed = @ - 1])

Update(id) ==
  /\ upstream[id].sub # None /\ Len(wire) < MaxWire
  /\ Send(id, "update", "ok", upstream[id])

ChangeState(id, st) ==
  /\ upstream[id].sub # None /\ Len(wire) < MaxWire
  /\ st # "nonstreaming"
  /\ Send(id, "status", st, upstream[id])

RmdsAnswers(id) ==
  \E class \in {"refresh", "status"}, st \in StreamStates :
     Answer(id, class, st)

RmdsStep ==
  \E id \in StreamIds :
     \/ RmdsAnswers(id)
     \/ Update(id)
     \/ \E st \in StreamStates : ChangeState(id, st)

-----------------------------------------------------------------------------
Next ==
  \/ \E l \in Listeners : AddSubscription(l) \/ Mute(l) \/ ClientStep(l)
  \/ ConsumerStep
  \/ LoseConnection
  \/ RmdsStep

Spec == Init /\ [][Next]_vars

(* Every cycle of the message loop adds the pending listeners, dispatches  *)
(* requests if the throttle lets it and reads the channel; in between,     *)
(* nothing but a dispatch takes the throttle's room away.  A client call   *)
(* that began runs to its end and the RMDS answers what it was asked.      *)
Fairness ==
  /\ \A l \in Listeners : WF_vars(ClientStep(l))
  /\ WF_vars(ConsumerStep)
  /\ SF_vars(ProcessPendingSubscription)
  /\ SF_vars(DispatchEvent)
  /\ SF_vars(ReadMarketData)
  /\ \A id \in StreamIds : WF_vars(RmdsAnswers(id))

FairSpec == Spec /\ Fairness

-----------------------------------------------------------------------------
SubState == {"Inactive", "Subscribing", "Live", "Stale"}
Items ==
  [symbol : Symbols \cup {None}, state : SubState,
   streamId : StreamIds \cup {0}, listeners : SUBSET Listeners,
   isRefresh : BOOLEAN, requester : Listeners \cup {None},
   gotInitial : BOOLEAN, consumer : BOOLEAN]
Requests == [op : {"open", "refresh", "close"}, who : Subs]
              \cup [op : {"destroy"}, who : Listeners]
              \cup [op : {"login", "directory"}, who : {None}]
NoticeTypes == {"image", "refreshImage", "update", "status", "error", "none"}
Notices == [sub : Subs, type : NoticeTypes, requester : Listeners \cup {None}]
Responses ==
  [class : {"refresh", "update", "status", "login", "directory"},
   state : StreamStates \cup {"ok"}, streamId : StreamIds \cup {0},
   item : Subs \cup {None}]

ClientTypes ==
  /\ api \in [Listeners -> {"new", "created", "muted", "destroy", "remove",
                            "unlist", "count", "erase", "done"}]
  /\ target \in [Listeners -> Subs \cup {None}]
  /\ isShutdown \in [Listeners -> BOOLEAN]
  /\ gotImage \in [Listeners -> BOOLEAN]
  /\ clientQueue \subseteq Listeners
  /\ destroyed \in [Listeners -> Nat]
  /\ failed \subseteq Listeners
  /\ pendingSubscriptions \in Seq(Listeners)

ItemTypes ==
  /\ subscriptions \in [Symbols -> Subs \cup {None}]
  /\ upa \in [Subs -> Items]
  /\ SM!TypeOK
  /\ pendingItems \subseteq Subs
  /\ openItems \in 0 .. CounterWidth - 1
  /\ pendingCloses \in 0 .. CounterWidth - 1

ThreadTypes ==
  /\ requestQueue \in Seq(Requests)
  /\ subscriberState \in {"connecting", "loggingin",
                          "requestingSourceDirectory", "live"}
  /\ disconnects \in 0 .. MaxDisconnects
  /\ adding \in [listener : Listeners \cup {None}, sub : Subs \cup {None},
                 step : {"none", "join", "create", "image", "open"}]
  /\ handling \in [msg : Responses \cup {None}, sub : Subs \cup {None},
                   seen : SubState]
  /\ notices \in Seq(Notices)
  /\ current \in Notices \cup {NoNotice}
  /\ snap \subseteq Listeners
  /\ calling \in [listener : Listeners \cup {None}, type : NoticeTypes]

RmdsTypes ==
  /\ upstream \in [StreamIds -> [sub : Subs \cup {None}, owed : Nat]]
  /\ wire \in Seq(Responses)

TypeOK == ClientTypes /\ ItemTypes /\ ThreadTypes /\ RmdsTypes

(* The table of stream ids is used the way StreamManager expects: only ids *)
(* that are owned are released, so none is ever listed as free twice and   *)
(* given to two items (UPASubscription.cpp SendOpenRequest,                *)
(* SendCloseRequest).                                                      *)
StreamIdsKept == SM!Spec

(* However many requests are queued, no more than maxPendingOpens_ items   *)
(* are counted as pending: opens, refreshes and the re-opening of all      *)
(* items after a recovery all go through PumpQueueEvents.                  *)
ThrottleBound == Cardinality(pendingItems) <= MaxPending

(* The pending closes reported to the statistics logger are the close      *)
(* requests on the queue, whichever threads queued them and whether or not *)
(* the items had a stream (QueueCloseRequest, SendCloseRequest).           *)
CloseRequests == {i \in DOMAIN requestQueue : requestQueue[i].op = "close"}
PendingClosesCounted ==
  pendingCloses = Cardinality(CloseRequests) % CounterWidth

(* A response is processed by the item it was sent for: one that outlives  *)
(* its stream finds no owner rather than the next one.  That holds while   *)
(* the table has fresh ids; once they are spent a released id is given out *)
(* again, and what was in flight for its old owner reaches the new one     *)
(* (UPAConsumer.cpp ProcessResponse, UPAStreamManager.cpp AddItem).        *)
ResponseReachesItem ==
  handling # NoMsg /\ SM!FreshIndexLeft => handling.msg.item = handling.sub

(* The client hears nothing of a subscription after its onDestroy, in      *)
(* whatever phase of delivering or adding the destroy came: onDestroy goes *)
(* through the consumer thread, behind any callback that had begun.  Two   *)
(* may come later.  The error for an unknown source is reported without a  *)
(* test of isShutdown_ (RMDSSubscriber.cpp AddSubscriptionToSource).  And  *)
(* a listener that joins an item while the last other one leaves it is     *)
(* left on an item that the source has erased; its destroy finds no item   *)
(* and calls onDestroy at once, beside a callback that is still running    *)
(* (subscription.cpp subscriptionBridge_destroy).                          *)
NoCallbackAfterDestroy ==
  calling # NoCall /\ destroyed[calling.listener] > 0
    => \/ calling.listener \in BadSource
       \/ \E s \in Subs \ Mapped : calling.listener \in upa[s].listeners

(* An item owns the one stream id it carries, from its first request until *)
(* its close is dispatched: re-opening after a recovery asks for no second *)
(* id, and an item of the map never works on an id that was released and   *)
(* may belong to another (SendOpenRequest, SendCloseRequest, Resubscribe). *)
StreamOwnership ==
  /\ \A i \in SM!Indices : itemArray[i] # None =>
        upa[itemArray[i]].streamId = SM!Index2StreamId(i)
  /\ \A s \in Mapped : upa[s].streamId # 0 =>
        SM!GetItem(upa[s].streamId) = s

(* A listener of a known source is given an image or an error: by the      *)
(* first image of the item when it joins before that, by a refresh when it *)
(* joins later (RMDSSubscriber.cpp AddSubscriptionToSource).               *)
ImageInDueCourse ==
  \A l \in Listeners :
    api[l] = "created" ~> gotImage[l] \/ l \in failed \/ api[l] # "created"

(* A lost connection is recovered: the login gets through the request      *)
(* queue, and every item is opened again (RMDSSubscriber.cpp               *)
(* DictionaryUpdate).                                                      *)
Recovery ==
  \A s \in Subs :
    subscriberState = "connecting" ~>
       \/ subscriberState = "live" /\ (s \in Mapped => upa[s].state = "Live")
=============================================================================
