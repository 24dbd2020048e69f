------------------------------ MODULE Session ------------------------------
(***************************************************************************)
(* The session of a subscribing transport with the RMDS, from the first    *)
(* connection on: UPAConsumer::Run with its connect loop and its message   *)
(* loop, the hosts and retry schedule of RMDSConnectionConfig, the pings,  *)
(* and the start-up sequence login, source directory, dictionary, live     *)
(* that RMDSSubscriber drives from the answers of UPALogin,                *)
(* UPASourceDirectory and UPADictionary.  The client asks for one item of  *)
(* each service; what becomes of the many subscriptions of one item is     *)
(* module Subscriber's matter.                                             *)
(*                                                                         *)
(* Threads.  The client's threads subscribe, ask for the dictionary and    *)
(* stop the transport.  The consumer thread runs everything else: one step *)
(* is one event dispatched, one message read, or one turn of a loop.  The  *)
(* RMDS and the network are external.                                      *)
(***************************************************************************)
EXTENDS Integers, Sequences, FiniteSets, SequencesExt, Login

CONSTANTS
  Services,      \* services the RMDS publishes in its source directory
  Strangers,     \* service names the client uses that no directory has
  NumHosts,      \* hosts of the "hosts" property
  Reachable,     \* hosts, by number, that can ever be reached
  Schedule,      \* "retrysched": tries on a host, entry by entry
  RetryWidth,    \* bound: the modulus of the unsigned retries_
  MaxDispatches, \* maxDispatchesPerCycle_
  MaxPending,    \* maxPendingOpens_
  FromFile,      \* parts of the dictionary loaded from files
  Troubles,      \* kinds of trouble the RMDS and the network can make
  MaxTroubles,   \* bound: how often they do
  MaxAsks,       \* bound: dictionary requests of the client
  MayStop        \* whether the client may stop the transport

Parts == {"fields", "enums"}

\* The last line is the model's own: the set asked holds services and
\* requests of the session alike.
ASSUME SessionAssumption ==
  /\ Services \cap Strangers = {} /\ IsFiniteSet(Services)
  /\ NumHosts \in Nat \ {0} /\ Reachable \subseteq 1 .. NumHosts
  /\ Schedule \in Seq(Nat) /\ Schedule # <<>> /\ RetryWidth \in Nat \ {0}
  /\ MaxDispatches \in Nat \ {0} /\ MaxPending \in Nat \ {0}
  /\ FromFile \subseteq Parts
  /\ MaxTroubles \in Nat /\ MaxAsks \in Nat /\ MayStop \in BOOLEAN
  /\ Services \cap ({"login", "directory"} \cup Parts) = {}

Names == Services \cup Strangers

VARIABLES
  \* UPAConsumer
  phase,             \* where the thread is in Run
  runThread, shouldRecover,
  channel,           \* rsslConsumerChannel_
  sessionChannel,    \* the pointer login, directory and dictionary keep
  budget,            \* events this cycle may still dispatch
  receivedServerMsg, inSuspect,
  host, entry, retries,  \* RMDSConnectionConfig
  \* UPALogin, UPADictionary
  flags, loaded,
  \* RMDSSubscriber
  subscriberState, connected, recovering,
  reply,             \* dictionaryReply_ and sentDictionary_
  waiting,           \* pendingSubscriptions_
  refused,           \* names answered with "bad symbol"
  told,              \* the last transport event the client was given
  \* RMDSSource and UPASubscription
  source,            \* service state, "unknown" before it is created
  item,              \* state of the item of each service
  pendingItems,      \* UPAStreamManager: requests awaiting their response
  \* the request queue
  queue,
  \* the network and the RMDS (external)
  link, wire,
  asked,             \* requests the RMDS has yet to answer
  standing,          \* how far it has admitted the consumer
  serviceUp,
  troubles, asks,
  \* history, for the properties
  astray,            \* items that went live, or lost an image, unnoticed
  early,             \* went live on a dictionary that nobody was waiting for
  doubted,           \* went live on a login that is still marked suspect
  hitch,             \* the RMDS refused or failed a step of the session
  requested          \* items requested on the present connection

configVars == <<host, entry, retries>>
threadVars == <<phase, runThread, shouldRecover, budget>>
channelVars == <<channel, sessionChannel>>
loginVars == <<flags, inSuspect>>
stateVars == <<subscriberState, connected, recovering, told>>
clientVars == <<waiting, refused, reply, asks>>
itemVars == <<source, item, pendingItems>>
netVars == <<link, wire, asked, standing, requested>>
historyVars == <<astray, early, doubted, hitch>>
vars == <<configVars, threadVars, channelVars, loginVars, loaded, stateVars,
          clientVars, itemVars, queue, receivedServerMsg, netVars, serviceUp,
          troubles, historyVars>>

Request(op, s) == [op |-> op, service |-> s]
None == "none"
Opens(set) == [i \in 1 .. Cardinality(set) |->
                 Request("open", SetToSeq(set)[i])]

Init ==
  /\ phase = "connect" /\ runThread = TRUE /\ shouldRecover = TRUE
  /\ channel = "none" /\ sessionChannel = "none" /\ budget = 0
  /\ receivedServerMsg = FALSE /\ inSuspect = FALSE
  /\ host = 1 /\ entry = 1 /\ retries = Schedule[1]
  /\ flags = NewFlags /\ loaded = FromFile
  /\ subscriberState = "connecting" /\ connected = FALSE
  /\ recovering = FALSE /\ reply = "none"
  /\ waiting = <<>> /\ refused = {} /\ told = "none"
  /\ source = [s \in Services |-> "unknown"]
  /\ item = [s \in Services |-> "none"]
  /\ pendingItems = {} /\ queue = <<>>
  /\ link = "none" /\ wire = <<>> /\ asked = {} /\ standing = "none"
  /\ serviceUp = [s \in Services |-> TRUE]
  /\ troubles = 0 /\ asks = 0
  /\ astray = {} /\ early = FALSE /\ doubted = FALSE
  /\ hitch = FALSE /\ requested = {}

-----------------------------------------------------------------------------
(* RMDSConnectionConfig: one host after the other, each as often as the    *)
(* entry of the schedule says, then the next entry; the last entry stays.  *)

\* Mutants: the count goes on from where it was; the host is not moved on.
NextHostUncounted ==
  /\ retries' = (retries - 1) % RetryWidth
  /\ host' = IF retries = 1 /\ host < NumHosts THEN host + 1
             ELSE IF retries = 1 THEN 1 ELSE host
  /\ UNCHANGED entry
SameHost == UNCHANGED configVars

NextHost ==
  IF retries = 1
    THEN /\ host' = IF host = NumHosts THEN 1 ELSE host + 1
         /\ entry' = IF host = NumHosts /\ entry < Len(Schedule)
                       THEN entry + 1 ELSE entry
         /\ retries' = Schedule[entry']
    ELSE /\ retries' = (retries - 1) % RetryWidth
         /\ UNCHANGED <<host, entry>>

-----------------------------------------------------------------------------
(* Losing and closing the connection.                                      *)

\* RMDSSources::SetAllStale: an item without a request stays as it is.
StaleItems == [s \in Services |-> IF item[s] = "none" THEN "none"
                                                       ELSE "Stale"]

\* RMDSSubscriber::ConnectionNotification(false).  Mutant: the loss is not
\* remembered.
ForgetLoss ==
  /\ connected' = FALSE /\ UNCHANGED <<recovering, early, doubted>>
  /\ subscriberState' = "connecting" /\ told' = "disconnect"
  /\ item' = StaleItems

ConnectionLost ==
  /\ connected' = FALSE
  /\ IF connected
       THEN /\ subscriberState' = "connecting" /\ recovering' = TRUE
            /\ told' = "disconnect" /\ item' = StaleItems
            /\ early' = FALSE /\ doubted' = FALSE
       ELSE /\ subscriberState' = "unconnected" /\ told' = "failed"
            /\ UNCHANGED <<recovering, item, early, doubted>>

\* UPAConsumer::RecoverConnection.  The session's objects keep the pointer.
RecoverConnection ==
  /\ ConnectionLost
  /\ channel' = "none" /\ shouldRecover' = TRUE
  /\ sessionChannel' = IF sessionChannel = "current" THEN "dangling"
                                                      ELSE sessionChannel
  /\ link' = "none" /\ wire' = <<>> /\ asked' = {} /\ standing' = "none"
  /\ requested' = {}

-----------------------------------------------------------------------------
(* The connect loop.                                                       *)

Trouble(kind) == /\ kind \in Troubles /\ troubles < MaxTroubles
                 /\ troubles' = troubles + 1

\* No connection: the delay passes, and the schedule says where to go next.
ConnectRefused ==
  /\ phase = "connect" /\ runThread /\ shouldRecover
  /\ IF host \in Reachable THEN Trouble("refuse") ELSE UNCHANGED troubles
  /\ sessionChannel' = "none" /\ NextHost
  /\ UNCHANGED <<threadVars, channel, loginVars, loaded, stateVars, clientVars,
                 itemVars, queue, receivedServerMsg, netVars, serviceUp,
                 historyVars>>

ConnectAccepted ==
  /\ phase = "connect" /\ runThread /\ shouldRecover /\ host \in Reachable
  /\ sessionChannel' = "none" /\ channel' = "initializing"
  /\ phase' = "init" /\ link' = "up"
  /\ UNCHANGED <<configVars, runThread, shouldRecover, budget, loginVars,
                 loaded, stateVars, clientVars, itemVars, queue,
                 receivedServerMsg, wire, asked, standing, requested,
                 serviceUp, troubles, historyVars>>

\* The channel fails, or does not become active in a minute.
InitFails ==
  /\ phase = "init" /\ runThread /\ Trouble("init")
  /\ RecoverConnection /\ NextHost /\ phase' = "connect"
  /\ UNCHANGED <<runThread, budget, loginVars, loaded, clientVars, source,
                 pendingItems, queue, receivedServerMsg, serviceUp, astray,
                 hitch>>

(* The channel is active: ConnectionNotification(true) queues the login.   *)
(* Requests of an earlier connection may be in the queue still.            *)
ChannelActive ==
  /\ phase = "init" /\ runThread
  /\ shouldRecover' = FALSE /\ channel' = "active"
  /\ sessionChannel' = "current"
  /\ connected' = TRUE /\ subscriberState' = "loggingin"
  /\ queue' = Append(queue, Request("login", None))
  /\ phase' = "pump" /\ hitch' = FALSE
  /\ UNCHANGED <<configVars, runThread, budget, loginVars, loaded, recovering,
                 told, clientVars, itemVars, receivedServerMsg, netVars,
                 serviceUp, troubles, astray, early, doubted>>

-----------------------------------------------------------------------------
(* PumpQueueEvents.                                                        *)

\* The names the pending list has, known or not.
Pending == {waiting[i] : i \in DOMAIN waiting}
KnownNow == {s \in Services : source[s] # "unknown"}

(* ProcessPendingSubcriptions: once live, each pending subscription is     *)
(* added to its source and its open request queued, or answered at once    *)
(* when no such source is known.  Mutant: the state is not looked at.      *)
ProcessPendingUnready == {waiting[i] : i \in DOMAIN waiting}
ProcessPending == IF subscriberState = "live" THEN Pending ELSE {}

Pump ==
  /\ phase = "pump" /\ runThread
  /\ LET added == ProcessPending \cap KnownNow IN
       /\ item' = [s \in Services |-> IF s \in added THEN "Subscribing"
                                                     ELSE item[s]]
       /\ queue' = queue \o Opens(added)
       /\ refused' = refused \cup (ProcessPending \ KnownNow)
       /\ waiting' = IF ProcessPending = {} THEN waiting ELSE <<>>
       /\ astray' = astray \ added
  /\ budget' = IF Len(queue') < MaxDispatches THEN Len(queue')
                                              ELSE MaxDispatches
  /\ phase' = "dispatch"
  /\ UNCHANGED <<configVars, runThread, shouldRecover, channelVars, loginVars,
                 loaded, stateVars, reply, asks, source, pendingItems,
                 receivedServerMsg, netVars, serviceUp, troubles, early, doubted,
                 hitch>>

CanDispatch == budget > 0 /\ Cardinality(pendingItems) < MaxPending

Dispatching(op) ==
  /\ phase = "dispatch" /\ runThread /\ CanDispatch /\ queue # <<>>
  /\ Head(queue).op = op
  /\ budget' = budget - 1

\* What a request meets: a channel that delivers, or none that does.
Delivers == channel = "active" /\ sessionChannel = "current" /\ link = "up"

\* A request that goes out on the session's channel.
Send(op, what) ==
  /\ Dispatching(op) /\ queue' = Tail(queue)
  /\ asked' = asked \cup (IF Delivers THEN what ELSE {})
  /\ UNCHANGED <<configVars, phase, runThread, shouldRecover, channelVars,
                 loginVars, loaded, stateVars, clientVars, itemVars,
                 receivedServerMsg, link, wire, standing, requested, serviceUp,
                 troubles, historyVars>>

DispatchLogin == Send("login", {"login"})
DispatchDirectory == Send("directory", {"directory"})
\* UPADictionary::SendRequest asks for the parts that are not loaded.
DispatchDictionary == Send("dictionary", Parts \ loaded)

(* SubscriptionOpenRequestCb.  Without a channel there is no buffer, and   *)
(* the request is lost without a word; when the send fails, it is not      *)
(* pending.  An item that is no longer Subscribing is left alone.          *)
DispatchOpen ==
  /\ Dispatching("open") /\ queue' = Tail(queue)
  /\ LET s == Head(queue).service
         tried == item[s] = "Subscribing" /\ channel = "active"
         sent == tried /\ link # "broken" IN
       /\ pendingItems' = IF tried /\ ~sent THEN pendingItems \ {s}
                          ELSE pendingItems \cup (IF sent THEN {s} ELSE {})
       /\ requested' = requested \cup (IF sent THEN {s} ELSE {})
       /\ asked' = asked \cup (IF sent /\ link = "up" THEN {s} ELSE {})
  /\ UNCHANGED <<configVars, phase, runThread, shouldRecover, channelVars,
                 loginVars, loaded, stateVars, clientVars, source, item,
                 receivedServerMsg, link, wire, standing, serviceUp, troubles,
                 historyVars>>

-----------------------------------------------------------------------------
(* The dictionary is complete: RMDSSubscriber::DictionaryUpdate(true), with *)
(* the state and the queue as they are by then.                            *)
ItemsInUse == {s \in Services : item[s] # "none"}

\* Both parts are loaded.  Mutant: one is enough.
CompleteByHalf(parts) == parts # {}
Complete(parts) == parts = Parts

\* A client that waits for the dictionary is sent it.  Mutant: only by the
\* recovery.
ReplyWhenRecovering ==
  IF reply = "waiting" /\ recovering THEN "sent" ELSE reply
ReplyNow == IF reply = "waiting" THEN "sent" ELSE reply

DictionaryComplete(state, q) ==
  /\ subscriberState' = "live"
  /\ reply' = ReplyNow
  /\ early' = (early \/ state \notin {"requestingDictionary", "live"})
  /\ doubted' = (doubted \/ flags.suspect)
  /\ recovering' = FALSE
  /\ told' = IF recovering THEN "reconnect" ELSE "complete"
  /\ queue' = IF recovering THEN q \o Opens(ItemsInUse) ELSE q

\* The items after ResubscribeAll, and those the history gives up.
Resubscribed(items) ==
  [s \in Services |-> IF recovering /\ s \in ItemsInUse
                        THEN "Subscribing" ELSE items[s]]
StillAstray(set) == IF recovering THEN set \ ItemsInUse ELSE set

\* ClientDictionaryRequestCb: only a dictionary that is complete is sent.
DispatchAsk ==
  /\ Dispatching("ask")
  /\ IF Complete(loaded)
       THEN /\ DictionaryComplete(subscriberState, Tail(queue))
            /\ item' = Resubscribed(item) /\ astray' = StillAstray(astray)
       ELSE /\ queue' = Tail(queue)
            /\ UNCHANGED <<subscriberState, reply, early, doubted, recovering,
                           told, item, astray>>
  /\ UNCHANGED <<configVars, phase, runThread, shouldRecover, channelVars,
                 loginVars, loaded, connected, waiting, refused, asks, source,
                 pendingItems, receivedServerMsg, netVars, serviceUp, troubles,
                 hitch>>

(* The cycle's dispatching is over.  Without a channel the thread sleeps,  *)
(* and when that is a connection to be recovered, it waits and connects.   *)
PumpDone ==
  /\ phase = "dispatch" /\ runThread /\ ~(CanDispatch /\ queue # <<>>)
  /\ budget' = 0
  /\ IF channel = "active"
       THEN phase' = "read" /\ UNCHANGED configVars
       ELSE phase' = "connect" /\ NextHost
  /\ UNCHANGED <<runThread, shouldRecover, channelVars, loginVars, loaded,
                 stateVars, clientVars, itemVars, queue, receivedServerMsg,
                 netVars, serviceUp, troubles, historyVars>>

-----------------------------------------------------------------------------
(* ReadFromChannel and ProcessResponse, one message at a time.             *)

Reading(kind) ==
  /\ phase = "read" /\ channel = "active"
  /\ wire # <<>> /\ Head(wire).kind = kind

\* What reading leaves alone, whatever the message.
readVars == <<configVars, budget, waiting, refused, asks, serviceUp, troubles>>

(* A response that fails ends ReadFromChannel, and, since no recovery was  *)
(* asked for, the thread.  Mutant: it recovers the connection instead.     *)
ReadFailed == runThread' = FALSE /\ phase' = "pings"
ReadOn == /\ wire' = Tail(wire) /\ UNCHANGED <<runThread, phase>>
          /\ receivedServerMsg' = TRUE

\* What the listeners of the login make of its notice.
LoginResponse(notice) ==
  CASE notice = "succeeded" /\ connected ->
         /\ subscriberState' = "requestingSourceDirectory"
         /\ queue' = Append(queue, Request("directory", None))
         /\ UNCHANGED told
    [] notice # "none" /\ ~(notice = "succeeded" /\ connected) ->
         /\ subscriberState' = "unconnected" /\ told' = "failed"
         /\ UNCHANGED queue
    [] OTHER -> UNCHANGED <<subscriberState, told, queue>>

ReadLogin ==
  /\ Reading("login")
  /\ LET m == Head(wire).msg
         after == FlagsAfter(flags, m)
         verdict == ConsumerVerdict(after, m) IN
       /\ verdict # "recover"
       /\ flags' = after
       /\ LoginResponse(LoginNotice(m))
       /\ inSuspect' = (verdict = "suspect" \/ (inSuspect /\ verdict # "good"))
       /\ hitch' = (hitch \/ verdict # "good"
                       \/ (subscriberState = "loggingin" /\ ~Accepts(m)))
       /\ IF verdict = "fail"
            THEN ReadFailed /\ wire' = Tail(wire) /\ UNCHANGED receivedServerMsg
            ELSE ReadOn
  /\ UNCHANGED <<readVars, shouldRecover, channelVars, loaded, connected,
                 recovering, reply, itemVars, link, asked, standing, requested,
                 astray, early, doubted>>

(* The login stream is closed, recoverably, or a flag says that once it    *)
(* was: the connection is closed in the middle of the read loop.           *)
ReadLoginRecover ==
  /\ Reading("login")
  /\ LET m == Head(wire).msg IN
       /\ ConsumerVerdict(FlagsAfter(flags, m), m) = "recover"
       /\ flags' = FlagsAfter(flags, m)
       /\ queue' = IF LoginNotice(m) = "succeeded"
                     THEN Append(queue, Request("directory", None)) ELSE queue
  /\ RecoverConnection /\ phase' = "closed" /\ receivedServerMsg' = TRUE
  /\ UNCHANGED <<readVars, runThread, inSuspect, loaded, reply, source,
                 pendingItems, astray, hitch>>

\* RMDSSource::SetState, for the services an answer or an update names.
\* Mutant: a service that goes down keeps its items.
WentDownUnseen(up) == {}
WentDown(up) == {s \in DOMAIN up : source[s] = "up" /\ ~up[s]}
WentUp(up) == {s \in DOMAIN up : source[s] = "down" /\ up[s]}

SetStates(up) ==
  source' = [s \in Services |-> IF s \notin DOMAIN up THEN source[s]
                                ELSE IF up[s] THEN "up" ELSE "down"]
ItemsAfter(up) ==
  [s \in Services |-> CASE item[s] # "none" /\ s \in WentDown(up) -> "Stale"
                        [] item[s] # "none" /\ s \in WentUp(up) -> "Live"
                        [] OTHER -> item[s]]
\* Set live although their image has yet to come, or live or stale although
\* it was not even asked for, and will not be.
AstrayAfter(up) ==
  astray \cup {s \in WentUp(up) : item[s] # "none"
                                    /\ s \notin requested \ pendingItems}
         \cup {s \in WentDown(up) : item[s] # "none" /\ s \notin requested}

(* The refresh of the directory.  When it is through, the dictionary is    *)
(* asked for, or, when there is one, the session is live.                  *)
ReadDirectory ==
  /\ Reading("directory") /\ Head(wire).refresh /\ Head(wire).decodes
  /\ SetStates(Head(wire).up) /\ ReadOn
  /\ IF Complete(loaded)
       THEN /\ DictionaryComplete("requestingDictionary", queue)
            /\ item' = Resubscribed(ItemsAfter(Head(wire).up))
            /\ astray' = StillAstray(AstrayAfter(Head(wire).up))
       ELSE /\ subscriberState' = "requestingDictionary"
            /\ queue' = Append(queue, Request("dictionary", None))
            /\ item' = ItemsAfter(Head(wire).up)
            /\ astray' = AstrayAfter(Head(wire).up)
            /\ UNCHANGED <<reply, early, doubted, recovering, told>>
  /\ UNCHANGED <<readVars, shouldRecover, channelVars, loginVars, loaded,
                 connected, pendingItems, link, asked, standing, requested,
                 hitch>>

ReadDirectoryUpdate ==
  /\ Reading("directory") /\ ~Head(wire).refresh /\ Head(wire).decodes
  /\ SetStates(Head(wire).up) /\ ReadOn
  /\ item' = ItemsAfter(Head(wire).up) /\ astray' = AstrayAfter(Head(wire).up)
  /\ UNCHANGED <<readVars, shouldRecover, channelVars, loginVars, loaded,
                 stateVars, reply, pendingItems, queue, link, asked, standing,
                 requested, early, doubted, hitch>>

\* Only the refresh is reported; either way the thread ends.
ReadBadDirectory ==
  /\ Reading("directory") /\ ~Head(wire).decodes
  /\ ReadFailed /\ wire' = Tail(wire) /\ hitch' = TRUE
  /\ IF Head(wire).refresh
       THEN subscriberState' = "unconnected" /\ told' = "directoryFailed"
       ELSE UNCHANGED <<subscriberState, told>>
  /\ UNCHANGED <<readVars, shouldRecover, channelVars, loginVars, loaded,
                 connected, recovering, reply, itemVars, queue,
                 receivedServerMsg, link, asked, standing, requested, astray,
                 early, doubted>>

\* ProcessDictionaryResponse: a part that came, or one that fails.
ReadDictionary ==
  /\ Reading("dictionary") /\ ReadOn
  /\ IF Head(wire).decodes
       THEN /\ loaded' = loaded \cup {Head(wire).part} /\ UNCHANGED hitch
            /\ IF Complete(loaded')
                 THEN /\ DictionaryComplete(subscriberState, queue)
                      /\ item' = Resubscribed(item)
                      /\ astray' = StillAstray(astray)
                 ELSE UNCHANGED <<subscriberState, reply, early, doubted,
                                  recovering, told, queue, item, astray>>
       ELSE /\ subscriberState' = "unconnected" /\ told' = "dictionaryFailed"
            /\ hitch' = TRUE
            /\ UNCHANGED <<loaded, reply, early, doubted, recovering, queue,
                           item, astray>>
  /\ UNCHANGED <<readVars, shouldRecover, channelVars, loginVars, connected,
                 source, pendingItems, link, asked, standing, requested>>

(* An image.  While the login is suspect it is dropped, and its request    *)
(* stays pending; an item that is Live already is not taken off either.    *)
\* Mutant: the state is looked at when it has been set already.
AnsweredTooLate(s) ==
  IF item'[s] = "Live" THEN pendingItems ELSE pendingItems \ {s}
Answered(s) == IF item[s] = "Live" THEN pendingItems ELSE pendingItems \ {s}

ReadImage ==
  /\ Reading("image") /\ ReadOn
  /\ LET s == Head(wire).service IN
       IF inSuspect
         THEN astray' = astray \cup {s} /\ UNCHANGED <<item, pendingItems>>
         ELSE /\ item' = [item EXCEPT ![s] = "Live"]
              /\ pendingItems' = Answered(s)
              /\ UNCHANGED astray
  /\ UNCHANGED <<readVars, shouldRecover, channelVars, loginVars, loaded,
                 stateVars, reply, source, queue, link, asked, standing,
                 requested, early, doubted, hitch>>

ReadPing ==
  /\ phase = "read" /\ channel = "active" /\ wire = <<>> /\ link = "up"
  /\ receivedServerMsg' = TRUE
  /\ UNCHANGED <<configVars, threadVars, channelVars, loginVars, loaded,
                 stateVars, clientVars, itemVars, queue, netVars, serviceUp,
                 troubles, historyVars>>

\* The read itself fails: the connection is recovered.
ReadFails ==
  /\ phase = "read" /\ channel = "active" /\ wire = <<>> /\ link = "broken"
  /\ RecoverConnection /\ phase' = "recover"
  /\ UNCHANGED <<configVars, runThread, budget, loginVars, loaded, clientVars,
                 source, pendingItems, queue, receivedServerMsg, serviceUp,
                 troubles, astray, hitch>>

(* The loop goes on reading the channel that a login message closed, and   *)
(* finds, a second time, that it has failed.                               *)
ReadAfterClose ==
  /\ phase = "closed" /\ RecoverConnection /\ phase' = "recover"
  /\ UNCHANGED <<configVars, runThread, budget, loginVars, loaded, clientVars,
                 source, pendingItems, queue, receivedServerMsg, serviceUp,
                 troubles, astray, hitch>>

\* Nothing is left to read, or half the ping interval has gone by.
ReadDone ==
  /\ phase = "read" /\ phase' = "pings"
  /\ UNCHANGED <<configVars, runThread, shouldRecover, budget, channelVars,
                 loginVars, loaded, stateVars, clientVars, itemVars, queue,
                 receivedServerMsg, netVars, serviceUp, troubles, historyVars>>

\* shouldRecoverConnection_: the delay, and back to the connect loop.
Reconnect ==
  /\ phase \in {"closed", "recover"} /\ NextHost /\ phase' = "connect"
  /\ UNCHANGED <<runThread, shouldRecover, budget, channelVars, loginVars,
                 loaded, stateVars, clientVars, itemVars, queue,
                 receivedServerMsg, netVars, serviceUp, troubles, historyVars>>

-----------------------------------------------------------------------------
(* ProcessPings, at the end of each turn of the message loop.              *)

PingsNotDue ==
  /\ phase = "pings" /\ phase' = "pump"
  /\ UNCHANGED <<configVars, runThread, shouldRecover, budget, channelVars,
                 loginVars, loaded, stateVars, clientVars, itemVars, queue,
                 receivedServerMsg, netVars, serviceUp, troubles, historyVars>>

\* A ping that cannot be sent loses the connection.
PingFails ==
  /\ phase = "pings" /\ link = "broken"
  /\ RecoverConnection /\ phase' = "pump"
  /\ UNCHANGED <<configVars, runThread, budget, loginVars, loaded, clientVars,
                 source, pendingItems, queue, receivedServerMsg, serviceUp,
                 troubles, astray, hitch>>

(* Time to see whether anything was received.  A server that is there      *)
(* sends a ping, if nothing else, within the time.                         *)
\* Mutant: the flag is not reset, and once heard is heard for ever.
HeardForEver == receivedServerMsg
HeardSinceThen == FALSE

CheckReceived ==
  /\ phase = "pings" /\ (receivedServerMsg \/ link # "up")
  /\ phase' = "pump" /\ receivedServerMsg' = HeardSinceThen
  /\ IF receivedServerMsg
       THEN UNCHANGED <<channelVars, shouldRecover, stateVars, item, netVars,
                        early, doubted>>
       ELSE RecoverConnection
  /\ UNCHANGED <<configVars, runThread, budget, loginVars, loaded, clientVars,
                 source, pendingItems, queue, serviceUp, troubles, astray,
                 hitch>>

\* Where runThread_ is looked at.  Mutant: the pump forgets to.
LoopConditions == {"connect", "init", "pump"}
Checkpoints == {"connect", "init", "pump", "dispatch"}

\* Out of the loops: the channel is closed, and nobody is told.
RunEnds ==
  /\ phase \in Checkpoints /\ ~runThread
  /\ phase' = "ended" /\ channel' = "none" /\ link' = "none" /\ wire' = <<>>
  /\ asked' = {} /\ standing' = "none" /\ requested' = {}
  /\ UNCHANGED <<configVars, runThread, shouldRecover, budget, sessionChannel,
                 loginVars, loaded, stateVars, clientVars, itemVars, queue,
                 receivedServerMsg, serviceUp, troubles, historyVars>>

-----------------------------------------------------------------------------
(* The client.                                                             *)

stoppedVars == <<configVars, phase, shouldRecover, budget, channelVars,
                 loginVars, loaded, itemVars, receivedServerMsg, netVars,
                 serviceUp, troubles, historyVars>>

Subscribe(s) ==
  /\ s \notin Pending \cup refused \cup ItemsInUse
  /\ waiting' = Append(waiting, s)
  /\ UNCHANGED <<stoppedVars, runThread, stateVars, refused, reply, asks, queue>>

\* SetDictionaryReply.  Once a dictionary was sent, no other will be.
AskDictionary ==
  /\ asks < MaxAsks /\ asks' = asks + 1
  /\ reply' = IF reply \in {"sent", "unsent"} THEN "unsent" ELSE "waiting"
  /\ queue' = Append(queue, Request("ask", None))
  /\ UNCHANGED <<stoppedVars, runThread, stateVars, waiting, refused>>

Stop ==
  /\ MayStop /\ runThread
  /\ runThread' = FALSE /\ subscriberState' = "unconnected"
  /\ UNCHANGED <<stoppedVars, connected, recovering, told, clientVars, queue>>

-----------------------------------------------------------------------------
(* The network and the RMDS (external).                                    *)

rmdsVars == <<configVars, threadVars, channelVars, loginVars, loaded,
              stateVars, clientVars, itemVars, queue, receivedServerMsg,
              requested, historyVars>>

Answers(request, message) ==
  /\ link = "up" /\ request \in asked /\ asked' = asked \ {request}
  /\ wire' = Append(wire, message)
  /\ UNCHANGED <<rmdsVars, link, serviceUp>>

LoginMsg(class, state, solicited, decodes) ==
  [kind |-> "login", msg |-> [class |-> class, state |-> state,
                              solicited |-> solicited, decodes |-> decodes]]
DirectoryMsg(refresh, decodes, up) ==
  [kind |-> "directory", refresh |-> refresh, decodes |-> decodes, up |-> up]

\* The messages that are no plain acceptance, one of each sort.
LoginTroubles ==
  {LoginMsg("refresh", "ok", FALSE, TRUE),
   LoginMsg("refresh", "ok", TRUE, FALSE)}
    \cup {LoginMsg("status", state, FALSE, TRUE) : state \in LoginStates}
    \cup {LoginMsg(class, "ok", FALSE, TRUE) : class \in {"close", "other"}}

AnswerLogin ==
  /\ Answers("login", LoginMsg("refresh", "ok", TRUE, TRUE))
  /\ standing' = IF standing = "none" THEN "admitted" ELSE standing
  /\ UNCHANGED troubles

AnswerLoginBadly ==
  /\ Trouble("login") /\ UNCHANGED standing
  /\ \E m \in LoginTroubles : Answers("login", m)

\* A change of the login after it was accepted.
LoginChanges ==
  /\ Trouble("login") /\ link = "up" /\ standing # "none"
  /\ \E m \in LoginTroubles : wire' = Append(wire, m)
  /\ UNCHANGED <<rmdsVars, link, asked, standing, serviceUp>>

AnswerDirectory ==
  /\ standing # "none" /\ standing' = "listening" /\ UNCHANGED troubles
  /\ Answers("directory", DirectoryMsg(TRUE, TRUE, serviceUp))

AnswerDirectoryBadly ==
  /\ Trouble("directory") /\ standing # "none" /\ UNCHANGED standing
  /\ Answers("directory", DirectoryMsg(TRUE, FALSE, serviceUp))

AnswerDictionary ==
  /\ standing # "none" /\ UNCHANGED standing
  /\ \E part \in Parts, decodes \in BOOLEAN :
       /\ Answers(part, [kind |-> "dictionary", part |-> part,
                         decodes |-> decodes])
       /\ IF decodes THEN UNCHANGED troubles ELSE Trouble("dictionary")

AnswerItem ==
  /\ standing # "none" /\ UNCHANGED <<standing, troubles>>
  /\ \E s \in Services : /\ serviceUp[s]
                         /\ Answers(s, [kind |-> "image", service |-> s])

\* A service goes down or comes back; who listens to the directory is told.
ServiceChanges ==
  /\ \E s \in Services :
       /\ IF serviceUp[s] THEN Trouble("down") ELSE UNCHANGED troubles
       /\ serviceUp' = [serviceUp EXCEPT ![s] = ~serviceUp[s]]
       /\ wire' = IF link = "up" /\ standing = "listening"
                    THEN Append(wire, DirectoryMsg(FALSE, TRUE,
                                        [t \in {s} |-> ~serviceUp[s]]))
                    ELSE wire
  /\ UNCHANGED <<rmdsVars, link, asked, standing>>

BadUpdate ==
  /\ Trouble("directory") /\ link = "up" /\ standing = "listening"
  /\ wire' = Append(wire, DirectoryMsg(FALSE, FALSE, serviceUp))
  /\ UNCHANGED <<rmdsVars, link, asked, standing, serviceUp>>

\* The connection breaks, or the other end falls silent.
LinkFails ==
  /\ link = "up" /\ channel = "active"
  /\ \E how \in {"broken", "silent"} : Trouble(how) /\ link' = how
  /\ asked' = {} /\ UNCHANGED <<rmdsVars, wire, standing, serviceUp>>

-----------------------------------------------------------------------------
ReadMessage == \/ ReadLogin \/ ReadLoginRecover
               \/ ReadDirectory \/ ReadDirectoryUpdate \/ ReadBadDirectory
               \/ ReadDictionary \/ ReadImage

Connecting == ConnectRefused \/ ConnectAccepted \/ InitFails \/ ChannelActive
Pumping == \/ Pump \/ PumpDone
           \/ DispatchLogin \/ DispatchDirectory \/ DispatchDictionary
           \/ DispatchOpen \/ DispatchAsk
Closing == ReadFails \/ ReadAfterClose \/ Reconnect \/ PingFails \/ RunEnds
Turning == ReadDone \/ PingsNotDue \/ CheckReceived

Thread == Connecting \/ Pumping \/ ReadMessage \/ ReadPing \/ Closing \/ Turning

Client == (\E s \in Names : Subscribe(s)) \/ AskDictionary \/ Stop

RMDS == \/ AnswerLogin \/ AnswerLoginBadly \/ LoginChanges
        \/ AnswerDirectory \/ AnswerDirectoryBadly \/ AnswerDictionary
        \/ AnswerItem \/ ServiceChanges \/ BadUpdate \/ LinkFails

Next == Thread \/ Client \/ RMDS

Spec == Init /\ [][Next]_vars

(* The thread never stands still.  Each turn of its loop reads what has    *)
(* come as long as time allows, so a message is not passed over for ever;  *)
(* the times for pings come again and again; a host that can be reached    *)
(* accepts sooner or later.  The RMDS answers what it was asked.           *)
Fairness ==
  /\ WF_vars(Thread)
  /\ SF_vars(ReadMessage) /\ SF_vars(ReadFails) /\ SF_vars(CheckReceived)
  /\ SF_vars(ConnectAccepted) /\ SF_vars(ChannelActive)
  /\ WF_vars(AnswerLogin) /\ WF_vars(AnswerDirectory)
  /\ WF_vars(AnswerDictionary)

FairSpec == Spec /\ Fairness

-----------------------------------------------------------------------------
(* Properties.                                                             *)

Messages == {"login", "directory", "dictionary", "image"}

\* An entry of no tries makes the unsigned retries_ wrap.
NoEntryWraps == \A i \in DOMAIN Schedule : Schedule[i] \in 1 .. RetryWidth

\* Every variable keeps to the values the program gives it; the tries left
\* on a host are never more than the schedule allows.
SessionTypeOK ==
  /\ phase \in {"connect", "init", "pump", "dispatch", "read", "closed",
                "recover", "pings", "ended"}
  /\ runThread \in BOOLEAN /\ shouldRecover \in BOOLEAN
  /\ channel \in {"none", "initializing", "active"}
  /\ sessionChannel \in {"none", "current", "dangling"}
  /\ budget \in 0 .. MaxDispatches
  /\ host \in 1 .. NumHosts /\ entry \in DOMAIN Schedule /\ retries \in Nat
  /\ NoEntryWraps => retries \in 1 .. Schedule[entry]
  /\ flags \in LoginFlags /\ loaded \subseteq Parts
  /\ subscriberState \in {"unconnected", "connecting", "loggingin",
       "requestingSourceDirectory", "requestingDictionary", "live"}
  /\ reply \in {"none", "waiting", "sent", "unsent"}
  /\ refused \subseteq Names /\ pendingItems \subseteq Services
  /\ source \in [Services -> {"unknown", "down", "up"}]
  /\ item \in [Services -> {"none", "Subscribing", "Live", "Stale"}]
  /\ \A i \in DOMAIN wire : wire[i].kind \in Messages
  /\ \A i \in DOMAIN queue : queue[i].op \in
       {"login", "directory", "dictionary", "open", "ask"}

OpenQueued(s) == \E i \in DOMAIN queue : queue[i] = Request("open", s)

\* A session that is live has asked for every item of its client on the
\* connection it has now, or has the request in the queue: nothing is
\* forgotten by SetAllStale, ResubscribeAll and the pending list, at the
\* first connection or at any later one.  Except what the code does lose: an
\* item set live by its service before it was asked for (RMDSSource::SetState),
\* and a session that went live on a dictionary it had not asked for.
EveryItemRequested ==
  subscriberState = "live" /\ connected /\ link = "up" /\ ~early =>
    \A s \in ItemsInUse \ astray : s \in requested \/ OpenQueued(s)

\* A place in the throttle is held only while the answer is to come on this
\* connection, or the request will be made again after it: places come back,
\* but for items that went live or lost their image unnoticed.
PlacesComeBack ==
  link = "up" /\ phase # "ended" =>
    \A s \in pendingItems \ astray :
      \/ s \in asked \/ [kind |-> "image", service |-> s] \in Range(wire)
      \/ s \notin requested

\* An item that the client sees as live has a connection and a service that
\* is up behind it.
LiveHasSource ==
  ~early =>
    \A s \in Services : item[s] = "Live" => connected /\ source[s] = "up"

\* Only names that the directory does not have are answered as bad symbols:
\* a subscription made before the session is live waits for it.
KnownNotRefused ==
  [][~early => refused' \cap Services \subseteq refused]_vars

\* The last the client was told is that the connection is complete, or that
\* it is back, only while the login stands and the dictionary is there,
\* unless it was told so too soon.
GoodNewsIsTrue ==
  told \in {"complete", "reconnect"} /\ ~early /\ ~doubted =>
    connected /\ ~inSuspect /\ loaded = Parts

Dead == phase = "ended" \/ hitch

\* A session that is not connected is, in the end, live again, wherever in
\* the sequence it was when it broke, fell silent or was closed by the login,
\* and however many hosts cannot be reached, unless the RMDS refuses or
\* fails one of its steps, or the thread has ended.
LiveAgain == ~connected ~> (connected /\ subscriberState = "live") \/ Dead

\* A connection on which nothing is received any more is given up.
SilenceNoticed == link = "silent" ~> link # "silent"

\* Stop ends the thread wherever it is.
StopEnds == ~runThread ~> phase = "ended"

\* A client that asks for the dictionary, once, gets it, before the session
\* is up or after, unless the session dies first.
AskAnswered == reply = "waiting" ~> reply = "sent" \/ Dead
=============================================================================
