--------------------------- MODULE NonInteractive ---------------------------
(***************************************************************************)
(* The non-interactive publisher: UPANIProvider mounts an RMDS as a client *)
(* of it, logs in as a provider and sends its source directory unasked;    *)
(* RMDSNIPublisher keeps the state of that, and the client's publishers    *)
(* (UPABridgePublisherItem and UPAPublisherItem) keep the channel they     *)
(* found when they were created.                                           *)
(*                                                                         *)
(* Threads.  The provider thread runs UPANIProvider::Run.  The client's    *)
(* threads create publishers and publish; nothing they share is locked.    *)
(* The choice of host is RMDSConnectionConfig's, as in module Session, and *)
(* here an attempt just succeeds or fails.  The RMDS is external.          *)
(***************************************************************************)
EXTENDS Integers, Sequences, Login

CONSTANTS
  Symbols,        \* items the client publishes
  Troubles,       \* kinds of trouble the RMDS and the network can make
  MaxTroubles,    \* bound: how often they do
  MaxConnections  \* bound: connections that are tried

ASSUME NonInteractiveAssumption ==
  MaxTroubles \in Nat /\ MaxConnections \in Nat

VARIABLES
  \* UPANIProvider
  phase,              \* where the thread is in Run
  runThread, shouldRecover,
  channel,            \* rsslNIProviderChannel_: its number, 0 for null
  active,             \* the state of that channel
  loginChannel,       \* the pointer UPALogin keeps
  receivedServerMsg, flags,
  queue,              \* how many logins the request queue holds
  \* RMDSNIPublisher
  publisherState, connected, recovering,
  told,               \* the last transport event the client was given
  bufferFits,         \* what the uninitialized maxMessageSize_ happens to be
  \* UPAPublisherItem
  itemChannel,        \* per item the channel it lists, -1 before it exists
  published,          \* what became of the client's last message on it
  \* the network and the RMDS (external)
  link, wire, loginAsked,
  admitted,           \* it has accepted the login on this connection
  advertised,         \* it has the source directory on this connection
  connections, troubles,
  hitch               \* it refused a login without closing it

threadVars == <<phase, runThread, shouldRecover>>
channelVars == <<channel, active, loginChannel>>
stateVars == <<publisherState, connected, recovering, told>>
itemVars == <<bufferFits, itemChannel, published>>
netVars == <<link, wire, loginAsked, admitted, advertised>>
vars == <<threadVars, channelVars, receivedServerMsg, flags, queue, stateVars,
          itemVars, netVars, connections, troubles, hitch>>

NoItem == -1

Init ==
  /\ phase = "connect" /\ runThread = TRUE /\ shouldRecover = TRUE
  /\ channel = 0 /\ active = FALSE /\ loginChannel = 0
  /\ receivedServerMsg = FALSE /\ flags = NewFlags /\ queue = 0
  /\ publisherState = "connecting" /\ connected = FALSE
  /\ recovering = FALSE /\ told = "none"
  /\ bufferFits \in BOOLEAN
  /\ itemChannel = [sym \in Symbols |-> NoItem]
  /\ published = [sym \in Symbols |-> "nothing"]
  /\ link = "none" /\ wire = <<>> /\ loginAsked = 0
  /\ admitted = FALSE /\ advertised = FALSE
  /\ connections = 0 /\ troubles = 0 /\ hitch = FALSE

-----------------------------------------------------------------------------
(* What the steps share.                                                   *)

Trouble(kind) == /\ kind \in Troubles /\ troubles < MaxTroubles
                 /\ troubles' = troubles + 1

\* ConnectionNotification(false).  Mutant: the state is left as it was.
ConnectionLostUnnoted ==
  /\ connected' = FALSE /\ told' = "disconnect" /\ recovering' = TRUE
  /\ UNCHANGED publisherState
ConnectionLost ==
  /\ connected' = FALSE
  /\ IF connected
       THEN /\ publisherState' = "connecting" /\ recovering' = TRUE
            /\ told' = "disconnect"
       ELSE /\ publisherState' = "unconnected" /\ told' = "failed"
            /\ UNCHANGED recovering

Closed == /\ link' = "none" /\ wire' = <<>> /\ loginAsked' = 0
          /\ admitted' = FALSE /\ advertised' = FALSE

\* RecoverConnection.  Mutant: no new connection is asked for.
RecoverUnflagged ==
  ConnectionLost /\ Closed /\ channel' = 0 /\ active' = FALSE
    /\ UNCHANGED <<loginChannel, shouldRecover>>
RecoverConnection ==
  ConnectionLost /\ Closed /\ channel' = 0 /\ active' = FALSE
    /\ shouldRecover' = TRUE /\ UNCHANGED loginChannel

\* ExitThread closes the channel, keeps the pointer, and tells nobody.
ExitThread == runThread' = FALSE /\ Closed /\ active' = FALSE

-----------------------------------------------------------------------------
(* The connect loop.  It looks at runThread_ only while it waits for a     *)
(* channel to become active, so it goes on after ExitThread.               *)

restVars == <<receivedServerMsg, flags, itemVars>>

\* The login has no channel while the provider connects.
\* Mutant: it keeps the pointer to the channel that was closed.
KeepLoginChannel == UNCHANGED loginChannel
NoLoginChannel == loginChannel' = 0

ConnectRefused ==
  /\ phase = "connect" /\ shouldRecover /\ Trouble("refuse")
  /\ NoLoginChannel /\ channel' = 0 /\ active' = FALSE
  /\ UNCHANGED <<threadVars, queue, stateVars, restVars, netVars, connections,
                 hitch>>

ConnectAccepted ==
  /\ phase = "connect" /\ shouldRecover /\ connections < MaxConnections
  /\ connections' = connections + 1
  /\ NoLoginChannel /\ channel' = connections' /\ active' = FALSE
  /\ phase' = "init" /\ link' = "up"
  /\ UNCHANGED <<runThread, shouldRecover, queue, stateVars, restVars, wire,
                 loginAsked, admitted, advertised, troubles, hitch>>

InitFails ==
  /\ phase = "init" /\ runThread /\ Trouble("init")
  /\ RecoverConnection /\ phase' = "connect"
  /\ UNCHANGED <<runThread, queue, restVars, connections, hitch>>

\* The select fails.
InitSelectFails ==
  /\ phase = "init" /\ runThread /\ Trouble("select")
  /\ ExitThread
  /\ UNCHANGED <<phase, shouldRecover, channel, loginChannel, queue, stateVars,
                 restVars, connections, hitch>>

\* Told to end, it does not wait for the channel, and connects once more.
InitAbandoned ==
  /\ phase = "init" /\ ~runThread /\ phase' = "connect"
  /\ UNCHANGED <<runThread, shouldRecover, channelVars, queue, stateVars,
                 restVars, netVars, connections, troubles, hitch>>

\* ConnectionNotification(true) queues the login.
ChannelActive ==
  /\ phase = "init" /\ runThread
  /\ active' = TRUE /\ shouldRecover' = FALSE /\ loginChannel' = channel
  /\ connected' = TRUE /\ publisherState' = "loggingin" /\ queue' = queue + 1
  /\ phase' = "pump" /\ hitch' = FALSE
  /\ UNCHANGED <<runThread, channel, recovering, told, restVars, netVars,
                 connections, troubles>>

-----------------------------------------------------------------------------
(* The message loop: the queue, the socket, the pings.                     *)

\* LoginRequestCb, for each login queued; without a link it is lost.
PumpQueueEvents ==
  /\ phase = "pump" /\ runThread /\ phase' = "read" /\ queue' = 0
  /\ loginAsked' = IF link = "up" THEN loginAsked + queue ELSE loginAsked
  /\ UNCHANGED <<runThread, shouldRecover, channelVars, stateVars, restVars,
                 link, wire, admitted, advertised, connections, troubles,
                 hitch>>

(* RMDSNIPublisher::LoginResponse.  An accepted login has the source       *)
(* directory sent there and then, on the provider's channel.  Mutant: only *)
(* on the first connection.                                                *)
SendSourceDirectoryOnce ==
  advertised' = (advertised \/ (bufferFits /\ link = "up" /\ ~recovering))
SendSourceDirectory ==
  advertised' = (advertised \/ (bufferFits /\ link = "up"))

LoginResponse(notice) ==
  CASE notice = "succeeded" /\ connected ->
         /\ publisherState' = "sendingsourcedirectory"
         /\ SendSourceDirectory /\ UNCHANGED told
    [] notice # "none" /\ ~(notice = "succeeded" /\ connected) ->
         /\ publisherState' = "unconnected" /\ told' = "failed"
         /\ UNCHANGED advertised
    [] OTHER -> UNCHANGED <<publisherState, told, advertised>>

(* ProcessResponse: a login that is closed fails the read, which recovers  *)
(* the connection, one that is closed for recovery does so itself and the  *)
(* loop reads on.  As the consumer does, it judges by the flags.           *)
ProviderVerdict(after, m) ==
  CASE ReturnsSuccess(m) -> "good"
    [] ~ReturnsSuccess(m) /\ after.closed -> "fail"
    [] ~ReturnsSuccess(m) /\ ~after.closed /\ after.closedRecoverable ->
         "recover"
    [] OTHER -> "ignore"

Reading == phase = "read" /\ active
readVars == <<runThread, queue, itemVars, connections, troubles>>

ReadLogin ==
  /\ Reading /\ wire # <<>>
  /\ LET m == Head(wire)
         after == FlagsAfter(flags, m) IN
       /\ ProviderVerdict(after, m) \in {"good", "ignore"}
       /\ flags' = after /\ LoginResponse(LoginNotice(m))
       /\ hitch' = (hitch \/ ~Accepts(m))
  /\ wire' = Tail(wire) /\ receivedServerMsg' = TRUE
  /\ UNCHANGED <<readVars, phase, shouldRecover, channelVars, connected,
                 recovering, link, loginAsked, admitted>>

\* The publisher hears of the login first and of the lost connection then.
ReadLoginClosed ==
  /\ Reading /\ wire # <<>>
  /\ LET m == Head(wire)
         after == FlagsAfter(flags, m)
         verdict == ProviderVerdict(after, m) IN
       /\ verdict \in {"fail", "recover"}
       /\ flags' = after
       /\ phase' = IF verdict = "recover" THEN "closed" ELSE "recover"
       /\ receivedServerMsg' = (receivedServerMsg \/ verdict = "recover")
  /\ RecoverConnection
  /\ UNCHANGED <<readVars, hitch>>

ReadPing ==
  /\ Reading /\ wire = <<>> /\ link = "up" /\ receivedServerMsg' = TRUE
  /\ UNCHANGED <<readVars, threadVars, channelVars, flags, stateVars, netVars,
                 hitch>>

\* The read fails, or the loop goes on with the channel it has closed.
ReadFails ==
  /\ \/ Reading /\ wire = <<>> /\ link = "broken"
     \/ phase = "closed"
  /\ RecoverConnection /\ phase' = "recover"
  /\ UNCHANGED <<readVars, receivedServerMsg, flags, hitch>>

ReadDone ==
  /\ phase = "read" /\ phase' = "pings"
  /\ UNCHANGED <<readVars, shouldRecover, channelVars, receivedServerMsg,
                 flags, stateVars, netVars, hitch>>

Reconnect ==
  /\ phase = "recover" /\ shouldRecover /\ phase' = "connect"
  /\ UNCHANGED <<readVars, shouldRecover, channelVars, receivedServerMsg,
                 flags, stateVars, netVars, hitch>>

PingsNotDue ==
  /\ phase = "pings" /\ phase' = "pump"
  /\ UNCHANGED <<readVars, shouldRecover, channelVars, receivedServerMsg,
                 flags, stateVars, netVars, hitch>>

\* A ping that cannot be sent ends the thread, where the consumer recovers.
PingFails ==
  /\ phase = "pings" /\ link = "broken" /\ ExitThread /\ phase' = "pump"
  /\ UNCHANGED <<shouldRecover, channel, loginChannel, queue, stateVars,
                 restVars, connections, troubles, hitch>>

CheckReceived ==
  /\ phase = "pings" /\ (receivedServerMsg \/ link # "up")
  /\ receivedServerMsg' = FALSE
  /\ IF receivedServerMsg
       THEN phase' = "pump" /\ UNCHANGED <<shouldRecover, channelVars,
                                           stateVars, netVars>>
       ELSE RecoverConnection /\ phase' = "lost"
  /\ UNCHANGED <<readVars, flags, hitch>>

\* After lost contact the loop turns once more, with the login's stale
\* pointer, before it finds that it should recover.
LastTurn ==
  /\ phase = "lost" /\ phase' = "recover" /\ queue' = 0
  /\ UNCHANGED <<runThread, shouldRecover, channelVars, stateVars, restVars,
                 netVars, connections, troubles, hitch>>

RunEnds ==
  /\ phase = "pump" /\ ~runThread /\ phase' = "ended"
  /\ UNCHANGED <<runThread, shouldRecover, channelVars, queue, stateVars,
                 restVars, netVars, connections, troubles, hitch>>

-----------------------------------------------------------------------------
(* The client.                                                             *)

clientVars == <<threadVars, channelVars, receivedServerMsg, flags, queue,
                stateVars, bufferFits, netVars, connections, troubles, hitch>>

\* A publisher's item takes the provider's channel as it is now, for ever.
CreatePublisher(sym) ==
  /\ itemChannel[sym] = NoItem
  /\ itemChannel' = [itemChannel EXCEPT ![sym] = channel]
  /\ UNCHANGED <<clientVars, published>>

\* UPAPublisherItem::PublishMessage; on a channel that was closed anything
\* may happen.
PublishMessage(sym) ==
  /\ itemChannel[sym] # NoItem
  /\ published' = [published EXCEPT ![sym] =
       CASE itemChannel[sym] = 0 -> "not initialised"
         [] itemChannel[sym] \notin {0, channel} -> "stray"
         [] itemChannel[sym] = channel /\ ~runThread -> "stray"
         [] OTHER -> IF ~active \/ ~bufferFits THEN "no buffer"
                     ELSE IF link = "broken" THEN "failed" ELSE "sent"]
  /\ published' # published
  /\ UNCHANGED <<clientVars, itemChannel>>

-----------------------------------------------------------------------------
(* The network and the RMDS (external).                                    *)

rmdsVars == <<threadVars, channelVars, receivedServerMsg, flags, queue,
              stateVars, itemVars, connections, hitch>>

LoginMsg(class, state, solicited, decodes) ==
  [class |-> class, state |-> state, solicited |-> solicited,
   decodes |-> decodes]

LoginTroubles ==
  {LoginMsg("refresh", "ok", TRUE, FALSE)}
    \cup {LoginMsg("status", state, FALSE, TRUE) : state \in LoginStates}
    \cup {LoginMsg("close", "ok", FALSE, TRUE)}

AnswerLogin ==
  /\ link = "up" /\ loginAsked > 0 /\ loginAsked' = loginAsked - 1
  /\ admitted' = TRUE
  /\ wire' = Append(wire, LoginMsg("refresh", "ok", TRUE, TRUE))
  /\ UNCHANGED <<rmdsVars, link, advertised, troubles>>

RefuseLogin ==
  /\ link = "up" /\ (loginAsked > 0 \/ admitted) /\ Trouble("login")
  /\ \E m \in LoginTroubles : wire' = Append(wire, m)
  /\ loginAsked' = IF loginAsked > 0 THEN loginAsked - 1 ELSE 0
  /\ UNCHANGED <<rmdsVars, link, admitted, advertised>>

LinkFails ==
  /\ link = "up" /\ active
  /\ \E how \in {"broken", "silent"} : Trouble(how) /\ link' = how
  /\ loginAsked' = 0
  /\ UNCHANGED <<rmdsVars, wire, admitted, advertised>>

-----------------------------------------------------------------------------
Connecting == \/ ConnectRefused \/ ConnectAccepted \/ InitFails
              \/ InitSelectFails \/ InitAbandoned \/ ChannelActive
Turning == \/ PumpQueueEvents \/ ReadDone \/ Reconnect \/ PingsNotDue
           \/ PingFails \/ CheckReceived \/ LastTurn \/ RunEnds
ReadMessage == ReadLogin \/ ReadLoginClosed
Thread == Connecting \/ Turning \/ ReadMessage \/ ReadPing \/ ReadFails
Client == \E sym \in Symbols : CreatePublisher(sym) \/ PublishMessage(sym)
RMDS == AnswerLogin \/ RefuseLogin \/ LinkFails

Next == Thread \/ Client \/ RMDS

Spec == Init /\ [][Next]_vars

(* As in module Session: the thread never stands still, what has come is   *)
(* read in the end, and the RMDS answers a login.                          *)
Fairness == /\ WF_vars(Thread) /\ SF_vars(ReadMessage) /\ SF_vars(ReadFails)
            /\ SF_vars(CheckReceived) /\ SF_vars(ChannelActive)
            /\ SF_vars(ConnectAccepted) /\ WF_vars(AnswerLogin)

FairSpec == Spec /\ Fairness

-----------------------------------------------------------------------------
(* Properties.                                                             *)

\* Every variable keeps to its values, and the login object has no channel
\* while the provider is about to connect.
NonInteractiveTypeOK ==
  /\ phase \in {"connect", "init", "pump", "read", "closed", "recover",
                "pings", "lost", "ended"}
  /\ runThread \in BOOLEAN /\ shouldRecover \in BOOLEAN
  /\ channel \in 0 .. connections /\ active \in BOOLEAN
  /\ loginChannel \in 0 .. connections
  /\ (phase = "init" => loginChannel = 0)
  /\ flags \in LoginFlags /\ queue \in Nat /\ loginAsked \in Nat
  /\ publisherState \in {"unconnected", "connecting", "loggingin",
                         "sendingsourcedirectory"}
  /\ told \in {"none", "disconnect", "failed"}
  /\ itemChannel \in [Symbols -> {NoItem} \cup 0 .. connections]
  /\ published \in [Symbols -> {"nothing", "not initialised", "stray",
                                "no buffer", "failed", "sent"}]

\* While the thread runs, a publisher that believes its directory is out has
\* a connection, and the RMDS at the other end has the directory, whatever
\* was lost, closed, refused or logged in twice before, provided that there
\* was a buffer for it.
StateIsTrue ==
  publisherState = "sendingsourcedirectory" /\ runThread =>
    /\ connected /\ active /\ channel = loginChannel
    /\ (link = "up" /\ bufferFits => advertised)

\* A connection that is lost is made good: the directory is with the RMDS
\* again, or as good as the buffer allows, unless the RMDS refuses the login
\* for good or the thread has ended.
DirectoryAgain ==
  ~connected ~>
    \/ publisherState = "sendingsourcedirectory" /\ (bufferFits => advertised)
    \/ ~runThread \/ hitch \/ connections = MaxConnections
=============================================================================
