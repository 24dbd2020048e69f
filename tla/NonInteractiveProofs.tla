------------------------ MODULE NonInteractiveProofs ------------------------
(* What the non-interactive publisher believes of its connection, for any  *)
(* number of items, troubles and connections.                              *)
EXTENDS NonInteractive, TLAPS

-----------------------------------------------------------------------------
(* The inductive invariants.                                               *)

ThreadTypes ==
  /\ phase \in {"connect", "init", "pump", "read", "closed", "recover",
                "pings", "lost", "ended"}
  /\ runThread \in BOOLEAN /\ shouldRecover \in BOOLEAN
  /\ active \in BOOLEAN
  /\ publisherState \in {"unconnected", "connecting", "loggingin",
                         "sendingsourcedirectory"}
  /\ told \in {"none", "disconnect", "failed"}
NumberTypes ==
  /\ connections \in Nat /\ queue \in Nat /\ loginAsked \in Nat
  /\ channel \in Nat /\ channel <= connections
  /\ loginChannel \in Nat /\ loginChannel <= connections
  /\ (phase = "init" => loginChannel = 0)
StateTypes == ThreadTypes /\ NumberTypes
ItemTypes ==
  /\ itemChannel \in [Symbols -> {NoItem} \cup 0 .. connections]
  /\ published \in [Symbols -> {"nothing", "not initialised", "stray",
                                "no buffer", "failed", "sent"}]
Typed == StateTypes /\ ItemTypes /\ flags \in LoginFlags

\* While the thread runs, the provider takes itself for connected exactly
\* while its channel is active,
ConnectedIsActive == runThread => (connected <=> active)

\* never on its way to the next connection,
OnTheWay == phase \in {"connect", "init", "closed", "recover", "lost"}
NotOnTheWay == runThread /\ OnTheWay => ~connected

\* and always with the login's pointer on that channel.
LoginFollows == runThread /\ connected => channel = loginChannel

\* Who believes in the directory has the connection it was sent on.
BelieverConnected ==
  runThread /\ publisherState = "sendingsourcedirectory" => connected
BelieverAdvertised ==
  /\ runThread /\ publisherState = "sendingsourcedirectory"
  /\ link = "up" /\ bufferFits
  => advertised

Truth == /\ ConnectedIsActive /\ NotOnTheWay /\ LoginFollows
         /\ BelieverConnected /\ BelieverAdvertised
         /\ connected \in BOOLEAN /\ active \in BOOLEAN

-----------------------------------------------------------------------------
(* Helpers of the steps.                                                   *)

(* A login message leaves the flags what they are: four Booleans. *)
LEMMA FlagsStay ==
  ASSUME NEW f \in LoginFlags, NEW m
  PROVE  FlagsAfter(f, m) \in LoginFlags
PROOF
<1>1. CASE Accepts(m)
  BY <1>1 DEF FlagsAfter, LoginFlags
<1>2. CASE ~Accepts(m) /\ Refuses(m)
  BY <1>2 DEF FlagsAfter, LoginFlags
<1>3. CASE ~Accepts(m) /\ ~Refuses(m) /\ m.class = "close"
  BY <1>3 DEF FlagsAfter, LoginFlags
<1>4. CASE ~Accepts(m) /\ ~Refuses(m) /\ m.class # "close"
  BY <1>4 DEF FlagsAfter, LoginFlags
<1> QED
  BY <1>1, <1>2, <1>3, <1>4

(* After RecoverConnection there is no connection to believe in, *)
LEMMA RecoveredTrue ==
  ASSUME Truth, RecoverConnection, runThread' = runThread,
         bufferFits' = bufferFits
  PROVE  Truth' /\ connected' = FALSE
BY DEF Truth, RecoverConnection, ConnectionLost, Closed, ConnectedIsActive,
       NotOnTheWay, LoginFollows, BelieverConnected, BelieverAdvertised

(* and nothing leaves its type. *)
LEMMA RecoveredTyped ==
  ASSUME StateTypes, RecoverConnection
  PROVE  /\ shouldRecover' \in BOOLEAN /\ channel' = 0 /\ active' \in BOOLEAN
         /\ loginChannel' = loginChannel /\ loginAsked' \in Nat
         /\ publisherState' \in {"unconnected", "connecting", "loggingin",
                                 "sendingsourcedirectory"}
         /\ told' \in {"none", "disconnect", "failed"}
BY DEF StateTypes, ThreadTypes, NumberTypes, RecoverConnection, ConnectionLost, Closed

(* ExitThread leaves nothing to say of a running thread. *)
LEMMA ExitedTrue ==
  ASSUME Truth, ExitThread, connected' = connected
  PROVE  Truth'
BY DEF Truth, ExitThread, ConnectedIsActive, NotOnTheWay, LoginFollows,
       BelieverConnected, BelieverAdvertised

-----------------------------------------------------------------------------
(* The thread's own moves.                                                 *)

LEMMA ConnectingTrue ==
  ASSUME Truth, Connecting
  PROVE  Truth'
PROOF
<1> USE DEF Truth, ConnectedIsActive, NotOnTheWay, LoginFollows, OnTheWay,
            BelieverConnected, BelieverAdvertised
<1>1. CASE ConnectRefused
  BY <1>1 DEF ConnectRefused, NoLoginChannel, threadVars, stateVars,
              restVars, itemVars, netVars
<1>2. CASE ConnectAccepted
  BY <1>2 DEF ConnectAccepted, NoLoginChannel, stateVars, restVars, itemVars
<1>3. CASE InitFails
  BY <1>3, RecoveredTrue DEF InitFails, restVars, itemVars
<1>4. CASE InitSelectFails
  BY <1>4, ExitedTrue DEF InitSelectFails, stateVars, ExitThread
<1>5. CASE InitAbandoned
  BY <1>5 DEF InitAbandoned, channelVars, stateVars, restVars, itemVars,
              netVars
<1>6. CASE ChannelActive
  BY <1>6 DEF ChannelActive, restVars, itemVars, netVars
<1> QED
  BY <1>1, <1>2, <1>3, <1>4, <1>5, <1>6 DEF Connecting

LEMMA TurningTrue ==
  ASSUME Truth, Turning
  PROVE  Truth'
PROOF
<1> USE DEF Truth, ConnectedIsActive, NotOnTheWay, LoginFollows, OnTheWay,
            BelieverConnected, BelieverAdvertised
<1>1. CASE PumpQueueEvents
  BY <1>1 DEF PumpQueueEvents, channelVars, stateVars, restVars, itemVars
<1>2. CASE ReadDone
  BY <1>2 DEF ReadDone, readVars, itemVars, channelVars, stateVars, netVars
<1>3. CASE Reconnect
  BY <1>3 DEF Reconnect, readVars, itemVars, channelVars, stateVars, netVars
<1>4. CASE PingsNotDue
  BY <1>4 DEF PingsNotDue, readVars, itemVars, channelVars, stateVars, netVars
<1>5. CASE PingFails
  BY <1>5, ExitedTrue DEF PingFails, stateVars, ExitThread
<1>6. CASE CheckReceived /\ receivedServerMsg
  BY <1>6 DEF CheckReceived, readVars, itemVars, channelVars, stateVars,
              netVars
<1>7. CASE CheckReceived /\ ~receivedServerMsg
  BY <1>7, RecoveredTrue DEF CheckReceived, readVars, itemVars
<1>8. CASE LastTurn
  BY <1>8 DEF LastTurn, channelVars, stateVars, restVars, itemVars, netVars
<1>9. CASE RunEnds
  BY <1>9 DEF RunEnds, channelVars, stateVars, restVars, itemVars, netVars
<1> QED
  BY <1>1, <1>2, <1>3, <1>4, <1>5, <1>6, <1>7, <1>8, <1>9 DEF Turning

LEMMA ReadingTrue ==
  ASSUME Truth, ReadMessage \/ ReadPing \/ ReadFails
  PROVE  Truth'
PROOF
<1> USE DEF Truth, ConnectedIsActive, NotOnTheWay, LoginFollows, OnTheWay,
            BelieverConnected, BelieverAdvertised
<1>1. CASE ReadLogin
  <2>1. /\ UNCHANGED <<phase, runThread, channel, active, loginChannel,
                       connected, bufferFits, link>>
        /\ Reading
    BY <1>1 DEF ReadLogin, readVars, itemVars, channelVars
  <2> DEFINE notice == LoginNotice(Head(wire))
  <2>2. LoginResponse(notice)
    BY <1>1 DEF ReadLogin
  <2>3. CASE notice = "succeeded" /\ connected
    BY <2>1, <2>2, <2>3 DEF LoginResponse, SendSourceDirectory
  <2>4. CASE notice # "none" /\ ~(notice = "succeeded" /\ connected)
    BY <2>1, <2>2, <2>4 DEF LoginResponse
  <2>5. CASE notice = "none"
    BY <2>1, <2>2, <2>5 DEF LoginResponse
  <2> QED
    BY <2>3, <2>4, <2>5
<1>2. CASE ReadLoginClosed
  BY <1>2, RecoveredTrue DEF ReadLoginClosed, readVars, itemVars
<1>3. CASE ReadPing
  BY <1>3 DEF ReadPing, readVars, itemVars, threadVars, channelVars, stateVars,
              netVars
<1>4. CASE ReadFails
  BY <1>4, RecoveredTrue DEF ReadFails, readVars, itemVars
<1> QED
  BY <1>1, <1>2, <1>3, <1>4 DEF ReadMessage

(* The client and the RMDS touch none of it, but for a link that fails. *)
LEMMA OthersTrue ==
  ASSUME Truth, Client \/ RMDS \/ UNCHANGED vars
  PROVE  Truth'
PROOF
<1> USE DEF Truth, ConnectedIsActive, NotOnTheWay, LoginFollows, OnTheWay,
            BelieverConnected, BelieverAdvertised
<1>1. CASE Client
  <2>1. UNCHANGED clientVars
    BY <1>1 DEF Client, CreatePublisher, PublishMessage
  <2> QED
    BY <2>1 DEF clientVars, threadVars, channelVars, stateVars, netVars
<1>2. CASE AnswerLogin \/ RefuseLogin
  <2>1. UNCHANGED <<rmdsVars, link, advertised>>
    BY <1>2 DEF AnswerLogin, RefuseLogin
  <2> QED
    BY <2>1 DEF rmdsVars, threadVars, channelVars, stateVars, itemVars
<1>3. CASE LinkFails
  BY <1>3 DEF LinkFails, rmdsVars, threadVars, channelVars, stateVars,
              itemVars
<1>4. CASE UNCHANGED vars
  BY <1>4 DEF vars, threadVars, channelVars, stateVars, itemVars, netVars
<1> QED
  BY <1>1, <1>2, <1>3, <1>4 DEF RMDS

\* A publisher that believes its directory is out is right, whatever was
\* lost, closed, refused or logged in twice before (StateIsTrue).
THEOREM BeliefIsTrue == Spec => []StateIsTrue
PROOF
<1>1. Init => Truth
  BY DEF Init, Truth, ConnectedIsActive, NotOnTheWay, LoginFollows,
         BelieverConnected, BelieverAdvertised, OnTheWay
<1>2. Truth /\ [Next]_vars => Truth'
  BY ConnectingTrue, TurningTrue, ReadingTrue, OthersTrue DEF Next, Thread
<1>3. Truth => StateIsTrue
  BY DEF Truth, StateIsTrue, ConnectedIsActive, LoginFollows,
         BelieverConnected, BelieverAdvertised
<1> QED
  BY <1>1, <1>2, <1>3, PTL DEF Spec
-----------------------------------------------------------------------------
(* The types.                                                              *)

LEMMA ConnectingTyped ==
  ASSUME StateTypes, Connecting
  PROVE  StateTypes'
PROOF
<1> USE DEF StateTypes, ThreadTypes, NumberTypes
<1>1. CASE ConnectRefused
  <2>1. ThreadTypes'
    BY <1>1 DEF ConnectRefused, NoLoginChannel, threadVars, stateVars,
                restVars, itemVars, netVars
  <2>2. NumberTypes'
    BY <1>1 DEF ConnectRefused, NoLoginChannel, threadVars, stateVars,
                restVars, itemVars, netVars
  <2> QED
    BY <2>1, <2>2
<1>2. CASE ConnectAccepted
  <2>1. connections' = connections + 1 /\ channel' = connections'
        /\ loginChannel' = 0 /\ active' = FALSE /\ phase' = "init"
    BY <1>2 DEF ConnectAccepted, NoLoginChannel
  <2>2. UNCHANGED <<runThread, shouldRecover, queue, loginAsked,
                    publisherState, told>>
    BY <1>2 DEF ConnectAccepted, stateVars
  <2>3. ThreadTypes'
    BY <2>1, <2>2
  <2>4. NumberTypes'
    BY <2>1, <2>2
  <2> QED
    BY <2>3, <2>4
<1>3. CASE InitFails
  BY <1>3, RecoveredTyped DEF InitFails, restVars, itemVars
<1>4. CASE InitSelectFails
  BY <1>4 DEF InitSelectFails, ExitThread, Closed, stateVars, restVars,
              itemVars
<1>5. CASE InitAbandoned
  BY <1>5 DEF InitAbandoned, channelVars, stateVars, restVars, itemVars,
              netVars
<1>6. CASE ChannelActive
  <2>1. ThreadTypes'
    BY <1>6 DEF ChannelActive, restVars, itemVars, netVars
  <2>2. NumberTypes'
    BY <1>6 DEF ChannelActive, restVars, itemVars, netVars
  <2> QED
    BY <2>1, <2>2
<1> QED
  BY <1>1, <1>2, <1>3, <1>4, <1>5, <1>6 DEF Connecting

LEMMA TurningTyped ==
  ASSUME StateTypes, Turning
  PROVE  StateTypes'
PROOF
<1> USE DEF StateTypes, ThreadTypes, NumberTypes
<1>1. CASE PumpQueueEvents
  <2>1. loginAsked' \in Nat /\ queue' = 0 /\ phase' = "read"
    BY <1>1 DEF PumpQueueEvents
  <2> QED
    BY <1>1, <2>1 DEF PumpQueueEvents, channelVars, stateVars, restVars,
                      itemVars
<1>2. CASE ReadDone
  BY <1>2 DEF ReadDone, readVars, itemVars, channelVars, stateVars, netVars
<1>3. CASE Reconnect
  BY <1>3 DEF Reconnect, readVars, itemVars, channelVars, stateVars, netVars
<1>4. CASE PingsNotDue
  BY <1>4 DEF PingsNotDue, readVars, itemVars, channelVars, stateVars, netVars
<1>5. CASE PingFails
  BY <1>5 DEF PingFails, ExitThread, Closed, stateVars, restVars, itemVars
<1>6. CASE CheckReceived /\ receivedServerMsg
  BY <1>6 DEF CheckReceived, readVars, itemVars, channelVars, stateVars,
              netVars
<1>7. CASE CheckReceived /\ ~receivedServerMsg
  BY <1>7, RecoveredTyped DEF CheckReceived, readVars, itemVars
<1>8. CASE LastTurn
  BY <1>8 DEF LastTurn, channelVars, stateVars, restVars, itemVars, netVars
<1>9. CASE RunEnds
  BY <1>9 DEF RunEnds, channelVars, stateVars, restVars, itemVars, netVars
<1> QED
  BY <1>1, <1>2, <1>3, <1>4, <1>5, <1>6, <1>7, <1>8, <1>9 DEF Turning

LEMMA ReadingTyped ==
  ASSUME StateTypes, ReadMessage \/ ReadPing \/ ReadFails
  PROVE  StateTypes'
PROOF
<1> USE DEF StateTypes, ThreadTypes, NumberTypes
<1>1. CASE ReadLogin
  <2>1. UNCHANGED <<readVars, phase, shouldRecover, channelVars, loginAsked>>
    BY <1>1 DEF ReadLogin
  <2>2. LoginResponse(LoginNotice(Head(wire)))
    BY <1>1 DEF ReadLogin
  <2>4. /\ publisherState' \in {publisherState, "sendingsourcedirectory",
                                "unconnected"}
        /\ told' \in {told, "failed"}
    BY <2>2 DEF LoginResponse
  <2> QED
    BY <2>1, <2>4 DEF readVars, channelVars
<1>2. CASE ReadLoginClosed
  <2>1. phase' \in {"closed", "recover"}
    BY <1>2 DEF ReadLoginClosed
  <2>2. RecoverConnection /\ UNCHANGED readVars
    BY <1>2 DEF ReadLoginClosed
  <2> QED
    BY <2>1, <2>2, RecoveredTyped DEF readVars, itemVars
<1>3. CASE ReadPing
  BY <1>3 DEF ReadPing, readVars, itemVars, threadVars, channelVars, stateVars,
              netVars
<1>4. CASE ReadFails
  BY <1>4, RecoveredTyped DEF ReadFails, readVars, itemVars
<1> QED
  BY <1>1, <1>2, <1>3, <1>4 DEF ReadMessage

(* The client's and the RMDS's steps, and what nobody does. *)
LEMMA OthersTyped ==
  ASSUME StateTypes, Client \/ RMDS \/ UNCHANGED vars
  PROVE  StateTypes'
PROOF
<1> USE DEF StateTypes, ThreadTypes, NumberTypes
<1>1. CASE Client
  <2>1. UNCHANGED clientVars
    BY <1>1 DEF Client, CreatePublisher, PublishMessage
  <2> QED
    BY <2>1 DEF clientVars, threadVars, channelVars, stateVars, netVars
<1>2. CASE AnswerLogin \/ RefuseLogin
  <2>1. UNCHANGED rmdsVars
    BY <1>2 DEF AnswerLogin, RefuseLogin
  <2>2. loginAsked' \in Nat
    <3>1. /\ loginAsked \in Nat
          /\ \/ loginAsked > 0 /\ loginAsked' = loginAsked - 1
             \/ loginAsked' = 0
      BY <1>2 DEF AnswerLogin, RefuseLogin
    <3> QED
      BY <3>1
  <2> QED
    BY <2>1, <2>2 DEF rmdsVars, threadVars, channelVars, stateVars, itemVars
<1>3. CASE LinkFails
  <2>1. UNCHANGED rmdsVars /\ loginAsked' = 0
    BY <1>3 DEF LinkFails
  <2> QED
    BY <2>1 DEF rmdsVars, threadVars, channelVars, stateVars, itemVars
<1>4. CASE UNCHANGED vars
  BY <1>4 DEF vars, threadVars, channelVars, stateVars, itemVars, netVars
<1> QED
  BY <1>1, <1>2, <1>3, <1>4 DEF RMDS

(* Reading a login is all that touches the flags, *)
LEMMA FlagsTyped ==
  ASSUME flags \in LoginFlags, [Next]_vars
  PROVE  flags' \in LoginFlags
PROOF
<1>1. CASE ReadLogin \/ ReadLoginClosed
  BY <1>1, FlagsStay DEF ReadLogin, ReadLoginClosed
<1>2. CASE Connecting
  BY <1>2 DEF Connecting, ConnectRefused, ConnectAccepted, InitFails,
              InitSelectFails, InitAbandoned, ChannelActive, restVars
<1>3. CASE Turning
  BY <1>3 DEF Turning, PumpQueueEvents, ReadDone, Reconnect, PingsNotDue,
              PingFails, CheckReceived, LastTurn, RunEnds, restVars
<1>4. CASE ReadPing \/ ReadFails
  BY <1>4 DEF ReadPing, ReadFails
<1>5. CASE Client
  BY <1>5 DEF Client, CreatePublisher, PublishMessage, clientVars
<1>6. CASE RMDS
  BY <1>6 DEF RMDS, AnswerLogin, RefuseLogin, LinkFails, rmdsVars
<1>7. CASE UNCHANGED vars
  BY <1>7 DEF vars
<1> QED
  BY <1>1, <1>2, <1>3, <1>4, <1>5, <1>6, <1>7 DEF Next, Thread, ReadMessage

(* and connecting and the client are all that touches an item's types. *)
LEMMA ItemsTyped ==
  ASSUME StateTypes, ItemTypes, [Next]_vars
  PROVE  ItemTypes'
PROOF
<1>1. CASE ConnectAccepted
  <2>1. connections' = connections + 1
        /\ UNCHANGED <<itemChannel, published>>
    BY <1>1 DEF ConnectAccepted, restVars, itemVars
  <2>2. 0 .. connections \subseteq 0 .. connections'
    BY <2>1 DEF StateTypes, NumberTypes
  <2> QED
    BY <2>1, <2>2 DEF ItemTypes
<1>2. ASSUME NEW sym \in Symbols, CreatePublisher(sym)
      PROVE  ItemTypes'
  <2>1. /\ itemChannel' = [itemChannel EXCEPT ![sym] = channel]
        /\ UNCHANGED <<published, connections>>
    BY <1>2 DEF CreatePublisher, clientVars
  <2>2. channel \in 0 .. connections
    BY DEF StateTypes, NumberTypes
  <2> QED
    BY <2>1, <2>2 DEF ItemTypes
<1>3. ASSUME NEW sym \in Symbols, PublishMessage(sym)
      PROVE  ItemTypes'
  <2> DEFINE Fates == {"nothing", "not initialised", "stray", "no buffer",
                       "failed", "sent"}
  <2>1. PICK v : /\ published' = [published EXCEPT ![sym] = v]
                 /\ v \in Fates
    <3> DEFINE f == CASE itemChannel[sym] = 0 -> "not initialised"
         [] itemChannel[sym] \notin {0, channel} -> "stray"
         [] itemChannel[sym] = channel /\ ~runThread -> "stray"
         [] OTHER -> IF ~active \/ ~bufferFits THEN "no buffer"
                     ELSE IF link = "broken" THEN "failed" ELSE "sent"
    <3>1. published' = [published EXCEPT ![sym] = f]
      BY <1>3 DEF PublishMessage
    <3>2. f \in Fates
      <4>1. CASE itemChannel[sym] = 0
        BY <4>1
      <4>2. CASE itemChannel[sym] \notin {0, channel}
        BY <4>2
      <4>3. CASE itemChannel[sym] # 0 /\ itemChannel[sym] = channel
        BY <4>3
      <4> QED
        BY <4>1, <4>2, <4>3
    <3> HIDE DEF f
    <3> QED
      BY <3>1, <3>2
  <2>2. UNCHANGED <<itemChannel, connections>>
    BY <1>3 DEF PublishMessage, clientVars
  <2> QED
    BY <2>1, <2>2 DEF ItemTypes
<1>4. CASE UNCHANGED <<itemVars, connections>>
  BY <1>4 DEF itemVars, ItemTypes
<1>5. CASE Connecting /\ ~ConnectAccepted
  BY <1>5, <1>4 DEF Connecting, ConnectRefused, InitFails, InitSelectFails,
                    InitAbandoned, ChannelActive, restVars
<1>6. CASE Turning
  BY <1>6, <1>4 DEF Turning, PumpQueueEvents, ReadDone, Reconnect, PingsNotDue,
                    PingFails, CheckReceived, LastTurn, RunEnds, restVars,
                    readVars
<1>7. CASE ReadMessage \/ ReadPing \/ ReadFails
  BY <1>7, <1>4 DEF ReadMessage, ReadLogin, ReadLoginClosed, ReadPing,
                    ReadFails, readVars
<1>8. CASE RMDS
  BY <1>8, <1>4 DEF RMDS, AnswerLogin, RefuseLogin, LinkFails, rmdsVars
<1>9. CASE UNCHANGED vars
  BY <1>9, <1>4 DEF vars
<1> QED
  BY <1>1, <1>2, <1>3, <1>5, <1>6, <1>7, <1>8, <1>9 DEF Next, Thread, Client

\* Every variable of the non-interactive publisher keeps to its type, and the
\* login has no channel while the provider waits for one to become active.
THEOREM NonInteractiveTyped == Spec => []NonInteractiveTypeOK
PROOF
<1>1. Init => Typed
  <2> SUFFICES ASSUME Init PROVE Typed
    OBVIOUS
  <2>1. ThreadTypes
    BY DEF Init, ThreadTypes
  <2>2. NumberTypes
    BY DEF Init, NumberTypes
  <2>3. ItemTypes
    BY DEF Init, ItemTypes
  <2>4. flags \in LoginFlags
    BY DEF Init, NewFlags, LoginFlags
  <2> QED
    BY <2>1, <2>2, <2>3, <2>4 DEF Typed, StateTypes
<1>2. Typed /\ [Next]_vars => Typed'
  <2> SUFFICES ASSUME Typed, [Next]_vars PROVE Typed'
    OBVIOUS
  <2>1. StateTypes'
    BY ConnectingTyped, TurningTyped, ReadingTyped, OthersTyped
       DEF Next, Thread, Typed
  <2> QED
    BY <2>1, FlagsTyped, ItemsTyped DEF Typed
<1>3. Typed => NonInteractiveTypeOK
  <2> SUFFICES ASSUME Typed PROVE NonInteractiveTypeOK
    OBVIOUS
  <2>1. channel \in 0 .. connections /\ loginChannel \in 0 .. connections
    BY DEF Typed, StateTypes, NumberTypes
  <2>2. ThreadTypes /\ ItemTypes /\ flags \in LoginFlags
    BY DEF Typed, StateTypes
  <2>3. /\ queue \in Nat /\ loginAsked \in Nat
        /\ phase = "init" => loginChannel = 0
    BY DEF Typed, StateTypes, NumberTypes
  <2> QED
    BY <2>1, <2>2, <2>3 DEF ThreadTypes, ItemTypes, NonInteractiveTypeOK
<1> QED
  BY <1>1, <1>2, <1>3, PTL DEF Spec
=============================================================================
