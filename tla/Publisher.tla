----------------------------- MODULE Publisher -----------------------------
(***************************************************************************)
(* The interactive publisher: UPAProvider accepts the connections of RMDS  *)
(* consumers and reads their requests, RMDSPublisherSource and             *)
(* UPAPublisherItem remember which streams of which channel want an item,  *)
(* and RMDSPublisher tells the MAMA client what to publish.                *)
(*                                                                         *)
(* Threads.  One provider thread runs UPAProvider::Run; each action of it  *)
(* is one message or event it handles from beginning to end.  The client's *)
(* threads create publishers; the maps they share with the provider thread *)
(* have no lock.  The consumers at the other end are external.  Sending    *)
(* the published data is not modelled: it changes none of this state.      *)
(***************************************************************************)
EXTENDS Integers, Sequences, FiniteSets, SequencesExt

CONSTANTS
  Channels,        \* RsslChannel pointers
  NullChannel,     \* the null pointer
  Symbols,         \* item names of the one source
  StreamIds,       \* stream ids the consumers use
  None,            \* no item
  MaxClients,      \* maxClientConnections (10 in the code)
  Creators,        \* items the client creates a publisher for unasked
  OneStreamPerItem,\* channels whose consumers keep to one stream per item
  MaxListed        \* bound: streams of one channel listed with its items

ASSUME PublisherAssumption ==
  /\ NullChannel \notin Channels
  /\ None \notin Symbols
  /\ MaxClients \in Nat \ {0}
  /\ Creators \subseteq Symbols
  /\ OneStreamPerItem \subseteq Channels
  /\ IsFiniteSet(StreamIds)     \* they are 32 bits wide
  /\ MaxListed \in Nat \ {0}

VARIABLES
  \* UPAProvider
  connections,        \* channels in clientConnections_ and channelDictionary_
  active,             \* those whose RSSL handshake is complete
  pingsInitialized,   \* fields of UPAClientConnection_t
  receivedClientMsg,
  streamIdMap,        \* per channel: the item of each open stream
  spinning,           \* the provider thread is in a loop it cannot leave
  \* RMDSPublisher
  connected, publisherState,
  newItemSubscription,\* the client has subscribed to requests
  \* RMDSPublisherSource and UPAPublisherItem
  items,              \* publisherItemMap_
  refreshStreams,     \* channelMap_ of each item: its streams per channel
  \* the client
  creating,           \* how far it is with creating each publisher
  told,               \* items it believes are wanted
  missed,             \* items wanted when nobody could be told
  \* the consumers
  silent              \* channels whose consumer sends nothing any more

connectionVars == <<connections, active, pingsInitialized, receivedClientMsg>>
publisherVars == <<connected, publisherState>>
itemVars == <<items, refreshStreams>>
clientVars == <<newItemSubscription, creating, told, missed>>
vars == <<connectionVars, streamIdMap, spinning, publisherVars, itemVars,
          clientVars, silent>>

\* What an item may be listed under: the client can list the null channel.
ItemChannels == Channels \cup {NullChannel}

Init ==
  /\ connections = {} /\ active = {}
  /\ pingsInitialized = {} /\ receivedClientMsg = {}
  /\ streamIdMap = [ch \in Channels |-> [id \in StreamIds |-> None]]
  /\ spinning = FALSE
  /\ connected = FALSE /\ publisherState = "connecting"
  /\ items = {}
  /\ refreshStreams = [sym \in Symbols |-> [ch \in ItemChannels |-> <<>>]]
  /\ newItemSubscription = FALSE
  /\ creating = [sym \in Symbols |-> "no"]
  /\ told = {} /\ missed = {} /\ silent = {}

-----------------------------------------------------------------------------
(* What the handlers share.                                                *)

(* RMDSPublisher::ConnectionNotification.  It does not know which channel  *)
(* it is about.                                                            *)
ConnectionNotification(up) ==
  /\ connected' = up
  /\ publisherState' =
       CASE up /\ connected -> publisherState
         [] ~up /\ ~connected -> "unconnected"
         [] OTHER -> "connecting"

\* The same, reported twice: the second finds the publisher disconnected.
DisconnectedTwice == connected' = FALSE /\ publisherState' = "unconnected"

\* Streams of ch that are open for sym, and all items with an open stream.
OpenStreams(ch, sym) == {id \in StreamIds : streamIdMap[ch][id] = sym}
IsWanted(sym) == \E ch \in Channels : OpenStreams(ch, sym) # {}

(* UPAPublisherItem::RemoveChannel: take one stream of ch off an item's    *)
(* list.  The loop that looks for it never advances, so it ends only when  *)
(* the stream is the first of the list.                                    *)
FindsStream(list, id) == Head(list) = id

\* Whether the item has any channel left.  Mutant: only this one is looked at.
ChannelEmpty(streams, ch) == streams[ch] = <<>>
NoChannelLeft(streams, ch) == \A c \in ItemChannels : streams[c] = <<>>

(* RMDSPublisher::RequestItem and CloseItem tell the client, if it has     *)
(* subscribed to being told, and otherwise drop the message.               *)
RequestItem(sym) ==
  IF newItemSubscription
  THEN told' = told \cup {sym} /\ missed' = missed \ {sym}
  ELSE missed' = missed \cup {sym} /\ UNCHANGED told

CloseItems(S) ==
  /\ told' = IF newItemSubscription THEN told \ S ELSE told
  /\ missed' = missed \ S

(* What is left of an item's list for ch when RemoveChannel has ended for  *)
(* each stream the channel has open for it: as many are gone, each from    *)
(* the front.                                                              *)
Without(ch, sym) ==
  LET list == refreshStreams[sym][ch]
  IN  SubSeq(list, Cardinality(OpenStreams(ch, sym)) + 1, Len(list))

(* Whether there is an order of the walk in which it always ends,          *)
WalkCanEnd(ch) ==
  \A sym \in Symbols :
    LET ids == OpenStreams(ch, sym)
    IN  ToSet(SubSeq(refreshStreams[sym][ch], 1, Cardinality(ids))) = ids

(* and whether there is one in which it does not.                          *)
WalkCanSpin(ch) ==
  \E sym \in Symbols, id \in StreamIds :
    /\ id \in OpenStreams(ch, sym)
    /\ ~FindsStream(refreshStreams[sym][ch], id)

(* ResetClientConnection empties the connection's place in the table.      *)
(* Mutant: the flags stay for the next consumer.                           *)
KeepPingFlags(ch) ==
  /\ connections' = connections \ {ch}
  /\ active' = active \ {ch}
  /\ silent' = silent \ {ch}
  /\ UNCHANGED <<pingsInitialized, receivedClientMsg>>
ForgetConnection(ch) ==
  /\ connections' = connections \ {ch}
  /\ active' = active \ {ch}
  /\ pingsInitialized' = pingsInitialized \ {ch}
  /\ receivedClientMsg' = receivedClientMsg \ {ch}
  /\ silent' = silent \ {ch}

(* ShutdownClientConnection: close the channel, walk its streams taking    *)
(* each off its item, tell the client of the items nobody wants now, and   *)
(* forget the connection.  The walk is in no particular order: an item     *)
(* with two streams on the channel may be asked for the second one first,  *)
(* and the walk ends only when each is asked for in the order of its list. *)
(* Mutant: the streams are not taken off their items.                      *)
ShutdownKeepsItems(ch) ==
  /\ ForgetConnection(ch)
  /\ streamIdMap' = [streamIdMap EXCEPT ![ch] = [id \in StreamIds |-> None]]
  /\ UNCHANGED <<spinning, items, refreshStreams, newItemSubscription,
                 creating, told, missed>>

ShutdownClientConnection(ch) ==
  LET after(sym) == [refreshStreams[sym] EXCEPT ![ch] =
                       Without(ch, sym)]
      unwanted == {sym \in Symbols : /\ OpenStreams(ch, sym) # {}
                                     /\ NoChannelLeft(after(sym), ch)}
  IN  /\ WalkCanEnd(ch)
      /\ ForgetConnection(ch)
      /\ streamIdMap' = [streamIdMap EXCEPT ![ch] =
                           [id \in StreamIds |-> None]]
      /\ refreshStreams' = [sym \in Symbols |-> after(sym)]
      /\ CloseItems(unwanted)
      /\ UNCHANGED <<spinning, items, newItemSubscription, creating>>

(* The walk that never ends.  What it did before is left out: nobody else  *)
(* looks at it.                                                            *)
ShutdownSpins(ch) ==
  /\ WalkCanSpin(ch)
  /\ spinning' = TRUE
  /\ UNCHANGED <<connectionVars, streamIdMap, itemVars, clientVars, silent>>

-----------------------------------------------------------------------------
(* The provider thread.                                                    *)

(* CreateNewClientConnection.  When the table is full the connection is    *)
(* refused (nakMount), which is taken to yield no channel.                 *)
CreateNewClientConnection(ch) ==
  /\ ~spinning /\ ch \notin connections
  /\ Cardinality(connections) < MaxClients
  /\ connections' = connections \cup {ch}
  /\ UNCHANGED <<active, pingsInitialized, receivedClientMsg, streamIdMap,
                 spinning, publisherVars, itemVars, clientVars, silent>>

(* ReadFromChannel on an initializing channel: the handshake completes,    *)
InitChannel(ch) ==
  /\ ~spinning /\ ch \in connections \ active
  /\ active' = active \cup {ch}
  /\ ConnectionNotification(TRUE)
  /\ UNCHANGED <<connections, pingsInitialized, receivedClientMsg,
                 streamIdMap, spinning, itemVars, clientVars, silent>>

(* or any of the reading, flushing and handling of requests fails and      *)
(* RemoveChannelConnection is called, on some paths again when the closed  *)
(* channel is read once more.                                              *)
RemoveChannelConnection(ch) ==
  /\ ~spinning /\ ch \in connections
  /\ ConnectionNotification(FALSE) \/ DisconnectedTwice
  /\ ShutdownClientConnection(ch) \/ ShutdownSpins(ch)

\* The messages of an active channel set receivedClientMsg.
Receive(ch) ==
  /\ ~spinning /\ ch \in active /\ ch \notin silent
  /\ receivedClientMsg' = receivedClientMsg \cup {ch}
  /\ UNCHANGED <<connections, active, pingsInitialized, silent>>

(* A ping, or a message that changes nothing: a rejected or closed login,  *)
(* a source directory or dictionary request, a post.                       *)
ReadPing(ch) ==
  /\ Receive(ch)
  /\ UNCHANGED <<streamIdMap, spinning, publisherVars, itemVars, clientVars>>

(* ProcessLoginRequest accepts the login; SentLoginResponse. *)
ProcessLoginRequest(ch) ==
  /\ Receive(ch)
  /\ publisherState' = "live"
  /\ UNCHANGED <<connected, streamIdMap, spinning, itemVars, clientVars>>

(* ProcessItemRequest: AddItem lists the stream with the item, creating    *)
(* the item if need be, and the client is told.  A consumer that keeps to  *)
(* one stream per item asks for nothing it has open; another may open a    *)
(* second stream, or ask again on the one it has, which lists it again.    *)
AddChannel(sym, ch, id) ==
  /\ items' = items \cup {sym}
  /\ refreshStreams' = [refreshStreams EXCEPT ![sym][ch] = Append(@, id)]

Listed(ch) == {place \in Symbols \X (1 .. MaxListed) :
                 place[2] <= Len(refreshStreams[place[1]][ch])}

ProcessItemRequest(ch, id, sym) ==
  /\ Receive(ch)
  /\ streamIdMap[ch][id] \in {None, sym}
  /\ ch \in OneStreamPerItem => OpenStreams(ch, sym) = {}
  /\ Cardinality(Listed(ch)) < MaxListed
  /\ AddChannel(sym, ch, id)
  /\ streamIdMap' = [streamIdMap EXCEPT ![ch][id] = sym]
  /\ RequestItem(sym)
  /\ UNCHANGED <<spinning, publisherVars, newItemSubscription, creating>>

(* ProcessItemRequest, a close: the stream is forgotten and taken off the  *)
(* item, and the client told if nobody wants the item any more.            *)
ProcessItemClose(ch, id) ==
  /\ Receive(ch)
  /\ streamIdMap[ch][id] # None
  /\ streamIdMap' = [streamIdMap EXCEPT ![ch][id] = None]
  /\ LET sym == streamIdMap[ch][id]
         list == refreshStreams[sym][ch]
     IN  IF FindsStream(list, id)
         THEN /\ refreshStreams' = [refreshStreams EXCEPT ![sym][ch] = Tail(@)]
              /\ CloseItems(IF NoChannelLeft(refreshStreams'[sym], ch)
                            THEN {sym} ELSE {})
              /\ UNCHANGED spinning
         ELSE /\ spinning' = TRUE
              /\ UNCHANGED <<refreshStreams, told, missed>>
  /\ UNCHANGED <<publisherVars, items, newItemSubscription, creating>>

(* Run initialises the ping times of an active channel.                    *)
InitChannelPingTimes(ch) ==
  /\ ~spinning /\ ch \in active \ pingsInitialized
  /\ pingsInitialized' = pingsInitialized \cup {ch}
  /\ UNCHANGED <<connections, active, receivedClientMsg, streamIdMap,
                 spinning, publisherVars, itemVars, clientVars, silent>>

(* HandlePings when a channel's nextReceivePingTime has come: a consumer   *)
(* that sent something gets another interval, a silent one is shut down,   *)
(* without ConnectionNotification.  Mutant: the flag is not reset.         *)
AnotherInterval(ch) == UNCHANGED receivedClientMsg
NextInterval(ch) == receivedClientMsg' = receivedClientMsg \ {ch}

HandlePings(ch) ==
  /\ ~spinning /\ ch \in pingsInitialized
  /\ IF ch \in receivedClientMsg
     THEN /\ NextInterval(ch)
          /\ UNCHANGED <<connections, active, pingsInitialized, streamIdMap,
                         spinning, itemVars, clientVars, silent>>
     ELSE ShutdownClientConnection(ch) \/ ShutdownSpins(ch)
  /\ UNCHANGED publisherVars

(* RemoveChannel once more compares the first stream of the list with one  *)
(* that is not the first.                                                  *)
Spin == spinning /\ UNCHANGED vars

-----------------------------------------------------------------------------
(* The client's threads.                                                   *)

(* It subscribes to the requests, once and for all. *)
SubscribeToRequests ==
  /\ ~newItemSubscription
  /\ newItemSubscription' = TRUE
  /\ UNCHANGED <<connectionVars, streamIdMap, spinning, publisherVars,
                 itemVars, creating, told, missed, silent>>

(* UPABridgePublisherItem::Initialise looks for the item and, if it is not *)
(* there,                                                                  *)
GetItem(sym) ==
  /\ sym \in Creators /\ creating[sym] = "no"
  /\ creating' = [creating EXCEPT ![sym] =
                    IF sym \in items THEN "done" ELSE "missing"]
  /\ UNCHANGED <<connectionVars, streamIdMap, spinning, publisherVars,
                 itemVars, newItemSubscription, told, missed, silent>>

(* adds it without a channel.  If a request has created it meanwhile,      *)
(* AddItem lists the null channel with it.                                 *)
AddItem(sym) ==
  /\ creating[sym] = "missing"
  /\ creating' = [creating EXCEPT ![sym] = "done"]
  /\ IF sym \in items
     THEN refreshStreams' = [refreshStreams EXCEPT ![sym][NullChannel] =
                               Append(@, 0)]
     ELSE UNCHANGED refreshStreams
  /\ items' = items \cup {sym}
  /\ UNCHANGED <<connectionVars, streamIdMap, spinning, publisherVars,
                 newItemSubscription, told, missed, silent>>

-----------------------------------------------------------------------------
(* The consumers (external): one may fall silent, by crashing or by losing *)
(* the network, without the connection being closed.                       *)
FallSilent(ch) ==
  /\ ch \in active \ silent
  /\ silent' = silent \cup {ch}
  /\ UNCHANGED <<connectionVars, streamIdMap, spinning, publisherVars,
                 itemVars, clientVars>>

ProviderStep(ch) ==
  \/ CreateNewClientConnection(ch) \/ InitChannel(ch)
  \/ ReadPing(ch) \/ ProcessLoginRequest(ch)
  \/ \E id \in StreamIds, sym \in Symbols : ProcessItemRequest(ch, id, sym)
  \/ \E id \in StreamIds : ProcessItemClose(ch, id)
  \/ InitChannelPingTimes(ch) \/ HandlePings(ch)
  \/ RemoveChannelConnection(ch)

ClientStep ==
  SubscribeToRequests \/ \E sym \in Symbols : GetItem(sym) \/ AddItem(sym)

Next ==
  \/ \E ch \in Channels : ProviderStep(ch) \/ FallSilent(ch)
  \/ Spin \/ ClientStep

Spec == Init /\ [][Next]_vars

(* Every cycle of Run initialises the ping times of the active channels    *)
(* and, once a second, checks those whose interval has passed.             *)
Fairness == \A ch \in Channels :
  WF_vars(InitChannelPingTimes(ch)) /\ WF_vars(HandlePings(ch))

FairSpec == Spec /\ Fairness

-----------------------------------------------------------------------------
TypeOK ==
  /\ connections \subseteq Channels /\ active \subseteq connections
  /\ pingsInitialized \subseteq active /\ receivedClientMsg \subseteq active
  /\ silent \subseteq active
  /\ streamIdMap \in [Channels -> [StreamIds -> Symbols \cup {None}]]
  /\ spinning \in BOOLEAN /\ connected \in BOOLEAN
  /\ publisherState \in {"unconnected", "connecting", "live"}
  /\ newItemSubscription \in BOOLEAN
  /\ items \subseteq Symbols
  /\ refreshStreams \in
       [Symbols -> [ItemChannels -> Seq(StreamIds \cup {0})]]
  /\ creating \in [Symbols -> {"no", "missing", "done"}]
  /\ told \subseteq Symbols /\ missed \subseteq Symbols

(* The two records of who wants what agree, through requests, closes,      *)
(* failing connections, ping timeouts and the reuse of a channel pointer   *)
(* (channelMap_ and streamIdMap_): a stream that is open is listed with    *)
(* its item, or nothing would be published on it; and on a channel that    *)
(* keeps to one stream per item nothing else is, and nothing twice, or     *)
(* data would be published on a stream that is gone.                       *)
OpenIsListed ==
  spinning \/ \A sym \in Symbols, ch \in Channels :
                OpenStreams(ch, sym) \subseteq ToSet(refreshStreams[sym][ch])
ListedIsOpen ==
  \A sym \in Symbols, ch \in OneStreamPerItem :
    LET list == refreshStreams[sym][ch]
    IN  /\ ToSet(list) = OpenStreams(ch, sym)
        /\ Len(list) = Cardinality(OpenStreams(ch, sym))
RecordsAgree == OpenIsListed /\ ListedIsOpen

(* An item some consumer has open is one the client was told to publish    *)
(* and not told to stop, however many consumers share it and whichever of  *)
(* them leave, unless the client had not subscribed to requests yet        *)
(* (ProcessItemRequest, RemoveChannel, CloseItem).                         *)
WantedIsTold ==
  \A sym \in Symbols : IsWanted(sym) => sym \in told \cup missed

(* The client is told to stop publishing an item as soon as no consumer    *)
(* wants it (UPAProvider.cpp ProcessItemRequest), with two exceptions: its *)
(* own creating of the publisher may have left the null channel on the     *)
(* item, which is never taken off, and a consumer that asks twice on one   *)
(* stream has it listed twice and taken off once.                          *)
ToldIsWanted ==
  \A sym \in told :
    \/ spinning \/ IsWanted(sym)
    \/ \E ch \in ItemChannels \ OneStreamPerItem :
         refreshStreams[sym][ch] # <<>>

(* A consumer that falls silent is shut down: its place in the table is    *)
(* free for another and its items are closed, whatever it had sent before  *)
(* (HandlePings), unless the provider thread is caught in RemoveChannel.   *)
SilentIsRemoved ==
  \A ch \in Channels : ch \in silent ~> ch \notin connections \/ spinning
=============================================================================
