-------------------------- MODULE PublisherProofs --------------------------
(* What the interactive publisher's records say of each other, for any     *)
(* number of consumers, items and streams.                                 *)
EXTENDS Publisher, FiniteSetTheorems, SequenceTheorems, TLAPS

-----------------------------------------------------------------------------
(* The inductive invariant.                                                *)

(* A channel that keeps to one stream per item is listed with an item once *)
(* or not at all: this is what makes RemoveChannel's loop end on it.       *)
SingleStream ==
  \A sym \in Symbols, ch \in OneStreamPerItem :
    \/ refreshStreams[sym][ch] = <<>> /\ OpenStreams(ch, sym) = {}
    \/ \E id \in StreamIds : /\ refreshStreams[sym][ch] = <<id>>
                             /\ OpenStreams(ch, sym) = {id}

(* An item the client was told of is listed under some channel, *)
ToldIsListed ==
  \A sym \in told :
    spinning \/ \E ch \in ItemChannels : refreshStreams[sym][ch] # <<>>

(* and it was told of none before it subscribed. *)
ToldSubscriber == newItemSubscription \/ told = {}

Inv == /\ TypeOK /\ OpenIsListed /\ SingleStream
       /\ WantedIsTold /\ ToldIsListed /\ ToldSubscriber

\* The part of the state Inv relates to itself.
recordVars == <<streamIdMap, spinning, refreshStreams, newItemSubscription,
                told, missed>>

-----------------------------------------------------------------------------
(* Constants and helpers.                                                  *)

(* The null channel is none of the channels, and 0 lists it. *)
LEMMA NullChannelApart ==
  /\ Channels \subseteq ItemChannels /\ NullChannel \in ItemChannels
  /\ NullChannel \notin Channels /\ OneStreamPerItem \subseteq Channels
  /\ None \notin Symbols
BY PublisherAssumption DEF PublisherAssumption, ItemChannels

(* A channel has finitely many streams open for an item. *)
LEMMA FinitelyManyOpen ==
  ASSUME NEW ch, NEW sym
  PROVE  /\ IsFiniteSet(OpenStreams(ch, sym))
         /\ Cardinality(OpenStreams(ch, sym)) \in Nat
         /\ OpenStreams(ch, sym) \subseteq StreamIds
PROOF
<1>1. OpenStreams(ch, sym) \subseteq StreamIds
  BY DEF OpenStreams
<1>2. IsFiniteSet(StreamIds)
  BY PublisherAssumption DEF PublisherAssumption
<1>3. IsFiniteSet(OpenStreams(ch, sym))
  BY <1>1, <1>2, FS_Subset
<1> QED
  BY <1>1, <1>3, FS_CardinalityType

(* Without only ever shortens a list, *)
LEMMA WithoutInSeq ==
  ASSUME TypeOK, NEW ch \in ItemChannels, NEW sym \in Symbols
  PROVE  Without(ch, sym) \in Seq(StreamIds \cup {0})
PROOF
<1> DEFINE list == refreshStreams[sym][ch]
           n == Cardinality(OpenStreams(ch, sym))
<1>1. list \in Seq(StreamIds \cup {0})
  BY DEF TypeOK
<1>2. n \in Nat
  BY FinitelyManyOpen
<1>3. Without(ch, sym) = SubSeq(list, n + 1, Len(list))
  BY DEF Without
<1> HIDE DEF list, n
<1>4. Len(list) \in Nat
  BY <1>1
<1>5. \A i \in n + 1 .. Len(list) : list[i] \in StreamIds \cup {0}
  BY <1>1, <1>2, <1>4
<1>6. SubSeq(list, n + 1, Len(list)) \in Seq(StreamIds \cup {0})
  BY <1>2, <1>4, <1>5, SubSeqProperties
<1> QED
  BY <1>3, <1>6

(* and leaves it alone when no stream is open. *)
LEMMA WithoutNothing ==
  ASSUME TypeOK, NEW ch \in ItemChannels, NEW sym \in Symbols,
         OpenStreams(ch, sym) = {}
  PROVE  Without(ch, sym) = refreshStreams[sym][ch]
PROOF
<1>1. refreshStreams[sym][ch] \in Seq(StreamIds \cup {0})
  BY DEF TypeOK
<1>2. Cardinality(OpenStreams(ch, sym)) = 0
  BY FS_EmptySet
<1>3. 0 + 1 = 1
  OBVIOUS
<1>4. Without(ch, sym)
        = SubSeq(refreshStreams[sym][ch], 1, Len(refreshStreams[sym][ch]))
  BY <1>2, <1>3 DEF Without
<1> QED
  BY <1>1, <1>4, SubSeqFull

(* It empties the list of a channel that keeps to one stream per item. *)
LEMMA WithoutSingle ==
  ASSUME TypeOK, SingleStream, NEW ch \in OneStreamPerItem,
         NEW sym \in Symbols
  PROVE  Without(ch, sym) = <<>>
PROOF
<1>1. CASE refreshStreams[sym][ch] = <<>> /\ OpenStreams(ch, sym) = {}
  <2>1. ch \in ItemChannels
    BY NullChannelApart
  <2> QED
    BY <1>1, <2>1, WithoutNothing
<1>2. ASSUME NEW id \in StreamIds, refreshStreams[sym][ch] = <<id>>,
             OpenStreams(ch, sym) = {id}
      PROVE  Without(ch, sym) = <<>>
  <2>1. Cardinality(OpenStreams(ch, sym)) = 1
    BY <1>2, FS_Singleton
  <2>2. Len(<<id>>) = 1 /\ 1 + 1 = 2 /\ 1 < 2 /\ 1 \in Int /\ 2 \in Int
    OBVIOUS
  <2>3. Without(ch, sym) = SubSeq(<<id>>, 2, 1)
    BY <1>2, <2>1, <2>2 DEF Without
  <2> QED
    BY <2>2, <2>3, SubSeqEmpty
<1> QED
  BY <1>1, <1>2 DEF SingleStream

(* What the consumers of all channels have open is listed, so an item      *)
(* under no channel is wanted by nobody.                                   *)
LEMMA UnlistedIsUnwanted ==
  ASSUME OpenIsListed, ~spinning, NEW sym \in Symbols,
         \A ch \in ItemChannels : refreshStreams[sym][ch] = <<>>
  PROVE  ~IsWanted(sym)
PROOF
<1> SUFFICES ASSUME NEW ch \in Channels, NEW id \in OpenStreams(ch, sym)
             PROVE  FALSE
  BY DEF IsWanted
<1>1. id \in ToSet(refreshStreams[sym][ch])
  BY DEF OpenIsListed
<1>2. refreshStreams[sym][ch] = <<>>
  BY NullChannelApart
<1>3. ToSet(<<>>) = {}
  BY DEF ToSet
<1> QED
  BY <1>1, <1>2, <1>3

(* The same of the next state. *)
LEMMA UnlistedIsUnwantedNext ==
  ASSUME OpenIsListed', ~spinning', NEW sym \in Symbols,
         \A ch \in ItemChannels : refreshStreams'[sym][ch] = <<>>
  PROVE  ~IsWanted(sym)'
PROOF
<1> SUFFICES ASSUME NEW ch \in Channels, NEW id \in OpenStreams(ch, sym)'
             PROVE  FALSE
  BY DEF IsWanted
<1>1. id \in ToSet(refreshStreams'[sym][ch])
  BY DEF OpenIsListed, ToSet
<1>2. refreshStreams'[sym][ch] = <<>>
  BY NullChannelApart
<1>3. ToSet(<<>>) = {}
  BY DEF ToSet
<1> QED
  BY <1>1, <1>2, <1>3

-----------------------------------------------------------------------------
LEMMA InvInit == Init => Inv
PROOF
<1> SUFFICES ASSUME Init PROVE Inv
  OBVIOUS
<1> USE PublisherAssumption, NullChannelApart
<1>1. TypeOK
  <2>1. <<>> \in Seq(StreamIds \cup {0})
    OBVIOUS
  <2>2. refreshStreams \in
          [Symbols -> [ItemChannels -> Seq(StreamIds \cup {0})]]
    BY <2>1 DEF Init
  <2>3. /\ streamIdMap \in [Channels -> [StreamIds -> Symbols \cup {None}]]
        /\ creating \in [Symbols -> {"no", "missing", "done"}]
    BY DEF Init
  <2> QED
    BY <2>2, <2>3 DEF Init, TypeOK
<1>2. \A ch \in Channels, sym \in Symbols : OpenStreams(ch, sym) = {}
  BY DEF Init, OpenStreams
<1>3. OpenIsListed
  BY <1>2 DEF OpenIsListed
<1>4. SingleStream
  <2> SUFFICES ASSUME NEW sym \in Symbols, NEW ch \in OneStreamPerItem
               PROVE  refreshStreams[sym][ch] = <<>>
    BY <1>2 DEF SingleStream
  <2> QED
    BY DEF Init
<1>5. WantedIsTold
  BY <1>2 DEF WantedIsTold, IsWanted
<1>6. ToldIsListed /\ ToldSubscriber
  BY DEF Init, ToldIsListed, ToldSubscriber
<1> QED
  BY <1>1, <1>3, <1>4, <1>5, <1>6 DEF Inv

(* A step that leaves the records alone needs only to keep the types. *)
LEMMA RecordsUnchanged ==
  ASSUME Inv, TypeOK', UNCHANGED recordVars
  PROVE  Inv'
PROOF
<1>1. \A ch, sym : OpenStreams(ch, sym)' = OpenStreams(ch, sym)
  BY DEF recordVars, OpenStreams
<1>2. OpenIsListed'
  BY <1>1 DEF Inv, OpenIsListed, recordVars, ToSet
<1>3. SingleStream'
  BY <1>1 DEF Inv, SingleStream, recordVars
<1>4. WantedIsTold'
  BY <1>1 DEF Inv, WantedIsTold, IsWanted, recordVars
<1>5. ToldIsListed' /\ ToldSubscriber'
  BY DEF Inv, ToldIsListed, ToldSubscriber, recordVars
<1> QED
  BY <1>2, <1>3, <1>4, <1>5 DEF Inv

-----------------------------------------------------------------------------
(* Requests and closes.                                                    *)

LEMMA RequestTypes ==
  ASSUME TypeOK, NEW ch \in Channels, NEW id \in StreamIds,
         NEW sym \in Symbols, ProcessItemRequest(ch, id, sym)
  PROVE  TypeOK'
PROOF
<1> USE NullChannelApart
<1>1. refreshStreams' \in
        [Symbols -> [ItemChannels -> Seq(StreamIds \cup {0})]]
  <2>1. refreshStreams[sym][ch] \in Seq(StreamIds \cup {0})
    BY DEF TypeOK
  <2>2. Append(refreshStreams[sym][ch], id) \in Seq(StreamIds \cup {0})
    BY <2>1
  <2> QED
    BY <2>2 DEF TypeOK, ProcessItemRequest, AddChannel
<1>2. /\ streamIdMap' \in [Channels -> [StreamIds -> Symbols \cup {None}]]
      /\ items' \subseteq Symbols
  BY DEF TypeOK, ProcessItemRequest, AddChannel
<1>3. told' \subseteq Symbols /\ missed' \subseteq Symbols
  BY DEF TypeOK, ProcessItemRequest, RequestItem
<1>4. /\ connections' \subseteq Channels /\ active' \subseteq connections'
      /\ pingsInitialized' \subseteq active'
      /\ receivedClientMsg' \subseteq active' /\ silent' \subseteq active'
  BY DEF TypeOK, ProcessItemRequest, Receive
<1> QED
  BY <1>1, <1>2, <1>3, <1>4 DEF TypeOK, ProcessItemRequest, publisherVars

(* A request opens the stream and appends it to the item's list. *)
LEMMA RequestRecords ==
  ASSUME TypeOK, NEW ch \in Channels, NEW id \in StreamIds,
         NEW sym \in Symbols, ProcessItemRequest(ch, id, sym)
  PROVE  /\ \A c \in Channels, s \in Symbols :
              /\ c # ch \/ s # sym => OpenStreams(c, s)' = OpenStreams(c, s)
              /\ OpenStreams(ch, sym)' = OpenStreams(ch, sym) \cup {id}
         /\ \A c \in ItemChannels, s \in Symbols :
              c # ch \/ s # sym =>
                refreshStreams'[s][c] = refreshStreams[s][c]
         /\ refreshStreams'[sym][ch] = Append(refreshStreams[sym][ch], id)
PROOF
<1> USE NullChannelApart
<1>1. streamIdMap' = [streamIdMap EXCEPT ![ch][id] = sym]
      /\ streamIdMap[ch][id] \in {None, sym}
  BY DEF ProcessItemRequest
<1>2. refreshStreams' =
        [refreshStreams EXCEPT ![sym][ch] = Append(@, id)]
  BY DEF ProcessItemRequest, AddChannel
<1>3. ASSUME NEW c \in Channels, NEW s \in Symbols, c # ch \/ s # sym
      PROVE  OpenStreams(c, s)' = OpenStreams(c, s)
  BY <1>1, <1>3 DEF OpenStreams, TypeOK
<1>4. OpenStreams(ch, sym)' = OpenStreams(ch, sym) \cup {id}
  BY <1>1 DEF OpenStreams, TypeOK
<1>5. ASSUME NEW c \in ItemChannels, NEW s \in Symbols, c # ch \/ s # sym
      PROVE  refreshStreams'[s][c] = refreshStreams[s][c]
  BY <1>2, <1>5 DEF TypeOK
<1>6. refreshStreams'[sym][ch] = Append(refreshStreams[sym][ch], id)
  BY <1>2 DEF TypeOK
<1> QED
  BY <1>3, <1>4, <1>5, <1>6

LEMMA RequestKeepsInv ==
  ASSUME Inv, NEW ch \in Channels, NEW id \in StreamIds,
         NEW sym \in Symbols, ProcessItemRequest(ch, id, sym)
  PROVE  Inv'
PROOF
<1> USE NullChannelApart
<1>1. TypeOK'
  BY RequestTypes DEF Inv
<1>2. ~spinning /\ spinning' = spinning
  BY DEF ProcessItemRequest, Receive
<1> DEFINE list == refreshStreams[sym][ch]
<1>3. list \in Seq(StreamIds \cup {0})
  BY DEF Inv, TypeOK
<1>4. PICK newList : newList = Append(list, id)
  OBVIOUS
<1>5. /\ \A c \in Channels, s \in Symbols :
           c # ch \/ s # sym => OpenStreams(c, s)' = OpenStreams(c, s)
      /\ OpenStreams(ch, sym)' = OpenStreams(ch, sym) \cup {id}
      /\ \A c \in ItemChannels, s \in Symbols :
           c # ch \/ s # sym => refreshStreams'[s][c] = refreshStreams[s][c]
      /\ refreshStreams'[sym][ch] = newList
  BY <1>4, RequestRecords DEF Inv
<1>6. ToSet(newList) = ToSet(list) \cup {id} /\ newList # <<>>
  <2>1. PICK old : old = list
    OBVIOUS
  <2>2. old \in Seq(StreamIds \cup {0}) /\ newList = Append(old, id)
    BY <1>3, <1>4, <2>1
  <2>3. /\ newList # <<>> /\ Len(newList) = Len(old) + 1 /\ Len(old) \in Nat
        /\ DOMAIN newList = 1 .. Len(old) + 1 /\ DOMAIN old = 1 .. Len(old)
        /\ \A i \in 1 .. Len(old) : newList[i] = old[i]
        /\ newList[Len(old) + 1] = id
    BY ONLY <2>2, AppendProperties
  <2>4. ASSUME NEW x \in ToSet(newList)
        PROVE  x \in ToSet(old) \cup {id}
    <3>1. PICK i \in 1 .. Len(old) + 1 : x = newList[i]
      BY <2>3, <2>4 DEF ToSet
    <3>2. i \in 1 .. Len(old) \/ i = Len(old) + 1
      BY ONLY <2>3, <3>1
    <3> QED
      BY <2>3, <3>1, <3>2 DEF ToSet
  <2>5. ASSUME NEW x \in ToSet(old) \cup {id}
        PROVE  x \in ToSet(newList)
    <3>1. CASE x = id
      <4>1. Len(old) + 1 \in 1 .. Len(old) + 1
        BY ONLY <2>3
      <4> QED
        BY <2>3, <3>1, <4>1 DEF ToSet
    <3>2. CASE x \in ToSet(old)
      <4>1. PICK i \in 1 .. Len(old) : x = old[i]
        BY <2>3, <3>2 DEF ToSet
      <4>2. i \in 1 .. Len(old) + 1
        BY ONLY <2>3, <4>1
      <4> QED
        BY <2>3, <4>1, <4>2 DEF ToSet
    <3> QED
      BY <2>5, <3>1, <3>2
  <2> QED
    BY <2>1, <2>3, <2>4, <2>5
<1>7. OpenIsListed'
  <2> SUFFICES ASSUME NEW s \in Symbols, NEW c \in Channels
               PROVE  OpenStreams(c, s)' \subseteq ToSet(refreshStreams'[s][c])
    BY DEF OpenIsListed, ToSet
  <2>1. OpenStreams(c, s) \subseteq ToSet(refreshStreams[s][c])
    BY <1>2 DEF Inv, OpenIsListed
  <2>2. CASE c = ch /\ s = sym
    BY <1>5, <1>6, <2>1, <2>2
  <2>3. CASE c # ch \/ s # sym
    BY <1>5, <2>1, <2>3
  <2> QED
    BY <2>2, <2>3
<1>8. SingleStream'
  <2> SUFFICES ASSUME NEW s \in Symbols, NEW c \in OneStreamPerItem
               PROVE  \/ /\ refreshStreams'[s][c] = <<>>
                         /\ OpenStreams(c, s)' = {}
                      \/ \E i \in StreamIds : /\ refreshStreams'[s][c] = <<i>>
                                              /\ OpenStreams(c, s)' = {i}
    BY DEF SingleStream
  <2>1. CASE c = ch /\ s = sym
    <3>1. OpenStreams(ch, sym) = {}
      BY <2>1 DEF ProcessItemRequest
    <3>2. list = <<>>
      BY <2>1, <3>1 DEF Inv, SingleStream
    <3>3. newList = <<id>>
      BY <1>4, <3>2
    <3> QED
      BY <1>5, <2>1, <3>1, <3>3
  <2>2. CASE c # ch \/ s # sym
    BY <1>5, <2>2 DEF Inv, SingleStream
  <2> QED
    BY <2>1, <2>2
<1>9. /\ told \subseteq told' \/ told' = told
      /\ told' \subseteq told \cup {sym} /\ sym \in told' \cup missed'
      /\ told \cup missed \subseteq told' \cup missed'
      /\ newItemSubscription' = newItemSubscription
      /\ ~newItemSubscription => told' = told
  BY DEF ProcessItemRequest, RequestItem
<1>10. WantedIsTold'
  <2> SUFFICES ASSUME NEW s \in Symbols, IsWanted(s)'
               PROVE  s \in told' \cup missed'
    BY DEF WantedIsTold
  <2>1. CASE s = sym
    BY <1>9, <2>1
  <2>2. CASE s # sym
    <3>1. IsWanted(s)
      BY <1>5, <2>2 DEF IsWanted
    <3> QED
      BY <1>9, <3>1 DEF Inv, WantedIsTold
  <2> QED
    BY <2>1, <2>2
<1>11. ToldIsListed'
  <2> SUFFICES ASSUME NEW s \in told'
               PROVE  \E c \in ItemChannels : refreshStreams'[s][c] # <<>>
    BY DEF ToldIsListed
  <2>1. CASE s = sym
    BY <1>5, <1>6, <2>1
  <2>2. CASE s # sym
    <3>1. s \in told /\ s \in Symbols
      BY <1>1, <1>9, <2>2 DEF TypeOK
    <3> QED
      BY <1>2, <1>5, <2>2, <3>1 DEF Inv, ToldIsListed
  <2> QED
    BY <2>1, <2>2
<1>12. ToldSubscriber'
  BY <1>9 DEF Inv, ToldSubscriber
<1> QED
  BY <1>1, <1>7, <1>8, <1>10, <1>11, <1>12 DEF Inv

(* A close forgets the stream, which was listed with its item. *)
LEMMA CloseForgets ==
  ASSUME Inv, NEW ch \in Channels, NEW id \in StreamIds,
         ProcessItemClose(ch, id),
         NEW sym, sym = streamIdMap[ch][id],
         NEW list, list = refreshStreams[sym][ch]
  PROVE  /\ sym \in Symbols /\ id \in OpenStreams(ch, sym)
         /\ list \in Seq(StreamIds \cup {0}) /\ list # <<>>
         /\ \A c \in Channels, s \in Symbols :
              c # ch \/ s # sym => OpenStreams(c, s)' = OpenStreams(c, s)
         /\ OpenStreams(ch, sym)' = OpenStreams(ch, sym) \ {id}
PROOF
<1> USE NullChannelApart
<1>1. sym # None /\ streamIdMap' = [streamIdMap EXCEPT ![ch][id] = None]
  BY DEF ProcessItemClose
<1>2. sym \in Symbols
  BY <1>1 DEF Inv, TypeOK
<1>3. id \in OpenStreams(ch, sym)
  BY DEF OpenStreams
<1>4. list \in Seq(StreamIds \cup {0})
  BY <1>2 DEF Inv, TypeOK
<1>5. ~spinning
  BY DEF ProcessItemClose, Receive
<1>6. list # <<>>
  <2>1. id \in ToSet(list)
    BY <1>2, <1>3, <1>5 DEF Inv, OpenIsListed
  <2> QED
    BY <2>1 DEF ToSet
<1>7. \A c \in Channels, i \in StreamIds :
        streamIdMap'[c][i] =
          IF c = ch /\ i = id THEN None ELSE streamIdMap[c][i]
  BY <1>1 DEF Inv, TypeOK
<1>8. \A c \in Channels, s \in Symbols :
        c # ch \/ s # sym => OpenStreams(c, s)' = OpenStreams(c, s)
  <2> SUFFICES ASSUME NEW c \in Channels, NEW s \in Symbols,
                      c # ch \/ s # sym
               PROVE  OpenStreams(c, s)' = OpenStreams(c, s)
    OBVIOUS
  <2> QED
    BY <1>7 DEF OpenStreams
<1>9. OpenStreams(ch, sym)' = OpenStreams(ch, sym) \ {id}
  <2>1. \A i \in StreamIds :
          streamIdMap'[ch][i] = sym <=> i # id /\ streamIdMap[ch][i] = sym
    BY <1>1, <1>7
  <2> QED
    BY <2>1 DEF OpenStreams
<1> QED
  BY <1>2, <1>3, <1>4, <1>6, <1>8, <1>9

(* It takes the stream off the front of the list, or never ends. *)
CloseEnds(ch, id, sym, list) ==
  /\ Head(list) = id /\ ~spinning'
  /\ refreshStreams' = [refreshStreams EXCEPT ![sym][ch] = Tail(list)]
  /\ CloseItems(IF NoChannelLeft(refreshStreams'[sym], ch)
                THEN {sym} ELSE {})

CloseSpins(id, list) ==
  Head(list) # id /\ spinning' /\ UNCHANGED <<refreshStreams, told, missed>>

LEMMA CloseEndsOrSpins ==
  ASSUME Inv, NEW ch \in Channels, NEW id \in StreamIds,
         ProcessItemClose(ch, id),
         NEW sym, sym = streamIdMap[ch][id],
         NEW list, list = refreshStreams[sym][ch]
  PROVE  CloseEnds(ch, id, sym, list) \/ CloseSpins(id, list)
PROOF
<1>1. ASSUME Head(list) = id
      PROVE  CloseEnds(ch, id, sym, list)
  <2>1. /\ refreshStreams' = [refreshStreams EXCEPT ![sym][ch] = Tail(@)]
        /\ CloseItems(IF NoChannelLeft(refreshStreams'[sym], ch)
                      THEN {sym} ELSE {})
        /\ UNCHANGED spinning
    BY <1>1, Zenon DEF ProcessItemClose, FindsStream
  <2>2. refreshStreams' = [refreshStreams EXCEPT ![sym][ch] = Tail(list)]
    BY <2>1, CloseForgets, NullChannelApart DEF Inv, TypeOK
  <2>3. ~spinning'
    BY <2>1 DEF ProcessItemClose, Receive
  <2> QED
    BY <1>1, <2>1, <2>2, <2>3 DEF CloseEnds
<1>2. ASSUME Head(list) # id
      PROVE  CloseSpins(id, list)
  BY <1>2 DEF ProcessItemClose, FindsStream, CloseSpins
<1> QED
  BY <1>1, <1>2

(* Closing items takes only them from what the client was told. *)
LEMMA CloseItemsEffect ==
  ASSUME NEW S, CloseItems(S)
  PROVE  /\ told' \subseteq told /\ missed' \subseteq missed
         /\ told \ S \subseteq told' /\ missed' = missed \ S
         /\ newItemSubscription => told' = told \ S
         /\ ~newItemSubscription => told' = told
BY DEF CloseItems

(* When the items closed are among those nobody wants, what is wanted is   *)
(* still told.                                                             *)
LEMMA ClosingKeepsWanted ==
  ASSUME WantedIsTold, NEW S, CloseItems(S),
         \A sym \in Symbols : IsWanted(sym)' => IsWanted(sym),
         \A sym \in Symbols : sym \in S => ~IsWanted(sym)'
  PROVE  WantedIsTold'
BY CloseItemsEffect DEF WantedIsTold

LEMMA CloseKeepsInv ==
  ASSUME Inv, NEW ch \in Channels, NEW id \in StreamIds,
         ProcessItemClose(ch, id)
  PROVE  Inv'
PROOF
<1> USE NullChannelApart
<1>1. PICK sym : sym = streamIdMap[ch][id]
  OBVIOUS
<1>2. PICK list : list = refreshStreams[sym][ch]
  OBVIOUS
<1>3. /\ sym \in Symbols /\ id \in OpenStreams(ch, sym)
      /\ list \in Seq(StreamIds \cup {0}) /\ list # <<>>
      /\ \A c \in Channels, s \in Symbols :
           c # ch \/ s # sym => OpenStreams(c, s)' = OpenStreams(c, s)
      /\ OpenStreams(ch, sym)' = OpenStreams(ch, sym) \ {id}
  BY <1>1, <1>2, CloseForgets
<1>3a. CloseEnds(ch, id, sym, list) \/ CloseSpins(id, list)
  BY <1>1, <1>2, CloseEndsOrSpins
<1>4. newItemSubscription' = newItemSubscription
  BY DEF ProcessItemClose
<1>5. TypeOK'
  <2>1. Tail(list) \in Seq(StreamIds \cup {0})
    BY <1>3
  <2>2. refreshStreams' \in
          [Symbols -> [ItemChannels -> Seq(StreamIds \cup {0})]]
    <3>1. refreshStreams \in
            [Symbols -> [ItemChannels -> Seq(StreamIds \cup {0})]]
      BY DEF Inv, TypeOK
    <3>2. CASE refreshStreams' = refreshStreams
      BY <3>1, <3>2
    <3>3. CASE refreshStreams' =
                 [refreshStreams EXCEPT ![sym][ch] = Tail(list)]
      BY <1>3, <2>1, <3>1, <3>3
    <3> QED
      BY <1>3a, <3>2, <3>3 DEF CloseEnds, CloseSpins
  <2>3. told' \subseteq Symbols /\ missed' \subseteq Symbols
    <3>1. told' \subseteq told /\ missed' \subseteq missed
      BY <1>3a, CloseItemsEffect DEF CloseEnds, CloseSpins
    <3> QED
      BY <3>1 DEF Inv, TypeOK
  <2>4. streamIdMap' \in [Channels -> [StreamIds -> Symbols \cup {None}]]
    BY DEF Inv, TypeOK, ProcessItemClose
  <2>5. /\ connections' \subseteq Channels /\ active' \subseteq connections'
        /\ pingsInitialized' \subseteq active'
        /\ receivedClientMsg' \subseteq active' /\ silent' \subseteq active'
    BY DEF Inv, TypeOK, ProcessItemClose, Receive
  <2>6. spinning' \in BOOLEAN
    BY DEF Inv, TypeOK, ProcessItemClose
  <2> QED
    BY <2>2, <2>3, <2>4, <2>5, <2>6
    DEF Inv, TypeOK, ProcessItemClose, publisherVars
<1>6. CASE spinning'
  <2>1. UNCHANGED <<refreshStreams, told, missed>> /\ Head(list) # id
    BY <1>3a, <1>6 DEF CloseEnds, CloseSpins
  <2>2. OpenIsListed' /\ ToldIsListed'
    BY <1>6 DEF OpenIsListed, ToldIsListed
  <2>3. ch \notin OneStreamPerItem
    <3> SUFFICES ASSUME ch \in OneStreamPerItem
                 PROVE  Head(list) = id
      BY <2>1
    <3>1. PICK i \in StreamIds : list = <<i>> /\ OpenStreams(ch, sym) = {i}
      BY <1>2, <1>3 DEF Inv, SingleStream
    <3> QED
      BY <1>3, <3>1
  <2>4. SingleStream'
    BY <1>3, <2>1, <2>3 DEF Inv, SingleStream
  <2>5. \A s \in Symbols : IsWanted(s)' => IsWanted(s)
    BY <1>3 DEF IsWanted
  <2>6. WantedIsTold'
    BY <2>1, <2>5 DEF Inv, WantedIsTold
  <2>7. ToldSubscriber'
    BY <1>4, <2>1 DEF Inv, ToldSubscriber
  <2> QED
    BY <1>5, <2>2, <2>4, <2>6, <2>7 DEF Inv
<1>7. CASE ~spinning'
  <2>1. PICK rest : rest = Tail(list)
    OBVIOUS
  <2>2. Head(list) = id /\ refreshStreams' =
          [refreshStreams EXCEPT ![sym][ch] = rest]
    BY <1>3a, <1>7, <2>1 DEF CloseEnds, CloseSpins
  <2>3. PICK S : /\ S = IF NoChannelLeft(refreshStreams'[sym], ch)
                        THEN {sym} ELSE {}
                 /\ CloseItems(S)
    BY <1>3a, <1>7 DEF CloseEnds, CloseSpins
  <2>4. /\ refreshStreams'[sym][ch] = rest
        /\ \A c \in ItemChannels, s \in Symbols : c # ch \/ s # sym =>
             refreshStreams'[s][c] = refreshStreams[s][c]
    BY <1>3, <2>2 DEF Inv, TypeOK
  <2>5. ~spinning
    BY DEF ProcessItemClose, Receive
  <2>6. ToSet(list) \ {id} \subseteq ToSet(rest)
    <3>1. Len(list) \in Nat /\ Len(list) > 0 /\ Len(rest) = Len(list) - 1
      BY <1>3, <2>1, HeadTailProperties
    <3>2. \A i \in 1 .. Len(rest) : rest[i] = list[i + 1]
      BY <1>3, <2>1, HeadTailProperties
    <3>3. ASSUME NEW i \in 1 .. Len(list), list[i] # id
          PROVE  list[i] \in ToSet(rest)
      <4>1. i # 1
        BY <1>3, <2>2, <3>3
      <4>2. i - 1 \in 1 .. Len(rest) /\ (i - 1) + 1 = i
        BY <3>1, <4>1
      <4>3. rest[i - 1] = list[i]
        BY <3>2, <4>2
      <4>4. DOMAIN rest = 1 .. Len(rest)
        BY <1>3, <2>1
      <4> QED
        BY <4>2, <4>3, <4>4 DEF ToSet
    <3>4. DOMAIN list = 1 .. Len(list)
      BY <1>3
    <3> QED
      BY <3>3, <3>4 DEF ToSet
  <2>7. OpenIsListed'
    <3> SUFFICES ASSUME NEW s \in Symbols, NEW c \in Channels
                 PROVE  OpenStreams(c, s)' \subseteq
                          ToSet(refreshStreams'[s][c])
      BY DEF OpenIsListed, ToSet
    <3>1. OpenStreams(c, s) \subseteq ToSet(refreshStreams[s][c])
      BY <2>5 DEF Inv, OpenIsListed
    <3>2. CASE c = ch /\ s = sym
      BY <1>2, <1>3, <2>4, <2>6, <3>1, <3>2
    <3>3. CASE c # ch \/ s # sym
      BY <1>3, <2>4, <3>1, <3>3
    <3> QED
      BY <3>2, <3>3
  <2>8. SingleStream'
    <3> SUFFICES ASSUME NEW s \in Symbols, NEW c \in OneStreamPerItem
                 PROVE  \/ /\ refreshStreams'[s][c] = <<>>
                           /\ OpenStreams(c, s)' = {}
                        \/ \E i \in StreamIds :
                             /\ refreshStreams'[s][c] = <<i>>
                             /\ OpenStreams(c, s)' = {i}
      BY DEF SingleStream
    <3>1. CASE c = ch /\ s = sym
      <4>1. PICK i \in StreamIds : list = <<i>> /\ OpenStreams(ch, sym) = {i}
        BY <1>2, <1>3, <3>1 DEF Inv, SingleStream
      <4>2. rest = <<>>
        BY <2>1, <4>1
      <4>3. OpenStreams(ch, sym)' = {}
        BY <1>3, <4>1
      <4> QED
        BY <2>4, <3>1, <4>2, <4>3
    <3>2. CASE c # ch \/ s # sym
      BY <1>3, <2>4, <3>2 DEF Inv, SingleStream
    <3> QED
      BY <3>1, <3>2
  <2>9. WantedIsTold'
    <3>1. \A s \in Symbols : IsWanted(s)' => IsWanted(s)
      BY <1>3 DEF IsWanted
    <3>2. ASSUME NEW s \in Symbols, s \in S
          PROVE  ~IsWanted(s)'
      <4>1. s = sym /\ NoChannelLeft(refreshStreams'[sym], ch)
        BY <2>3, <3>2
      <4>2. \A c \in ItemChannels : refreshStreams'[s][c] = <<>>
        BY <4>1 DEF NoChannelLeft
      <4> QED
        BY <1>7, <2>7, <4>2, UnlistedIsUnwantedNext
    <3> QED
      BY <2>3, <3>1, <3>2, ClosingKeepsWanted DEF Inv
  <2>10. ToldIsListed' /\ ToldSubscriber'
    <3>1. told' \subseteq told /\ (newItemSubscription => told' = told \ S)
      BY <2>3, CloseItemsEffect
    <3>2. ToldSubscriber'
      BY <1>4, <3>1 DEF Inv, ToldSubscriber
    <3>3. ASSUME NEW s \in told'
          PROVE  \E c \in ItemChannels : refreshStreams'[s][c] # <<>>
      <4>1. s \in told /\ s \in Symbols /\ s \notin S
        BY <3>1, <3>3 DEF Inv, TypeOK, ToldSubscriber
      <4>2. CASE s = sym
        BY <2>3, <4>1, <4>2 DEF NoChannelLeft
      <4>3. CASE s # sym
        BY <2>4, <2>5, <4>1, <4>3 DEF Inv, ToldIsListed
      <4> QED
        BY <4>2, <4>3
    <3> QED
      BY <3>2, <3>3 DEF ToldIsListed
  <2> QED
    BY <1>5, <2>7, <2>8, <2>9, <2>10 DEF Inv
<1> QED
  BY <1>6, <1>7

-----------------------------------------------------------------------------
(* Shutting a connection down.                                             *)

(* It forgets the channel's streams and takes them off their items. *)
LEMMA ShutdownRecords ==
  ASSUME Inv, NEW ch \in Channels, ShutdownClientConnection(ch)
  PROVE  /\ \A sym \in Symbols : OpenStreams(ch, sym)' = {}
         /\ \A c \in Channels, sym \in Symbols :
              c # ch => OpenStreams(c, sym)' = OpenStreams(c, sym)
         /\ \A sym \in Symbols : refreshStreams'[sym][ch] = Without(ch, sym)
         /\ \A c \in ItemChannels, sym \in Symbols :
              c # ch => refreshStreams'[sym][c] = refreshStreams[sym][c]
         /\ UNCHANGED <<spinning, newItemSubscription>>
PROOF
<1> USE NullChannelApart
<1>1. /\ streamIdMap' =
           [streamIdMap EXCEPT ![ch] = [id \in StreamIds |-> None]]
      /\ refreshStreams' = [sym \in Symbols |->
           [refreshStreams[sym] EXCEPT ![ch] = Without(ch, sym)]]
      /\ UNCHANGED <<spinning, newItemSubscription>>
  BY DEF ShutdownClientConnection
<1>2. \A sym \in Symbols : OpenStreams(ch, sym)' = {}
  BY <1>1 DEF OpenStreams, Inv, TypeOK
<1>3. \A c \in Channels, sym \in Symbols :
        c # ch => OpenStreams(c, sym)' = OpenStreams(c, sym)
  BY <1>1 DEF OpenStreams, Inv, TypeOK
<1>4. \A sym \in Symbols : refreshStreams'[sym][ch] = Without(ch, sym)
  BY <1>1 DEF Inv, TypeOK
<1>5. \A c \in ItemChannels, sym \in Symbols :
        c # ch => refreshStreams'[sym][c] = refreshStreams[sym][c]
  BY <1>1 DEF Inv, TypeOK
<1> QED
  BY <1>1, <1>2, <1>3, <1>4, <1>5

(* It tells the client of the items the channel had open that nobody has   *)
(* any more.                                                               *)
LEMMA ShutdownCloses ==
  ASSUME Inv, NEW ch \in Channels, ShutdownClientConnection(ch)
  PROVE  CloseItems({sym \in Symbols :
           OpenStreams(ch, sym) # {} /\ NoChannelLeft(refreshStreams'[sym], ch)})
PROOF
<1> DEFINE after(sym) == [refreshStreams[sym] EXCEPT ![ch] = Without(ch, sym)]
<1>1. /\ refreshStreams' = [sym \in Symbols |-> after(sym)]
      /\ CloseItems({sym \in Symbols : /\ OpenStreams(ch, sym) # {}
                                       /\ NoChannelLeft(after(sym), ch)})
  BY DEF ShutdownClientConnection
<1>2. \A sym \in Symbols : refreshStreams'[sym] = after(sym)
  BY <1>1
<1>3. {sym \in Symbols : /\ OpenStreams(ch, sym) # {}
                         /\ NoChannelLeft(after(sym), ch)}
        = {sym \in Symbols : /\ OpenStreams(ch, sym) # {}
                             /\ NoChannelLeft(refreshStreams'[sym], ch)}
  BY <1>2
<1> HIDE DEF after
<1> QED
  BY <1>1, <1>3

LEMMA ShutdownTypes ==
  ASSUME Inv, NEW ch \in Channels, ShutdownClientConnection(ch),
         connected' \in BOOLEAN,
         publisherState' \in {"unconnected", "connecting", "live"}
  PROVE  TypeOK'
PROOF
<1> USE NullChannelApart
<1>1. refreshStreams' \in
        [Symbols -> [ItemChannels -> Seq(StreamIds \cup {0})]]
  <2>1. \A sym \in Symbols : Without(ch, sym) \in Seq(StreamIds \cup {0})
    BY WithoutInSeq DEF Inv
  <2>2. refreshStreams' = [sym \in Symbols |->
          [refreshStreams[sym] EXCEPT ![ch] = Without(ch, sym)]]
    BY DEF ShutdownClientConnection
  <2> QED
    BY <2>1, <2>2 DEF Inv, TypeOK
<1>2. streamIdMap' \in [Channels -> [StreamIds -> Symbols \cup {None}]]
  BY DEF Inv, TypeOK, ShutdownClientConnection
<1>3. told' \subseteq Symbols /\ missed' \subseteq Symbols
  <2>1. told' \subseteq told /\ missed' \subseteq missed
    BY ShutdownCloses, CloseItemsEffect
  <2> QED
    BY <2>1 DEF Inv, TypeOK
<1>4. /\ connections' \subseteq Channels /\ active' \subseteq connections'
      /\ pingsInitialized' \subseteq active'
      /\ receivedClientMsg' \subseteq active' /\ silent' \subseteq active'
  BY DEF Inv, TypeOK, ShutdownClientConnection, ForgetConnection
<1>5. UNCHANGED <<spinning, items, newItemSubscription, creating>>
  BY DEF ShutdownClientConnection
<1> QED
  BY <1>1, <1>2, <1>3, <1>4, <1>5 DEF Inv, TypeOK

LEMMA ShutdownKeepsInv ==
  ASSUME Inv, ~spinning, NEW ch \in Channels, ShutdownClientConnection(ch),
         connected' \in BOOLEAN,
         publisherState' \in {"unconnected", "connecting", "live"}
  PROVE  Inv'
PROOF
<1> USE NullChannelApart
<1>1. TypeOK'
  BY ShutdownTypes
<1>2. /\ \A sym \in Symbols : OpenStreams(ch, sym)' = {}
      /\ \A c \in Channels, sym \in Symbols :
           c # ch => OpenStreams(c, sym)' = OpenStreams(c, sym)
      /\ \A sym \in Symbols : refreshStreams'[sym][ch] = Without(ch, sym)
      /\ \A c \in ItemChannels, sym \in Symbols :
           c # ch => refreshStreams'[sym][c] = refreshStreams[sym][c]
      /\ UNCHANGED <<spinning, newItemSubscription>>
  BY ShutdownRecords
<1>3. PICK S : /\ S = {sym \in Symbols : /\ OpenStreams(ch, sym) # {}
                                         /\ NoChannelLeft(refreshStreams'[sym],
                                                          ch)}
               /\ CloseItems(S)
  BY ShutdownCloses
<1>4. OpenIsListed'
  <2> SUFFICES ASSUME NEW sym \in Symbols, NEW c \in Channels
               PROVE  OpenStreams(c, sym)' \subseteq
                        ToSet(refreshStreams'[sym][c])
    BY DEF OpenIsListed, ToSet
  <2>1. CASE c = ch
    BY <1>2, <2>1
  <2>2. CASE c # ch
    <3>1. OpenStreams(c, sym) \subseteq ToSet(refreshStreams[sym][c])
      BY DEF Inv, OpenIsListed
    <3> QED
      BY <1>2, <2>2, <3>1
  <2> QED
    BY <2>1, <2>2
<1>5. SingleStream'
  <2> SUFFICES ASSUME NEW sym \in Symbols, NEW c \in OneStreamPerItem
               PROVE  \/ /\ refreshStreams'[sym][c] = <<>>
                         /\ OpenStreams(c, sym)' = {}
                      \/ \E i \in StreamIds :
                           /\ refreshStreams'[sym][c] = <<i>>
                           /\ OpenStreams(c, sym)' = {i}
    BY DEF SingleStream
  <2>1. CASE c = ch
    BY <1>2, <2>1, WithoutSingle DEF Inv
  <2>2. CASE c # ch
    BY <1>2, <2>2 DEF Inv, SingleStream
  <2> QED
    BY <2>1, <2>2
<1>6. WantedIsTold'
  <2>1. \A sym \in Symbols : IsWanted(sym)' => IsWanted(sym)
    BY <1>2 DEF IsWanted
  <2>2. ASSUME NEW sym \in Symbols, sym \in S
        PROVE  ~IsWanted(sym)'
    <3>1. \A c \in ItemChannels : refreshStreams'[sym][c] = <<>>
      BY <1>3, <2>2 DEF NoChannelLeft
    <3> QED
      BY <1>2, <1>4, <3>1, UnlistedIsUnwantedNext
  <2> QED
    BY <1>3, <2>1, <2>2, ClosingKeepsWanted DEF Inv
<1>7. told' \subseteq told /\ (newItemSubscription => told' = told \ S)
  BY <1>3, CloseItemsEffect
<1>8. ToldSubscriber'
  BY <1>2, <1>7 DEF Inv, ToldSubscriber
<1>9. ToldIsListed'
  <2> SUFFICES ASSUME NEW sym \in told'
               PROVE  \E c \in ItemChannels : refreshStreams'[sym][c] # <<>>
    BY DEF ToldIsListed
  <2>1. sym \in told /\ sym \in Symbols /\ sym \notin S
    BY <1>7 DEF Inv, TypeOK, ToldSubscriber
  <2>2. PICK c \in ItemChannels : refreshStreams[sym][c] # <<>>
    BY <2>1 DEF Inv, ToldIsListed
  <2>3. CASE OpenStreams(ch, sym) = {}
    <3>1. Without(ch, sym) = refreshStreams[sym][ch]
      BY <2>1, <2>3, WithoutNothing DEF Inv
    <3> QED
      BY <1>2, <2>1, <2>2, <3>1
  <2>4. CASE OpenStreams(ch, sym) # {}
    BY <1>3, <2>1, <2>4 DEF NoChannelLeft
  <2> QED
    BY <2>3, <2>4
<1> QED
  BY <1>1, <1>4, <1>5, <1>6, <1>8, <1>9 DEF Inv

(* A walk that never ends leaves everything else as it was. *)
LEMMA SpinKeepsInv ==
  ASSUME Inv, NEW ch \in Channels, ShutdownSpins(ch),
         connected' \in BOOLEAN,
         publisherState' \in {"unconnected", "connecting", "live"}
  PROVE  Inv'
PROOF
<1>1. /\ spinning' = TRUE
      /\ UNCHANGED <<streamIdMap, refreshStreams, newItemSubscription,
                     told, missed>>
  BY DEF ShutdownSpins, itemVars, clientVars
<1>2. TypeOK'
  BY DEF Inv, TypeOK, ShutdownSpins, connectionVars, itemVars, clientVars
<1>3. \A c, sym : OpenStreams(c, sym)' = OpenStreams(c, sym)
  BY <1>1 DEF OpenStreams
<1>4. OpenIsListed' /\ ToldIsListed'
  BY <1>1 DEF OpenIsListed, ToldIsListed
<1>5. SingleStream'
  BY <1>1, <1>3 DEF Inv, SingleStream
<1>6. WantedIsTold'
  BY <1>1, <1>3 DEF Inv, WantedIsTold, IsWanted
<1>7. ToldSubscriber'
  BY <1>1 DEF Inv, ToldSubscriber
<1> QED
  BY <1>2, <1>4, <1>5, <1>6, <1>7 DEF Inv

-----------------------------------------------------------------------------
(* The client's steps.                                                     *)

LEMMA SubscribeKeepsInv ==
  ASSUME Inv, SubscribeToRequests
  PROVE  Inv'
PROOF
<1>1. UNCHANGED <<streamIdMap, spinning, refreshStreams, told, missed>>
      /\ newItemSubscription' = TRUE
  BY DEF SubscribeToRequests, itemVars
<1>2. TypeOK'
  BY DEF Inv, TypeOK, SubscribeToRequests, connectionVars, publisherVars,
         itemVars
<1>3. \A c, sym : OpenStreams(c, sym)' = OpenStreams(c, sym)
  BY <1>1 DEF OpenStreams
<1>4. OpenIsListed'
  BY <1>1, <1>3 DEF Inv, OpenIsListed, ToSet
<1>5. SingleStream'
  BY <1>1, <1>3 DEF Inv, SingleStream
<1>6. WantedIsTold'
  BY <1>1, <1>3 DEF Inv, WantedIsTold, IsWanted
<1>7. ToldIsListed' /\ ToldSubscriber'
  BY <1>1 DEF Inv, ToldIsListed, ToldSubscriber
<1> QED
  BY <1>2, <1>4, <1>5, <1>6, <1>7 DEF Inv

(* The null channel is nobody's: listing it disturbs no consumer. *)
LEMMA AddItemKeepsInv ==
  ASSUME Inv, NEW sym \in Symbols, AddItem(sym)
  PROVE  Inv'
PROOF
<1> USE NullChannelApart
<1>1. UNCHANGED <<streamIdMap, spinning, newItemSubscription, told, missed>>
  BY DEF AddItem
<1>2. PICK list : list = Append(refreshStreams[sym][NullChannel], 0)
  OBVIOUS
<1>3. list \in Seq(StreamIds \cup {0}) /\ list # <<>>
  <2>1. refreshStreams[sym][NullChannel] \in Seq(StreamIds \cup {0})
    BY DEF Inv, TypeOK
  <2>2. 0 \in StreamIds \cup {0}
    OBVIOUS
  <2> QED
    BY <1>2, <2>1, <2>2, AppendProperties
<1>4. \/ refreshStreams' = refreshStreams
      \/ refreshStreams' =
           [refreshStreams EXCEPT ![sym][NullChannel] = list]
  BY <1>2 DEF AddItem, Inv, TypeOK
<1>5. TypeOK'
  <2>1. refreshStreams' \in
          [Symbols -> [ItemChannels -> Seq(StreamIds \cup {0})]]
    <3>1. CASE refreshStreams' = refreshStreams
      BY <3>1 DEF Inv, TypeOK
    <3>2. CASE refreshStreams' =
                 [refreshStreams EXCEPT ![sym][NullChannel] = list]
      BY <1>3, <3>2 DEF Inv, TypeOK
    <3> QED
      BY <1>4, <3>1, <3>2
  <2>2. /\ items' \subseteq Symbols
        /\ creating' \in [Symbols -> {"no", "missing", "done"}]
    BY DEF Inv, TypeOK, AddItem
  <2> QED
    BY <2>1, <2>2 DEF Inv, TypeOK, AddItem, connectionVars, publisherVars
<1>6. \A ch \in Channels, s \in Symbols :
        refreshStreams'[s][ch] = refreshStreams[s][ch]
  <2>1. refreshStreams \in
          [Symbols -> [ItemChannels -> Seq(StreamIds \cup {0})]]
    BY DEF Inv, TypeOK
  <2>2. CASE refreshStreams' = refreshStreams
    BY <2>2
  <2>3. CASE refreshStreams' =
               [refreshStreams EXCEPT ![sym][NullChannel] = list]
    BY <2>1, <2>3
  <2> QED
    BY <1>4, <2>2, <2>3
<1>7. \A c, s : OpenStreams(c, s)' = OpenStreams(c, s)
  BY <1>1 DEF OpenStreams
<1>8. OpenIsListed'
  <2> SUFFICES ASSUME ~spinning, NEW s \in Symbols, NEW ch \in Channels
               PROVE  OpenStreams(ch, s)' \subseteq
                        ToSet(refreshStreams'[s][ch])
    BY <1>1 DEF OpenIsListed, ToSet
  <2> QED
    BY <1>6, <1>7 DEF Inv, OpenIsListed
<1>9. SingleStream'
  BY <1>6, <1>7 DEF Inv, SingleStream
<1>10. WantedIsTold'
  BY <1>1, <1>7 DEF Inv, WantedIsTold, IsWanted
<1>11. \A c \in ItemChannels, s \in Symbols :
         refreshStreams[s][c] # <<>> => refreshStreams'[s][c] # <<>>
  <2>1. refreshStreams \in
          [Symbols -> [ItemChannels -> Seq(StreamIds \cup {0})]]
    BY DEF Inv, TypeOK
  <2>2. CASE refreshStreams' = refreshStreams
    BY <2>2
  <2>3. CASE refreshStreams' =
               [refreshStreams EXCEPT ![sym][NullChannel] = list]
    BY <1>3, <2>1, <2>3
  <2> QED
    BY <1>4, <2>2, <2>3
<1>12. ToldIsListed'
  <2> SUFFICES ASSUME ~spinning, NEW s \in told
               PROVE  \E c \in ItemChannels : refreshStreams'[s][c] # <<>>
    BY <1>1 DEF ToldIsListed
  <2>1. s \in Symbols
    BY DEF Inv, TypeOK
  <2> QED
    BY <1>11, <2>1 DEF Inv, ToldIsListed
<1>13. ToldSubscriber'
  BY <1>1 DEF Inv, ToldSubscriber
<1> QED
  BY <1>5, <1>8, <1>9, <1>10, <1>12, <1>13 DEF Inv

-----------------------------------------------------------------------------
(* The steps that leave the records alone.                                 *)

LEMMA ConnectionNotificationTypes ==
  ASSUME TypeOK, NEW up \in BOOLEAN,
         ConnectionNotification(up) \/ DisconnectedTwice
  PROVE  /\ connected' \in BOOLEAN
         /\ publisherState' \in {"unconnected", "connecting", "live"}
BY DEF TypeOK, ConnectionNotification, DisconnectedTwice

LEMMA ConnectionStepKeepsInv ==
  ASSUME Inv, NEW ch \in Channels,
         \/ CreateNewClientConnection(ch) \/ InitChannel(ch)
         \/ ReadPing(ch) \/ ProcessLoginRequest(ch)
         \/ InitChannelPingTimes(ch) \/ FallSilent(ch)
  PROVE  Inv'
PROOF
<1>1. CASE CreateNewClientConnection(ch)
  <2>1. UNCHANGED recordVars
    BY <1>1 DEF CreateNewClientConnection, recordVars, itemVars, clientVars
  <2>2. TypeOK'
    BY <1>1 DEF Inv, TypeOK, CreateNewClientConnection, publisherVars,
                itemVars, clientVars
  <2> QED
    BY <2>1, <2>2, RecordsUnchanged
<1>2. CASE InitChannel(ch)
  <2>1. UNCHANGED recordVars
    BY <1>2 DEF InitChannel, recordVars, itemVars, clientVars
  <2>2. /\ connected' \in BOOLEAN
        /\ publisherState' \in {"unconnected", "connecting", "live"}
    BY <1>2, ConnectionNotificationTypes DEF InitChannel, Inv
  <2>3. TypeOK'
    BY <1>2, <2>2 DEF Inv, TypeOK, InitChannel, itemVars, clientVars
  <2> QED
    BY <2>1, <2>3, RecordsUnchanged
<1>3. CASE ReadPing(ch)
  <2>1. UNCHANGED recordVars
    BY <1>3 DEF ReadPing, Receive, recordVars, itemVars, clientVars
  <2>2. TypeOK'
    BY <1>3 DEF Inv, TypeOK, ReadPing, Receive, publisherVars, itemVars,
                clientVars
  <2> QED
    BY <2>1, <2>2, RecordsUnchanged
<1>4. CASE ProcessLoginRequest(ch)
  <2>1. UNCHANGED recordVars
    BY <1>4 DEF ProcessLoginRequest, Receive, recordVars, itemVars,
                clientVars
  <2>2. TypeOK'
    BY <1>4 DEF Inv, TypeOK, ProcessLoginRequest, Receive, itemVars,
                clientVars
  <2> QED
    BY <2>1, <2>2, RecordsUnchanged
<1>5. CASE InitChannelPingTimes(ch)
  <2>1. UNCHANGED recordVars
    BY <1>5 DEF InitChannelPingTimes, recordVars, itemVars, clientVars
  <2>2. TypeOK'
    BY <1>5 DEF Inv, TypeOK, InitChannelPingTimes, publisherVars, itemVars,
                clientVars
  <2> QED
    BY <2>1, <2>2, RecordsUnchanged
<1>6. CASE FallSilent(ch)
  <2>1. UNCHANGED recordVars
    BY <1>6 DEF FallSilent, recordVars, itemVars, clientVars
  <2>2. TypeOK'
    BY <1>6 DEF Inv, TypeOK, FallSilent, connectionVars, publisherVars,
                itemVars, clientVars
  <2> QED
    BY <2>1, <2>2, RecordsUnchanged
<1> QED
  BY <1>1, <1>2, <1>3, <1>4, <1>5, <1>6

(* Closed channels, whether the failure of a read or a ping timeout found  *)
(* them.                                                                   *)
LEMMA RemoveKeepsInv ==
  ASSUME Inv, NEW ch \in Channels,
         RemoveChannelConnection(ch) \/ HandlePings(ch)
  PROVE  Inv'
PROOF
<1>1. CASE RemoveChannelConnection(ch)
  <2>1. /\ connected' \in BOOLEAN
        /\ publisherState' \in {"unconnected", "connecting", "live"}
    BY <1>1, ConnectionNotificationTypes DEF RemoveChannelConnection, Inv
  <2>2. /\ ~spinning
        /\ ShutdownClientConnection(ch) \/ ShutdownSpins(ch)
    BY <1>1 DEF RemoveChannelConnection
  <2> QED
    BY <2>1, <2>2, ShutdownKeepsInv, SpinKeepsInv
<1>2. CASE HandlePings(ch)
  <2>1. /\ connected' \in BOOLEAN
        /\ publisherState' \in {"unconnected", "connecting", "live"}
    BY <1>2 DEF HandlePings, publisherVars, Inv, TypeOK
  <2>2. CASE ch \in receivedClientMsg
    <3>1. UNCHANGED recordVars
      BY <1>2, <2>2 DEF HandlePings, recordVars, itemVars, clientVars
    <3>2. TypeOK'
      BY <1>2, <2>2 DEF Inv, TypeOK, HandlePings, NextInterval, publisherVars,
                        itemVars, clientVars
    <3> QED
      BY <3>1, <3>2, RecordsUnchanged
  <2>3. CASE ch \notin receivedClientMsg
    <3>1. /\ ~spinning
          /\ ShutdownClientConnection(ch) \/ ShutdownSpins(ch)
      BY <1>2, <2>3 DEF HandlePings
    <3> QED
      BY <2>1, <3>1, ShutdownKeepsInv, SpinKeepsInv
  <2> QED
    BY <2>2, <2>3
<1> QED
  BY <1>1, <1>2

LEMMA GetItemKeepsInv ==
  ASSUME Inv, NEW sym \in Symbols, GetItem(sym)
  PROVE  Inv'
PROOF
<1>1. UNCHANGED recordVars
  BY DEF GetItem, recordVars, itemVars
<1>2. TypeOK'
  BY DEF Inv, TypeOK, GetItem, connectionVars, publisherVars, itemVars
<1> QED
  BY <1>1, <1>2, RecordsUnchanged

LEMMA StutterKeepsInv ==
  ASSUME Inv, UNCHANGED vars
  PROVE  Inv'
PROOF
<1>1. UNCHANGED recordVars
  BY DEF vars, recordVars, itemVars, clientVars
<1>2. TypeOK'
  BY DEF Inv, TypeOK, vars, connectionVars, publisherVars, itemVars,
         clientVars
<1> QED
  BY <1>1, <1>2, RecordsUnchanged

LEMMA InvNext == Inv /\ [Next]_vars => Inv'
PROOF
<1> SUFFICES ASSUME Inv, [Next]_vars PROVE Inv'
  OBVIOUS
<1>1. CASE \E ch \in Channels : ProviderStep(ch) \/ FallSilent(ch)
  <2> PICK ch \in Channels : ProviderStep(ch) \/ FallSilent(ch)
    BY <1>1
  <2>1. ASSUME NEW id \in StreamIds, NEW sym \in Symbols,
               ProcessItemRequest(ch, id, sym)
        PROVE  Inv'
    BY <2>1, RequestKeepsInv
  <2>2. ASSUME NEW id \in StreamIds, ProcessItemClose(ch, id)
        PROVE  Inv'
    BY <2>2, CloseKeepsInv
  <2> QED
    BY <2>1, <2>2, ConnectionStepKeepsInv, RemoveKeepsInv DEF ProviderStep
<1>2. CASE Spin
  BY <1>2, StutterKeepsInv DEF Spin
<1>3. CASE ClientStep
  BY <1>3, SubscribeKeepsInv, GetItemKeepsInv, AddItemKeepsInv
  DEF ClientStep
<1>4. CASE UNCHANGED vars
  BY <1>4, StutterKeepsInv
<1> QED
  BY <1>1, <1>2, <1>3, <1>4 DEF Next

LEMMA InvAlways == Spec => []Inv
BY InvInit, InvNext, PTL DEF Spec

-----------------------------------------------------------------------------
(* The publisher's variables keep their types: a flag is never left on a   *)
(* place of the table that is free, and what taking streams off leaves is  *)
(* a list of streams (ResetClientConnection, RemoveChannel).               *)
THEOREM PublisherTypeCorrect == Spec => []TypeOK
<1>1. Inv => TypeOK
  BY DEF Inv
<1> QED
  BY <1>1, InvAlways, PTL

(* An open stream is listed with its item, and on a channel that keeps to  *)
(* one stream per item nothing else is (channelMap_, streamIdMap_).        *)
THEOREM PublisherRecordsAgree == Spec => []RecordsAgree
<1>1. Inv => RecordsAgree
  <2> SUFFICES ASSUME Inv, NEW sym \in Symbols, NEW ch \in OneStreamPerItem
               PROVE  /\ ToSet(refreshStreams[sym][ch]) = OpenStreams(ch, sym)
                      /\ Len(refreshStreams[sym][ch])
                           = Cardinality(OpenStreams(ch, sym))
    BY DEF RecordsAgree, ListedIsOpen, Inv
  <2>1. CASE refreshStreams[sym][ch] = <<>> /\ OpenStreams(ch, sym) = {}
    <3>1. Len(<<>>) = 0 /\ Cardinality({}) = 0 /\ ToSet(<<>>) = {}
      BY FS_EmptySet DEF ToSet
    <3> QED
      BY <2>1, <3>1
  <2>2. ASSUME NEW id \in StreamIds, refreshStreams[sym][ch] = <<id>>,
               OpenStreams(ch, sym) = {id}
        PROVE  /\ ToSet(refreshStreams[sym][ch]) = OpenStreams(ch, sym)
               /\ Len(refreshStreams[sym][ch])
                    = Cardinality(OpenStreams(ch, sym))
    <3>1. Len(<<id>>) = 1 /\ Cardinality({id}) = 1
      BY FS_Singleton
    <3>2. ToSet(<<id>>) = {id}
      <4>1. DOMAIN <<id>> = {1} /\ <<id>>[1] = id
        OBVIOUS
      <4> QED
        BY <4>1 DEF ToSet
    <3> QED
      BY <2>2, <3>1, <3>2
  <2> QED
    BY <2>1, <2>2 DEF Inv, SingleStream
<1> QED
  BY <1>1, InvAlways, PTL

(* An item some consumer has open is one the client was told to publish    *)
(* and not told to stop (RequestItem, CloseItem).                          *)
THEOREM PublisherWantedIsTold == Spec => []WantedIsTold
<1>1. Inv => WantedIsTold
  BY DEF Inv
<1> QED
  BY <1>1, InvAlways, PTL

(* The client is told to stop when no consumer wants the item any more,    *)
(* whatever the consumers and their connections did before.                *)
THEOREM PublisherToldIsWanted == Spec => []ToldIsWanted
<1>1. Inv => ToldIsWanted
  <2> SUFFICES ASSUME Inv, ~spinning, NEW sym \in told
               PROVE  \/ IsWanted(sym)
                      \/ \E ch \in ItemChannels \ OneStreamPerItem :
                           refreshStreams[sym][ch] # <<>>
    BY DEF ToldIsWanted
  <2>1. sym \in Symbols
    BY DEF Inv, TypeOK
  <2>2. PICK ch \in ItemChannels : refreshStreams[sym][ch] # <<>>
    BY DEF Inv, ToldIsListed
  <2>3. CASE ch \in OneStreamPerItem
    <3>1. OpenStreams(ch, sym) # {}
      BY <2>1, <2>2, <2>3 DEF Inv, SingleStream
    <3> QED
      BY <2>3, <3>1, NullChannelApart DEF IsWanted
  <2> QED
    BY <2>2, <2>3
<1> QED
  BY <1>1, InvAlways, PTL
=============================================================================
