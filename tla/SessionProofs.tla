---------------------------- MODULE SessionProofs ----------------------------
(* What a session asks for and tells its client, for any number of         *)
(* services, hosts, troubles and lost connections.                         *)
EXTENDS Session, FiniteSetTheorems, FunctionTheorems, SequenceTheorems, TLAPS

-----------------------------------------------------------------------------
(* The inductive invariant, in four parts.  First the types: what is in    *)
(* the queue and on the wire.                                              *)

Requests ==
  [op : {"open"}, service : Services]
    \cup [op : {"login", "directory", "dictionary", "ask"}, service : {None}]

Directories == UNION {[set -> BOOLEAN] : set \in SUBSET Services}

\* The refresh of the directory names every service.
WireMessages ==
  [kind : {"login"}, msg : LoginMessages]
    \cup [kind : {"directory"}, refresh : {TRUE}, decodes : BOOLEAN,
          up : [Services -> BOOLEAN]]
    \cup [kind : {"directory"}, refresh : {FALSE}, decodes : BOOLEAN,
          up : Directories]
    \cup [kind : {"dictionary"}, part : Parts, decodes : BOOLEAN]
    \cup [kind : {"image"}, service : Services]

Types ==
  /\ queue \in Seq(Requests) /\ waiting \in Seq(Names)
  /\ wire \in Seq(WireMessages)
  /\ source \in [Services -> {"unknown", "down", "up"}]
  /\ item \in [Services -> {"none", "Subscribing", "Live", "Stale"}]
  /\ serviceUp \in [Services -> BOOLEAN]
  /\ flags \in LoginFlags /\ loaded \subseteq Parts
  /\ connected \in BOOLEAN /\ recovering \in BOOLEAN
  /\ early \in BOOLEAN /\ inSuspect \in BOOLEAN

-----------------------------------------------------------------------------
(* Second, the connection: while there is no active channel there is       *)
(* nothing at the other end.                                               *)

Unconnected == {"connect", "init", "closed", "recover", "ended"}
Nothing == wire = <<>> /\ asked = {} /\ standing = "none" /\ requested = {}

Connection ==
  /\ phase \in Unconnected => channel # "active"
  /\ phase = "ended" => link = "none"
  /\ channel # "active" => Nothing
  /\ phase # "ended" => (connected <=> channel = "active")

-----------------------------------------------------------------------------
(* Third, what the directory has to do with the items.  A message i of the *)
(* wire that says that s is up, or down:                                   *)
Says(i, s, b) == /\ wire[i].kind = "directory" /\ wire[i].decodes
                 /\ s \in DOMAIN wire[i].up /\ wire[i].up[s] = b

\* When the first n messages have been read, s is up: there is one that
\* says so after any that says it is down.
UpAfter(n, s) ==
  /\ source[s] = "up" \/ \E k \in 1 .. n : Says(k, s, TRUE)
  /\ \A j \in 1 .. n :
       Says(j, s, FALSE) => \E k \in 1 .. n : j < k /\ Says(k, s, TRUE)

IsImage(i, s) == wire[i].kind = "image" /\ wire[i].service = s

\* An image finds its service up when it is read, and so would one that the
\* RMDS sent now.
ImagesMeetSource ==
  /\ ~early => \A i \in 1 .. Len(wire), s \in Services :
                 IsImage(i, s) => UpAfter(i - 1, s)
  /\ link = "up" /\ standing = "listening" =>
       \A s \in Services : serviceUp[s] => UpAfter(Len(wire), s)

\* Who has the directory on the way has it all.
DirectoryStands ==
  \A i \in 1 .. Len(wire) :
    wire[i].kind = "directory" /\ wire[i].decodes => standing = "listening"

Known == \A s \in Services : source[s] # "unknown"

\* The states that follow the directory, and the items asked for in them.
AfterDirectory ==
  /\ subscriberState = "requestingDictionary"
       => connected /\ Known /\ (phase # "ended" => standing = "listening")
  /\ subscriberState = "live" => ~recovering
  /\ subscriberState = "live" /\ ~early
       => connected /\ Known /\ (phase # "ended" => standing = "listening")
ItemsAfterDirectory ==
  ~early /\ phase # "ended" =>
    /\ \A s \in Services : item[s] = "Subscribing" => standing = "listening"
    /\ asked \cap Services # {} => standing = "listening"

\* Without a connection no item is more than stale, and there is none
\* unless it is to be asked for again.
ItemsWithout ==
  ~connected /\ ~early =>
    \A s \in Services : \/ item[s] = "none"
                        \/ item[s] = "Stale" /\ recovering

Sources == /\ ImagesMeetSource /\ DirectoryStands /\ AfterDirectory
           /\ ItemsAfterDirectory /\ ItemsWithout /\ LiveHasSource

-----------------------------------------------------------------------------
(* Fourth, the requests of the items.                                      *)

\* The RMDS has the request for s, or has answered it.
Answering(s) == s \in asked \/ \E i \in 1 .. Len(wire) : IsImage(i, s)

\* What was asked or answered was requested,
AskedRequested == \A s \in Services : Answering(s) => s \in requested
\* but never an item that nobody wants,
RequestedWanted ==
  \A s \in Services :
    item[s] = "none" => s \notin requested /\ s \notin pendingItems
\* nor any while the items wait to be asked for again.
RecoveryWaits ==
  recovering => requested = {} /\ \A s \in Services : item[s] # "Subscribing"

\* A subscription that waits is that of an item nobody has yet.
WaitingNew == Pending \cap ItemsInUse = {}

\* Every item in use is requested, or about to be,
NoneForgotten ==
  connected /\ link = "up" /\ ~early /\ ~recovering =>
    \A s \in ItemsInUse \ astray :
      s \in requested \/ (item[s] = "Subscribing" /\ OpenQueued(s))
\* and one that holds its place has its answer on the way.
PlacesAnswered ==
  link = "up" =>
    \A s \in (pendingItems \cap requested) \ astray :
      item[s] # "Live" /\ Answering(s)

Asking == /\ AskedRequested /\ RequestedWanted /\ RecoveryWaits
          /\ WaitingNew /\ NoneForgotten /\ PlacesAnswered
          /\ pendingItems \subseteq Services

-----------------------------------------------------------------------------
(* And what the client was told: the flag of a login marks every suspicion.*)
News ==
  /\ inSuspect => flags.suspect
  /\ told \in {"complete", "reconnect"} /\ ~early /\ ~doubted =>
       connected /\ ~flags.suspect /\ loaded = Parts

Inv == Types /\ Connection /\ Sources /\ Asking /\ News

-----------------------------------------------------------------------------
(* Helpers: sequences, sets of services as requests, and flags.            *)

LEMMA TailFacts ==
  ASSUME NEW S, NEW q \in Seq(S), q # <<>>
  PROVE  /\ Tail(q) \in Seq(S) /\ Head(q) \in S /\ Head(q) = q[1]
         /\ Len(q) \in Nat /\ Len(q) >= 1 /\ Len(Tail(q)) = Len(q) - 1
         /\ \A i \in 1 .. Len(q) - 1 : Tail(q)[i] = q[i + 1]
OBVIOUS

LEMMA AppendFacts ==
  ASSUME NEW S, NEW q \in Seq(S), NEW m \in S
  PROVE  /\ Append(q, m) \in Seq(S) /\ Len(q) \in Nat
         /\ Len(Append(q, m)) = Len(q) + 1
         /\ \A i \in 1 .. Len(q) : Append(q, m)[i] = q[i]
         /\ Append(q, m)[Len(q) + 1] = m
OBVIOUS

LEMMA ConcatFacts ==
  ASSUME NEW S, NEW q \in Seq(S), NEW r \in Seq(S)
  PROVE  /\ q \o r \in Seq(S) /\ Len(q) \in Nat /\ Len(r) \in Nat
         /\ Len(q \o r) = Len(q) + Len(r)
         /\ \A i \in 1 .. Len(q) : (q \o r)[i] = q[i]
         /\ \A i \in 1 .. Len(r) : (q \o r)[Len(q) + i] = r[i]
OBVIOUS

(* A finite set, as a sequence, has all its members. *)
LEMMA SeqOfSet ==
  ASSUME NEW S, IsFiniteSet(S)
  PROVE  /\ Cardinality(S) \in Nat
         /\ SetToSeq(S) \in [1 .. Cardinality(S) -> S]
         /\ \A x \in S : \E i \in 1 .. Cardinality(S) : SetToSeq(S)[i] = x
PROOF
<1> DEFINE n == Cardinality(S)
<1>1. n \in Nat
  BY FS_CardinalityType
<1>2. PICK f \in [1 .. n -> S] : IsInjective(f)
  <2>1. ExistsBijection(1 .. n, S)
    BY FS_CardinalityType
  <2>2. PICK g : g \in Bijection(1 .. n, S)
    BY <2>1 DEF ExistsBijection
  <2>3. /\ g \in [1 .. n -> S]
        /\ \A a, b \in 1 .. n : g[a] = g[b] => a = b
    BY <2>2, Fun_BijectionProperties
  <2> QED
    BY <2>3 DEF IsInjective
<1>3. SetToSeq(S) \in [1 .. n -> S] /\ IsInjective(SetToSeq(S))
  BY <1>2 DEF SetToSeq
<1>4. SetToSeq(S) \in Injection(1 .. n, S)
  BY <1>3, Fun_IsInj DEF IsInjective
<1>5. Cardinality(1 .. n) = n
  BY <1>1, FS_Interval
<1>6. SetToSeq(S) \in Surjection(1 .. n, S)
  BY <1>4, <1>5, FS_Injection
<1>7. \A x \in S : \E i \in 1 .. n : SetToSeq(S)[i] = x
  BY <1>6 DEF Surjection
<1> QED
  BY <1>1, <1>3, <1>7

(* The open requests of a set of items: requests, one for each of them. *)
LEMMA OpensFacts ==
  ASSUME NEW set \in SUBSET Services
  PROVE  /\ Opens(set) \in Seq(Requests) /\ Len(Opens(set)) \in Nat
         /\ \A s \in set : \E i \in 1 .. Len(Opens(set)) :
              Opens(set)[i] = Request("open", s)
PROOF
<1>1. IsFiniteSet(set)
  BY SessionAssumption, FS_Subset DEF SessionAssumption
<1>2. PICK n \in Nat : n = Cardinality(set)
  BY <1>1, SeqOfSet
<1>3. PICK f \in [1 .. n -> set] : f = SetToSeq(set)
  BY <1>1, <1>2, SeqOfSet
<1>4. Opens(set) = [i \in 1 .. n |-> Request("open", f[i])]
  BY <1>2, <1>3 DEF Opens
<1>5. \A i \in 1 .. n : Request("open", f[i]) \in Requests
  BY DEF Request, Requests
<1>6. Opens(set) \in [1 .. n -> Requests]
  BY <1>4, <1>5
<1>7. Opens(set) \in Seq(Requests) /\ Len(Opens(set)) = n
  BY <1>6
<1>8. \A s \in set : \E i \in 1 .. n : f[i] = s
  BY <1>1, <1>2, <1>3, SeqOfSet
<1> QED
  BY <1>4, <1>7, <1>8

LEMMA FlagsStay ==
  ASSUME NEW f \in LoginFlags, NEW m
  PROVE  FlagsAfter(f, m) \in LoginFlags
PROOF
<1>1. CASE Accepts(m)
  BY <1>1 DEF FlagsAfter, LoginFlags
<1>2. CASE ~Accepts(m) /\ Refuses(m)
  BY <1>2 DEF FlagsAfter, LoginFlags
<1>3. CASE ~Accepts(m) /\ ~Refuses(m) /\ m.class = "close"
  BY <1>3 DEF FlagsAfter, LoginFlags
<1>4. CASE ~Accepts(m) /\ ~Refuses(m) /\ m.class # "close"
  BY <1>4 DEF FlagsAfter, LoginFlags
<1> QED
  BY <1>1, <1>2, <1>3, <1>4

(* The requests without a service. *)
LEMMA PlainRequests ==
  \A op \in {"login", "directory", "dictionary", "ask"} :
    Request(op, None) \in Requests
BY DEF Request, Requests

-----------------------------------------------------------------------------
(* The types.                                                              *)

LEMMA RecoverTyped ==
  ASSUME Types, RecoverConnection
  PROVE  /\ wire' \in Seq(WireMessages)
         /\ item' \in [Services -> {"none", "Subscribing", "Live", "Stale"}]
         /\ connected' \in BOOLEAN /\ recovering' \in BOOLEAN
         /\ early' \in BOOLEAN
PROOF
<1>1. wire' = <<>> /\ connected' = FALSE
  BY DEF RecoverConnection, ConnectionLost
<1>2. StaleItems \in [Services -> {"none", "Subscribing", "Live", "Stale"}]
  BY DEF StaleItems
<1>3. /\ item' \in {item, StaleItems} /\ recovering' \in {recovering, TRUE}
      /\ early' \in {early, FALSE}
  BY DEF RecoverConnection, ConnectionLost
<1>4. wire' \in Seq(WireMessages)
  BY <1>1
<1> QED
  BY <1>1, <1>2, <1>3, <1>4 DEF Types

LEMMA DictionaryTyped ==
  ASSUME Types, NEW state, NEW q \in Seq(Requests),
         DictionaryComplete(state, q)
  PROVE  /\ early' \in BOOLEAN /\ recovering' = FALSE
         /\ queue' \in Seq(Requests)
PROOF
<1>1. Opens(ItemsInUse) \in Seq(Requests)
  BY OpensFacts DEF ItemsInUse
<1>2. queue' = q \/ queue' = q \o Opens(ItemsInUse)
  BY DEF DictionaryComplete
<1>3. queue' \in Seq(Requests)
  BY <1>1, <1>2, ConcatFacts
<1>4. early' \in BOOLEAN /\ recovering' = FALSE
  BY DEF DictionaryComplete
<1> QED
  BY <1>3, <1>4

LEMMA ItemsTyped ==
  ASSUME Types, NEW items \in [Services -> {"none", "Subscribing", "Live",
                                            "Stale"}], NEW up
  PROVE  /\ Resubscribed(items) \in [Services -> {"none", "Subscribing",
                                                  "Live", "Stale"}]
         /\ ItemsAfter(up) \in [Services -> {"none", "Subscribing", "Live",
                                             "Stale"}]
         /\ SetStates(up) =>
              source' \in [Services -> {"unknown", "down", "up"}]
BY DEF Types, Resubscribed, ItemsAfter, SetStates

\* All that Types speaks of.
typedVars == <<queue, waiting, wire, source, item, serviceUp, flags, loaded,
               connected, recovering, early, inSuspect>>

LEMMA TypesStay ==
  ASSUME Types, UNCHANGED typedVars
  PROVE  Types'
BY DEF Types, typedVars

LEMMA ConnectingTyped ==
  ASSUME Types, Connecting
  PROVE  Types'
PROOF
<1> USE DEF threadVars, channelVars, loginVars, stateVars, clientVars,
            itemVars, netVars, historyVars
<1>1. CASE ConnectRefused
  BY <1>1, TypesStay DEF ConnectRefused, typedVars
<1>2. CASE ConnectAccepted
  BY <1>2, TypesStay DEF ConnectAccepted, typedVars
<1>3. CASE InitFails
  <2>1. RecoverConnection /\ UNCHANGED <<queue, waiting, source, serviceUp,
                                         flags, loaded, inSuspect>>
    BY <1>3 DEF InitFails
  <2> QED
    BY <2>1, RecoverTyped DEF Types
<1>4. CASE ChannelActive
  <2>1. /\ UNCHANGED <<waiting, wire, source, item, serviceUp, flags, loaded,
                       recovering, early, inSuspect>>
        /\ connected' = TRUE
        /\ queue' = Append(queue, Request("login", None))
    BY <1>4 DEF ChannelActive
  <2>2. queue' \in Seq(Requests)
    BY <2>1, PlainRequests, AppendFacts DEF Types
  <2> QED
    BY <2>1, <2>2 DEF Types
<1> QED
  BY <1>1, <1>2, <1>3, <1>4 DEF Connecting

LEMMA PumpingTyped ==
  ASSUME Types, Pumping
  PROVE  Types'
PROOF
<1> USE DEF threadVars, channelVars, loginVars, stateVars, clientVars,
            itemVars, netVars, historyVars
<1>1. CASE Pump
  <2> DEFINE added == ProcessPending \cap KnownNow
  <2>1. /\ UNCHANGED <<wire, source, serviceUp, flags, loaded, connected,
                       recovering, early, inSuspect>>
        /\ item' = [s \in Services |-> IF s \in added THEN "Subscribing"
                                                      ELSE item[s]]
        /\ queue' = queue \o Opens(added)
        /\ waiting' = IF ProcessPending = {} THEN waiting ELSE <<>>
    BY <1>1 DEF Pump
  <2>2. added \in SUBSET Services
    BY DEF KnownNow
  <2> HIDE DEF added
  <2>3. queue' \in Seq(Requests)
    BY <2>1, <2>2, OpensFacts, ConcatFacts DEF Types
  <2>4. waiting' \in Seq(Names)
    BY <2>1 DEF Types
  <2>5. item' \in [Services -> {"none", "Subscribing", "Live", "Stale"}]
    BY <2>1 DEF Types
  <2> QED
    BY <2>1, <2>3, <2>4, <2>5 DEF Types
<1>2. CASE PumpDone
  BY <1>2, TypesStay DEF PumpDone, typedVars
<1>3. CASE DispatchLogin \/ DispatchDirectory \/ DispatchDictionary
           \/ DispatchOpen
  <2>1. /\ UNCHANGED <<waiting, wire, source, item, serviceUp, flags, loaded,
                       connected, recovering, early, inSuspect>>
        /\ queue # <<>> /\ queue' = Tail(queue)
    BY <1>3 DEF DispatchLogin, DispatchDirectory, DispatchDictionary, Send,
                DispatchOpen, Dispatching
  <2>2. queue' \in Seq(Requests)
    BY <2>1, TailFacts DEF Types
  <2> QED
    BY <2>1, <2>2 DEF Types
<1>4. CASE DispatchAsk
  <2>1. /\ UNCHANGED <<waiting, wire, source, serviceUp, flags, loaded,
                       connected, inSuspect>>
        /\ queue # <<>>
    BY <1>4 DEF DispatchAsk, Dispatching
  <2>2. Tail(queue) \in Seq(Requests)
    BY <2>1, TailFacts DEF Types
  <2>3. CASE Complete(loaded)
    <3>1. /\ DictionaryComplete(subscriberState, Tail(queue))
          /\ item' = Resubscribed(item)
      BY <1>4, <2>3 DEF DispatchAsk
    <3>2. /\ early' \in BOOLEAN /\ recovering' = FALSE
          /\ queue' \in Seq(Requests)
      BY <3>1, <2>2, DictionaryTyped
    <3>3. item' \in [Services -> {"none", "Subscribing", "Live", "Stale"}]
      BY <3>1, ItemsTyped DEF Types
    <3> QED
      BY <2>1, <3>2, <3>3 DEF Types
  <2>4. CASE ~Complete(loaded)
    <3>1. queue' = Tail(queue) /\ UNCHANGED <<early, recovering, item>>
      BY <1>4, <2>4 DEF DispatchAsk
    <3> QED
      BY <2>1, <2>2, <3>1 DEF Types
  <2> QED
    BY <2>3, <2>4
<1> QED
  BY <1>1, <1>2, <1>3, <1>4 DEF Pumping

LEMMA ReadMessageTyped ==
  ASSUME Types, ReadMessage
  PROVE  Types'
PROOF
<1> USE DEF threadVars, channelVars, loginVars, stateVars, clientVars,
            itemVars, netVars, historyVars, readVars
<1>1. wire # <<>>
  BY DEF ReadMessage, ReadLogin, ReadLoginRecover, ReadDirectory,
         ReadDirectoryUpdate, ReadBadDirectory, ReadDictionary, ReadImage,
         Reading
<1> DEFINE m == Head(wire)
<1>2. m \in WireMessages /\ Tail(wire) \in Seq(WireMessages)
  BY <1>1, TailFacts DEF Types
<1>3. Append(queue, Request("directory", None)) \in Seq(Requests)
  BY PlainRequests, AppendFacts DEF Types
<1>4. CASE ReadLogin
  <2>1. UNCHANGED <<waiting, source, item, serviceUp, loaded, connected,
                    recovering, early>>
    BY <1>4 DEF ReadLogin
  <2>2. wire' = Tail(wire)
    BY <1>4 DEF ReadLogin, ReadOn
  <2>3. flags' = FlagsAfter(flags, m.msg) /\ LoginResponse(LoginNotice(m.msg))
    BY <1>4 DEF ReadLogin
  <2>4. flags' \in LoginFlags
    BY <2>3, FlagsStay DEF Types
  <2>5. queue' \in {queue, Append(queue, Request("directory", None))}
    BY <2>3 DEF LoginResponse
  <2>6. inSuspect' \in BOOLEAN
    BY <1>4 DEF ReadLogin
  <2> HIDE DEF m
  <2> QED
    BY <1>2, <1>3, <2>1, <2>2, <2>4, <2>5, <2>6 DEF Types
<1>5. CASE ReadLoginRecover
  <2>1. /\ RecoverConnection
        /\ UNCHANGED <<waiting, source, serviceUp, loaded, inSuspect>>
        /\ flags' = FlagsAfter(flags, m.msg)
        /\ queue' \in {queue, Append(queue, Request("directory", None))}
    BY <1>5 DEF ReadLoginRecover
  <2>2. flags' \in LoginFlags
    BY <2>1, FlagsStay DEF Types
  <2> HIDE DEF m
  <2> QED
    BY <1>3, <2>1, <2>2, RecoverTyped DEF Types
<1>6. CASE ReadDirectory
  <2>1. /\ UNCHANGED <<waiting, serviceUp, flags, loaded, connected,
                       inSuspect>>
        /\ SetStates(m.up)
    BY <1>6 DEF ReadDirectory
  <2>2. wire' = Tail(wire)
    BY <1>6 DEF ReadDirectory, ReadOn
  <2>3. source' \in [Services -> {"unknown", "down", "up"}]
    BY <2>1, ItemsTyped DEF Types
  <2>4. ItemsAfter(m.up) \in [Services -> {"none", "Subscribing", "Live",
                                           "Stale"}]
    BY ItemsTyped DEF Types
  <2>5. CASE Complete(loaded)
    <3>1. /\ DictionaryComplete("requestingDictionary", queue)
          /\ item' = Resubscribed(ItemsAfter(m.up))
      BY <1>6, <2>5 DEF ReadDirectory
    <3>2. /\ early' \in BOOLEAN /\ recovering' = FALSE
          /\ queue' \in Seq(Requests)
      BY <3>1, DictionaryTyped DEF Types
    <3>3. item' \in [Services -> {"none", "Subscribing", "Live", "Stale"}]
      BY <3>1, <2>4, ItemsTyped
    <3> HIDE DEF m
    <3> QED
      BY <1>2, <2>1, <2>2, <2>3, <3>2, <3>3 DEF Types
  <2>6. CASE ~Complete(loaded)
    <3>1. /\ queue' = Append(queue, Request("dictionary", None))
          /\ item' = ItemsAfter(m.up) /\ UNCHANGED <<early, recovering>>
      BY <1>6, <2>6 DEF ReadDirectory
    <3>2. queue' \in Seq(Requests)
      BY <3>1, PlainRequests, AppendFacts DEF Types
    <3> HIDE DEF m
    <3> QED
      BY <1>2, <2>1, <2>2, <2>3, <2>4, <3>1, <3>2 DEF Types
  <2> QED
    BY <2>5, <2>6
<1>7. CASE ReadDirectoryUpdate
  <2>1. /\ UNCHANGED <<queue, waiting, serviceUp, flags, loaded, connected,
                       recovering, early, inSuspect>>
        /\ SetStates(m.up) /\ item' = ItemsAfter(m.up)
    BY <1>7 DEF ReadDirectoryUpdate
  <2>2. wire' = Tail(wire)
    BY <1>7 DEF ReadDirectoryUpdate, ReadOn
  <2>3. /\ source' \in [Services -> {"unknown", "down", "up"}]
        /\ item' \in [Services -> {"none", "Subscribing", "Live", "Stale"}]
    BY <2>1, ItemsTyped DEF Types
  <2> HIDE DEF m
  <2> QED
    BY <1>2, <2>1, <2>2, <2>3 DEF Types
<1>8. CASE ReadBadDirectory
  <2>1. /\ UNCHANGED <<queue, waiting, source, item, serviceUp, flags, loaded,
                       connected, recovering, early, inSuspect>>
        /\ wire' = Tail(wire)
    BY <1>8 DEF ReadBadDirectory
  <2> HIDE DEF m
  <2> QED
    BY <1>2, <2>1 DEF Types
<1>9. CASE ReadDictionary
  <2>1. UNCHANGED <<waiting, source, serviceUp, flags, connected, inSuspect>>
    BY <1>9 DEF ReadDictionary
  <2>2. wire' = Tail(wire) /\ m.kind = "dictionary"
    BY <1>9 DEF ReadDictionary, ReadOn, Reading
  <2>3. m.part \in Parts
    BY <1>2, <2>2 DEF WireMessages
  <2>4. CASE m.decodes /\ Complete(loaded \cup {m.part})
    <3>1. /\ DictionaryComplete(subscriberState, queue)
          /\ item' = Resubscribed(item) /\ loaded' = loaded \cup {m.part}
      BY <1>9, <2>4 DEF ReadDictionary
    <3>2. /\ early' \in BOOLEAN /\ recovering' = FALSE
          /\ queue' \in Seq(Requests)
      BY <3>1, DictionaryTyped DEF Types
    <3>3. item' \in [Services -> {"none", "Subscribing", "Live", "Stale"}]
      BY <3>1, ItemsTyped DEF Types
    <3> HIDE DEF m
    <3> QED
      BY <1>2, <2>1, <2>2, <2>3, <3>1, <3>2, <3>3 DEF Types
  <2>5. CASE ~(m.decodes /\ Complete(loaded \cup {m.part}))
    <3>1. /\ UNCHANGED <<item, early, recovering, queue>>
          /\ loaded' \in {loaded, loaded \cup {m.part}}
      BY <1>9, <2>5 DEF ReadDictionary
    <3> HIDE DEF m
    <3> QED
      BY <1>2, <2>1, <2>2, <2>3, <3>1 DEF Types
  <2> QED
    BY <2>4, <2>5
<1>10. CASE ReadImage
  <2>1. UNCHANGED <<queue, waiting, source, serviceUp, flags, loaded,
                    connected, recovering, early, inSuspect>>
    BY <1>10 DEF ReadImage
  <2>2. wire' = Tail(wire)
    BY <1>10 DEF ReadImage, ReadOn
  <2>3. item' = item \/ item' = [item EXCEPT ![m.service] = "Live"]
    BY <1>10 DEF ReadImage
  <2>4. item' \in [Services -> {"none", "Subscribing", "Live", "Stale"}]
    BY <2>3 DEF Types
  <2> HIDE DEF m
  <2> QED
    BY <1>2, <2>1, <2>2, <2>4 DEF Types
<1> QED
  BY <1>4, <1>5, <1>6, <1>7, <1>8, <1>9, <1>10 DEF ReadMessage

LEMMA TurningTyped ==
  ASSUME Types, ReadPing \/ Closing \/ Turning
  PROVE  Types'
PROOF
<1> USE DEF threadVars, channelVars, loginVars, stateVars, clientVars,
            itemVars, netVars, historyVars
<1>1. CASE ReadPing \/ Reconnect \/ ReadDone \/ PingsNotDue
  BY <1>1, TypesStay DEF ReadPing, Reconnect, ReadDone, PingsNotDue, typedVars
<1>2. CASE RunEnds
  <2>1. wire' = <<>> /\ UNCHANGED <<queue, waiting, source, item, serviceUp,
          flags, loaded, connected, recovering, early, inSuspect>>
    BY <1>2 DEF RunEnds
  <2>2. wire' \in Seq(WireMessages)
    BY <2>1
  <2> QED
    BY <2>1, <2>2 DEF Types
<1>3. CASE CheckReceived /\ receivedServerMsg
  BY <1>3, TypesStay DEF CheckReceived, typedVars
<1>4. CASE ReadFails \/ ReadAfterClose \/ PingFails
           \/ (CheckReceived /\ ~receivedServerMsg)
  <2>1. RecoverConnection /\ UNCHANGED <<queue, waiting, source, serviceUp,
                                         flags, loaded, inSuspect>>
    BY <1>4 DEF ReadFails, ReadAfterClose, PingFails, CheckReceived
  <2> QED
    BY <2>1, RecoverTyped DEF Types
<1> QED
  BY <1>1, <1>2, <1>3, <1>4 DEF Closing, Turning

LEMMA ClientTyped ==
  ASSUME Types, Client \/ UNCHANGED vars
  PROVE  Types'
PROOF
<1> USE DEF threadVars, channelVars, loginVars, stateVars, clientVars,
            itemVars, netVars, historyVars, stoppedVars
<1>1. ASSUME NEW s \in Names, Subscribe(s)
      PROVE  Types'
  <2>1. /\ waiting' = Append(waiting, s)
        /\ UNCHANGED <<queue, wire, source, item, serviceUp, flags, loaded,
                       connected, recovering, early, inSuspect>>
    BY <1>1 DEF Subscribe
  <2>2. waiting' \in Seq(Names)
    BY <2>1, AppendFacts DEF Types
  <2> QED
    BY <2>1, <2>2 DEF Types
<1>2. CASE AskDictionary
  <2>1. /\ queue' = Append(queue, Request("ask", None))
        /\ UNCHANGED <<waiting, wire, source, item, serviceUp, flags, loaded,
                       connected, recovering, early, inSuspect>>
    BY <1>2 DEF AskDictionary
  <2>2. queue' \in Seq(Requests)
    BY <2>1, PlainRequests, AppendFacts DEF Types
  <2> QED
    BY <2>1, <2>2 DEF Types
<1>3. CASE Stop
  BY <1>3, TypesStay DEF Stop, typedVars
<1>4. CASE UNCHANGED vars
  BY <1>4, TypesStay DEF vars, typedVars
<1> QED
  BY <1>1, <1>2, <1>3, <1>4 DEF Client

(* The messages the RMDS sends. *)
LEMMA MessagesTyped ==
  ASSUME Types
  PROVE  /\ LoginTroubles \subseteq WireMessages
         /\ LoginMsg("refresh", "ok", TRUE, TRUE) \in WireMessages
         /\ \A b, c \in BOOLEAN : DirectoryMsg(b, c, serviceUp) \in WireMessages
         /\ \A part \in Parts, b \in BOOLEAN :
              [kind |-> "dictionary", part |-> part, decodes |-> b]
                \in WireMessages
         /\ \A s \in Services :
              /\ [kind |-> "image", service |-> s] \in WireMessages
              /\ \A b \in BOOLEAN :
                   DirectoryMsg(FALSE, TRUE, [t \in {s} |-> b])
                     \in WireMessages
PROOF
<1>1. \A class, state, b, c :
        LoginMsg(class, state, b, c)
          = [kind |-> "login", msg |-> [class |-> class, state |-> state,
                                        solicited |-> b, decodes |-> c]]
  BY DEF LoginMsg
<1>2. \A state \in LoginStates, c \in BOOLEAN :
        \A b \in BOOLEAN : LoginMsg("refresh", state, b, c) \in WireMessages
  BY <1>1 DEF LoginMessages, WireMessages
<1>3. \A state \in LoginStates, class \in {"status", "close", "other"} :
        LoginMsg(class, state, FALSE, TRUE) \in WireMessages
  BY <1>1 DEF LoginMessages, WireMessages
<1>4. "ok" \in LoginStates
  BY DEF LoginStates
<1>5. LoginTroubles \subseteq WireMessages
  BY <1>2, <1>3, <1>4 DEF LoginTroubles
<1>6. serviceUp \in [Services -> BOOLEAN]
  BY DEF Types
<1>7. serviceUp \in Directories
  BY <1>6 DEF Directories
<1>8. \A b, c \in BOOLEAN : DirectoryMsg(b, c, serviceUp) \in WireMessages
  BY <1>6, <1>7 DEF DirectoryMsg, WireMessages
<1>9. \A s \in Services, b \in BOOLEAN :
        DirectoryMsg(FALSE, TRUE, [t \in {s} |-> b]) \in WireMessages
  <2> TAKE s \in Services, b \in BOOLEAN
  <2>1. [t \in {s} |-> b] \in [{s} -> BOOLEAN] /\ {s} \in SUBSET Services
    OBVIOUS
  <2>2. [t \in {s} |-> b] \in Directories
    BY <2>1 DEF Directories
  <2> QED
    BY <2>2 DEF DirectoryMsg, WireMessages
<1>10. \A part \in Parts, b \in BOOLEAN :
         [kind |-> "dictionary", part |-> part, decodes |-> b] \in WireMessages
  BY DEF WireMessages
<1>11. \A s \in Services : [kind |-> "image", service |-> s] \in WireMessages
  BY DEF WireMessages
<1>12. LoginMsg("refresh", "ok", TRUE, TRUE) \in WireMessages
  BY <1>2, <1>4
<1> QED
  BY <1>5, <1>8, <1>9, <1>10, <1>11, <1>12

(* A step of the RMDS sends one of those messages, or none. *)
LEMMA RMDSSends ==
  ASSUME Types, RMDS
  PROVE  \/ wire' = wire
         \/ \E m \in WireMessages : wire' = Append(wire, m)
PROOF
<1> DEFINE Sent == \/ wire' = wire
                   \/ \E m \in WireMessages : wire' = Append(wire, m)
<1>1. CASE AnswerLogin \/ AnswerLoginBadly \/ LoginChanges
  <2>1. \E m \in LoginTroubles \cup {LoginMsg("refresh", "ok", TRUE, TRUE)} :
          wire' = Append(wire, m)
    BY <1>1 DEF AnswerLogin, AnswerLoginBadly, LoginChanges, Answers
  <2> QED
    BY <2>1, MessagesTyped
<1>2. CASE AnswerDirectory \/ AnswerDirectoryBadly \/ BadUpdate
  <2>1. \E b, c \in BOOLEAN : wire' = Append(wire, DirectoryMsg(b, c, serviceUp))
    BY <1>2 DEF AnswerDirectory, AnswerDirectoryBadly, BadUpdate, Answers
  <2> QED
    BY <2>1, MessagesTyped
<1>3. CASE AnswerDictionary
  <2>1. \E part \in Parts, b \in BOOLEAN :
          wire' = Append(wire, [kind |-> "dictionary", part |-> part,
                                decodes |-> b])
    BY <1>3 DEF AnswerDictionary, Answers
  <2> QED
    BY <2>1, MessagesTyped
<1>4. CASE AnswerItem
  <2>1. \E s \in Services :
          wire' = Append(wire, [kind |-> "image", service |-> s])
    BY <1>4 DEF AnswerItem, Answers
  <2> QED
    BY <2>1, MessagesTyped
<1>5. CASE ServiceChanges
  <2>1. PICK s \in Services :
          wire' = IF link = "up" /\ standing = "listening"
                    THEN Append(wire, DirectoryMsg(FALSE, TRUE,
                                        [t \in {s} |-> ~serviceUp[s]]))
                    ELSE wire
    BY <1>5 DEF ServiceChanges
  <2>2. PICK b \in BOOLEAN : b = ~serviceUp[s]
    OBVIOUS
  <2>3. DirectoryMsg(FALSE, TRUE, [t \in {s} |-> b]) \in WireMessages
    BY MessagesTyped
  <2> QED
    BY <2>1, <2>2, <2>3
<1>6. CASE LinkFails
  BY <1>6 DEF LinkFails
<1> QED
  BY <1>1, <1>2, <1>3, <1>4, <1>5, <1>6 DEF RMDS

LEMMA RMDSTyped ==
  ASSUME Types, RMDS
  PROVE  Types'
PROOF
<1>1. UNCHANGED rmdsVars
  BY DEF RMDS, AnswerLogin, AnswerLoginBadly, LoginChanges, AnswerDirectory,
         AnswerDirectoryBadly, AnswerDictionary, AnswerItem, ServiceChanges,
         BadUpdate, LinkFails, Answers
<1>2. wire' \in Seq(WireMessages)
  <2>1. wire \in Seq(WireMessages)
    BY DEF Types
  <2>2. ASSUME NEW m \in WireMessages, wire' = Append(wire, m)
        PROVE  wire' \in Seq(WireMessages)
    BY <2>1, <2>2, AppendFacts
  <2> QED
    BY <2>1, <2>2, RMDSSends
<1>3. serviceUp' \in [Services -> BOOLEAN]
  <2>1. \/ serviceUp' = serviceUp
        \/ \E s \in Services : serviceUp' = [serviceUp EXCEPT ![s] = ~serviceUp[s]]
    BY DEF RMDS, AnswerLogin, AnswerLoginBadly, LoginChanges, AnswerDirectory,
           AnswerDirectoryBadly, AnswerDictionary, AnswerItem, ServiceChanges,
           BadUpdate, LinkFails, Answers
  <2> QED
    BY <2>1 DEF Types
<1> QED
  BY <1>1, <1>2, <1>3
  DEF Types, rmdsVars, threadVars, channelVars, loginVars, stateVars,
      clientVars, itemVars, historyVars

LEMMA TypesStep ==
  ASSUME Types, [Next]_vars
  PROVE  Types'
BY ConnectingTyped, PumpingTyped, ReadMessageTyped, TurningTyped, ClientTyped,
   RMDSTyped DEF Next, Thread

-----------------------------------------------------------------------------
(* The connection.                                                         *)

connectionVars == <<phase, channel, connected, standing, asked, wire,
                    requested, link>>

LEMMA ConnectionStays ==
  ASSUME Connection, UNCHANGED connectionVars
  PROVE  Connection'
BY DEF Connection, Nothing, Unconnected, connectionVars

(* What RecoverConnection leaves. *)
LEMMA RecoveredNothing ==
  ASSUME RecoverConnection
  PROVE  /\ Nothing' /\ Connection' /\ channel' = "none" /\ link' = "none"
         /\ connected' = FALSE
BY DEF RecoverConnection, ConnectionLost, Connection, Nothing

LEMMA ConnectingConnected ==
  ASSUME Connection, Connecting
  PROVE  Connection'
PROOF
<1> USE DEF Connection, Nothing, Unconnected
<1>1. CASE ConnectRefused
  BY <1>1 DEF ConnectRefused, threadVars, stateVars, netVars
<1>2. CASE ConnectAccepted
  BY <1>2 DEF ConnectAccepted, stateVars
<1>3. CASE InitFails
  BY <1>3, RecoveredNothing DEF InitFails
<1>4. CASE ChannelActive
  BY <1>4 DEF ChannelActive, netVars
<1> QED
  BY <1>1, <1>2, <1>3, <1>4 DEF Connecting

LEMMA PumpingConnected ==
  ASSUME Connection, Pumping
  PROVE  Connection'
PROOF
<1> USE DEF Connection, Nothing, Unconnected
<1>1. CASE Pump
  BY <1>1 DEF Pump, channelVars, stateVars, netVars
<1>2. CASE PumpDone
  BY <1>2 DEF PumpDone, channelVars, stateVars, netVars
<1>3. ASSUME NEW op, NEW what, Send(op, what)
      PROVE  Connection'
  <2>1. /\ UNCHANGED <<phase, channel, connected, standing, wire, requested,
                       link>>
        /\ asked' = asked \cup (IF Delivers THEN what ELSE {})
    BY <1>3 DEF Send, channelVars, stateVars
  <2> QED
    BY <2>1 DEF Delivers
<1>4. CASE DispatchOpen
  <2>1. /\ UNCHANGED <<phase, channel, connected, standing, wire, link>>
        /\ channel # "active" => UNCHANGED <<asked, requested>>
    BY <1>4 DEF DispatchOpen, channelVars, stateVars
  <2> QED
    BY <2>1
<1>5. CASE DispatchAsk
  BY <1>5 DEF DispatchAsk, channelVars, netVars
<1> QED
  BY <1>1, <1>2, <1>3, <1>4, <1>5
  DEF Pumping, DispatchLogin, DispatchDirectory, DispatchDictionary

LEMMA ReadingConnected ==
  ASSUME Connection, ReadMessage
  PROVE  Connection'
PROOF
<1>1. CASE ReadLoginRecover
  BY <1>1, RecoveredNothing DEF ReadLoginRecover
<1>2. ASSUME ~ReadLoginRecover
      PROVE  Connection'
  <2>1. phase = "read" /\ channel = "active"
    BY <1>2 DEF ReadMessage, ReadLogin, ReadDirectory, ReadDirectoryUpdate,
                ReadBadDirectory, ReadDictionary, ReadImage, Reading
  <2>2. /\ UNCHANGED <<channel, connected, standing, asked, requested, link>>
        /\ phase' \in {phase, "pings"}
    BY <1>2 DEF ReadMessage, ReadLogin, ReadDirectory, ReadDirectoryUpdate,
                ReadBadDirectory, ReadDictionary, ReadImage, ReadOn,
                ReadFailed, channelVars, stateVars
  <2> QED
    BY <2>1, <2>2 DEF Connection, Unconnected
<1> QED
  BY <1>1, <1>2

LEMMA TurningConnected ==
  ASSUME Connection, ReadPing \/ Closing \/ Turning
  PROVE  Connection'
PROOF
<1> USE DEF Connection, Nothing, Unconnected
<1>1. CASE ReadPing
  BY <1>1 DEF ReadPing, threadVars, channelVars, stateVars, netVars
<1>2. CASE Reconnect
  BY <1>2 DEF Reconnect, channelVars, stateVars, netVars
<1>3. CASE ReadDone
  BY <1>3 DEF ReadDone, channelVars, stateVars, netVars
<1>4. CASE PingsNotDue
  BY <1>4 DEF PingsNotDue, channelVars, stateVars, netVars
<1>5. CASE RunEnds
  BY <1>5 DEF RunEnds
<1>6. CASE CheckReceived /\ receivedServerMsg
  BY <1>6 DEF CheckReceived, channelVars, stateVars, netVars
<1>7. CASE ReadFails \/ ReadAfterClose \/ PingFails
           \/ (CheckReceived /\ ~receivedServerMsg)
  <2>1. RecoverConnection
    BY <1>7 DEF ReadFails, ReadAfterClose, PingFails, CheckReceived
  <2> QED
    BY <2>1, RecoveredNothing
<1> QED
  BY <1>1, <1>2, <1>3, <1>4, <1>5, <1>6, <1>7 DEF Closing, Turning

LEMMA OthersConnected ==
  ASSUME Connection, Client \/ RMDS \/ UNCHANGED vars
  PROVE  Connection'
PROOF
<1>1. CASE Client
  <2>1. UNCHANGED stoppedVars /\ UNCHANGED connected
    BY <1>1 DEF Client, Subscribe, AskDictionary, Stop, stateVars
  <2> QED
    BY <2>1, ConnectionStays
    DEF stoppedVars, connectionVars, channelVars, netVars
<1>2. CASE UNCHANGED vars
  BY <1>2, ConnectionStays
  DEF vars, connectionVars, threadVars, channelVars, stateVars, netVars
<1>3. CASE RMDS
  <2>1. UNCHANGED <<phase, channel, connected, requested>>
    <3>1. UNCHANGED rmdsVars
      BY <1>3 DEF RMDS, AnswerLogin, AnswerLoginBadly, LoginChanges,
                  AnswerDirectory, AnswerDirectoryBadly, AnswerDictionary,
                  AnswerItem, ServiceChanges, BadUpdate, LinkFails, Answers
    <3> QED
      BY <3>1 DEF rmdsVars, threadVars, channelVars, stateVars
  <2>2. CASE ServiceChanges
    <3>1. /\ UNCHANGED <<asked, standing, link>>
          /\ ~(link = "up" /\ standing = "listening") => wire' = wire
      BY <2>2 DEF ServiceChanges
    <3> QED
      BY <2>1, <3>1 DEF Connection, Nothing
  <2>3. CASE ~ServiceChanges
    <3>1. /\ link = "up"
          /\ asked # {} \/ standing # "none" \/ channel = "active"
      BY <1>3, <2>3 DEF RMDS, AnswerLogin, AnswerLoginBadly, LoginChanges,
                  AnswerDirectory, AnswerDirectoryBadly, AnswerDictionary,
                  AnswerItem, BadUpdate, LinkFails, Answers
    <3> QED
      BY <2>1, <3>1 DEF Connection, Nothing
  <2> QED
    BY <2>2, <2>3
<1> QED
  BY <1>1, <1>2, <1>3

LEMMA ConnectionStep ==
  ASSUME Connection, [Next]_vars
  PROVE  Connection'
BY ConnectingConnected, PumpingConnected, ReadingConnected, TurningConnected,
   OthersConnected DEF Next, Thread

-----------------------------------------------------------------------------
(* What the wire says of a service, as it is read and as it grows.         *)

LEMMA WireRead ==
  ASSUME Types, wire # <<>>, wire' = Tail(wire)
  PROVE  /\ Len(wire) \in Nat /\ Len(wire) >= 1 /\ Len(wire') = Len(wire) - 1
         /\ Head(wire) = wire[1] /\ wire[1] \in WireMessages
         /\ \A i \in 1 .. Len(wire) - 1 : wire'[i] = wire[i + 1]
BY TailFacts DEF Types

LEMMA WireSent ==
  ASSUME Types, NEW m \in WireMessages, wire' = Append(wire, m)
  PROVE  /\ Len(wire) \in Nat /\ Len(wire') = Len(wire) + 1
         /\ wire'[Len(wire) + 1] = m
         /\ \A i \in 1 .. Len(wire) : wire'[i] = wire[i]
BY AppendFacts DEF Types

(* Reading the first message does to the source what it says. *)
DoesAsSaid(s) ==
  Says(1, s, TRUE) \/ (source[s] = "up" /\ ~Says(1, s, FALSE))
    => source'[s] = "up"

LEMMA UpAfterRead ==
  ASSUME Types, wire # <<>>, wire' = Tail(wire), NEW s, DoesAsSaid(s),
         NEW n \in 1 .. Len(wire), UpAfter(n, s)
  PROVE  UpAfter(n - 1, s)'
PROOF
<1>1. PICK len \in Nat : /\ len = Len(wire)
                         /\ \A i \in 1 .. len - 1 : wire'[i] = wire[i + 1]
  BY WireRead
<1>2. n \in Nat /\ n >= 1 /\ n <= len
  BY <1>1
<1>3. \A i \in 1 .. len - 1 : \A b : Says(i, s, b)' <=> Says(i + 1, s, b)
  BY <1>1 DEF Says
<1>4. ASSUME NEW k \in 1 .. n, k # 1, Says(k, s, TRUE)
      PROVE  k - 1 \in 1 .. n - 1 /\ Says(k - 1, s, TRUE)'
  <2>1. k - 1 \in 1 .. len - 1 /\ k - 1 \in 1 .. n - 1 /\ (k - 1) + 1 = k
    BY <1>2, <1>4
  <2> QED
    BY <1>3, <1>4, <2>1
<1>5. source'[s] = "up" \/ \E k \in 1 .. n - 1 : Says(k, s, TRUE)'
  <2>1. CASE Says(1, s, FALSE)
    <3>0. 1 \in 1 .. n
      BY <1>2
    <3>1. PICK k \in 1 .. n : 1 < k /\ Says(k, s, TRUE)
      BY <2>1, <3>0 DEF UpAfter
    <3>2. k # 1
      BY <3>1
    <3> QED
      BY <1>4, <3>1, <3>2
  <2>2. CASE ~Says(1, s, FALSE) /\ source[s] = "up"
    BY <2>2 DEF DoesAsSaid
  <2>3. CASE \E k \in 1 .. n : Says(k, s, TRUE)
    <3>1. PICK k \in 1 .. n : Says(k, s, TRUE)
      BY <2>3
    <3>2. CASE k = 1
      BY <3>1, <3>2 DEF DoesAsSaid
    <3>3. CASE k # 1
      BY <1>4, <3>1, <3>3
    <3> QED
      BY <3>2, <3>3
  <2> QED
    BY <2>1, <2>2, <2>3 DEF UpAfter
<1>6. ASSUME NEW j \in 1 .. n - 1, Says(j, s, FALSE)'
      PROVE  \E k \in 1 .. n - 1 : j < k /\ Says(k, s, TRUE)'
  <2>1. j \in 1 .. len - 1 /\ j + 1 \in 1 .. n
    BY <1>2
  <2>2. Says(j + 1, s, FALSE)
    BY <1>3, <1>6, <2>1
  <2>3. PICK k \in 1 .. n : j + 1 < k /\ Says(k, s, TRUE)
    BY <2>1, <2>2 DEF UpAfter
  <2>4. k # 1 /\ j < k - 1
    BY <1>2, <2>1, <2>3
  <2> QED
    BY <1>4, <2>3, <2>4
<1> QED
  BY <1>5, <1>6 DEF UpAfter

LEMMA UpAfterSent ==
  ASSUME Types, NEW m \in WireMessages, wire' = Append(wire, m),
         source' = source, NEW s, NEW n \in 0 .. Len(wire), UpAfter(n, s)
  PROVE  UpAfter(n, s)'
PROOF
<1>1. PICK len \in Nat : /\ len = Len(wire)
                         /\ \A i \in 1 .. len : wire'[i] = wire[i]
  BY WireSent
<1>2. \A i \in 1 .. n : wire'[i] = wire[i]
  BY <1>1
<1>3. \A i \in 1 .. n : \A b : Says(i, s, b)' <=> Says(i, s, b)
  BY <1>2 DEF Says
<1> QED
  BY <1>3 DEF UpAfter

LEMMA UpAfterQuiet ==
  ASSUME Types, NEW m \in WireMessages, wire' = Append(wire, m),
         source' = source, NEW s, NEW len \in Nat, len = Len(wire),
         UpAfter(len, s), ~Says(len + 1, s, FALSE)'
  PROVE  UpAfter(len + 1, s)'
PROOF
<1>1. UpAfter(len, s)'
  BY UpAfterSent
<1>2. 1 .. len + 1 = (1 .. len) \cup {len + 1}
  OBVIOUS
<1> QED
  BY <1>1, <1>2 DEF UpAfter

LEMMA UpAfterSaid ==
  ASSUME NEW s, NEW len \in Nat, Says(len + 1, s, TRUE)'
  PROVE  UpAfter(len + 1, s)'
PROOF
<1>1. ~Says(len + 1, s, FALSE)'
  BY DEF Says
<1>2. ASSUME NEW j \in 1 .. len + 1, Says(j, s, FALSE)'
      PROVE  \E k \in 1 .. len + 1 : j < k /\ Says(k, s, TRUE)'
  <2>1. j # len + 1
    BY <1>1, <1>2
  <2>2. j < len + 1 /\ len + 1 \in 1 .. len + 1
    BY <2>1
  <2> QED
    BY <2>2
<1>3. len + 1 \in 1 .. len + 1
  OBVIOUS
<1>4. \E k \in 1 .. len + 1 : Says(k, s, TRUE)'
  BY <1>3
<1> QED
  BY <1>2, <1>4 DEF UpAfter

-----------------------------------------------------------------------------
(* Images meet their source.                                               *)

LEMMA ImagesStay ==
  ASSUME ImagesMeetSource, UNCHANGED <<wire, source, serviceUp>>,
         ~early' => ~early,
         link' = "up" /\ standing' = "listening"
           => link = "up" /\ standing = "listening"
  PROVE  ImagesMeetSource'
BY DEF ImagesMeetSource, UpAfter, Says, IsImage

LEMMA ImagesGone ==
  ASSUME wire' = <<>>, link' = "none"
  PROVE  ImagesMeetSource'
BY DEF ImagesMeetSource

LEMMA ImagesRead ==
  ASSUME Types, ImagesMeetSource, wire # <<>>, wire' = Tail(wire),
         \A s \in Services : DoesAsSaid(s),
         UNCHANGED <<link, standing, serviceUp>>, ~early' => ~early
  PROVE  ImagesMeetSource'
PROOF
<1>1. PICK len \in Nat : /\ len = Len(wire) /\ len >= 1
                         /\ Len(wire') = len - 1
                         /\ \A i \in 1 .. len - 1 : wire'[i] = wire[i + 1]
  BY WireRead
<1>2. ASSUME ~early', NEW i \in 1 .. Len(wire'), NEW s \in Services,
             IsImage(i, s)'
      PROVE  UpAfter(i - 1, s)'
  <2>1. i \in 1 .. len - 1 /\ i + 1 \in 1 .. len /\ (i + 1) - 1 = i
        /\ i \in 1 .. Len(wire)
    BY <1>1
  <2>2. IsImage(i + 1, s)
    BY <1>1, <1>2, <2>1 DEF IsImage
  <2>3. UpAfter((i + 1) - 1, s)
    BY <1>1, <1>2, <2>1, <2>2 DEF ImagesMeetSource
  <2> QED
    BY <2>1, <2>3, UpAfterRead
<1>3. ASSUME link' = "up", standing' = "listening", NEW s \in Services,
             serviceUp'[s]
      PROVE  UpAfter(len - 1, s)'
  <2>1. UpAfter(len, s) /\ len \in 1 .. Len(wire)
    BY <1>1, <1>3 DEF ImagesMeetSource
  <2> QED
    BY <2>1, UpAfterRead
<1> QED
  BY <1>1, <1>2, <1>3 DEF ImagesMeetSource

(* The RMDS sends something: an image only of a service that is up, and    *)
(* of what it knows of the services nothing but the truth.                 *)
LEMMA ImagesSent ==
  ASSUME Types, ImagesMeetSource, NEW m \in WireMessages,
         wire' = Append(wire, m), UNCHANGED <<source, early>>,
         NEW len \in Nat, len = Len(wire),
         \A s \in Services : m.kind = "image" /\ m.service = s /\ ~early
                               => UpAfter(len, s),
         \A s \in Services :
           link' = "up" /\ standing' = "listening" /\ serviceUp'[s] =>
             \/ Says(len + 1, s, TRUE)'
             \/ ~Says(len + 1, s, FALSE)' /\ UpAfter(len, s)
  PROVE  ImagesMeetSource'
PROOF
<1>1. /\ Len(wire') = len + 1 /\ wire'[len + 1] = m
      /\ \A i \in 1 .. len : wire'[i] = wire[i]
  BY WireSent
<1>2. ASSUME ~early', NEW i \in 1 .. Len(wire'), NEW s \in Services,
             IsImage(i, s)'
      PROVE  UpAfter(i - 1, s)'
  <2>1. CASE i = len + 1
    <3>1. m.kind = "image" /\ m.service = s
      BY <1>1, <1>2, <2>1 DEF IsImage
    <3>2. UpAfter(len, s) /\ len \in 0 .. Len(wire)
      BY <1>1, <1>2, <3>1
    <3>3. UpAfter(len, s)'
      BY <3>2, UpAfterSent
    <3>4. i - 1 = len
      BY <1>1, <2>1
    <3> QED
      BY <3>3, <3>4
  <2>2. CASE i # len + 1
    <3>1. i \in 1 .. len /\ i - 1 \in 0 .. Len(wire) /\ i \in 1 .. Len(wire)
      BY <1>1, <2>2
    <3>2. IsImage(i, s)
      BY <1>1, <1>2, <3>1 DEF IsImage
    <3>3. UpAfter(i - 1, s)
      BY <1>2, <3>1, <3>2 DEF ImagesMeetSource
    <3> QED
      BY <3>1, <3>3, UpAfterSent
  <2> QED
    BY <2>1, <2>2
<1>3. ASSUME link' = "up", standing' = "listening", NEW s \in Services,
             serviceUp'[s]
      PROVE  UpAfter(len + 1, s)'
  BY <1>3, UpAfterSaid, UpAfterQuiet
<1> QED
  BY <1>1, <1>2, <1>3 DEF ImagesMeetSource

(* A message that is not of the directory, or cannot be decoded, says      *)
(* nothing of the sources.                                                 *)
LEMMA DoesNothing ==
  ASSUME wire # <<>>, source' = source,
         ~(wire[1].kind = "directory" /\ wire[1].decodes)
  PROVE  \A s \in Services : DoesAsSaid(s)
BY DEF DoesAsSaid, Says

(* The directory's messages that can be decoded set the sources. *)
LEMMA DirectoryShape ==
  ASSUME NEW m \in WireMessages, m.kind = "directory"
  PROVE  /\ DOMAIN m.up \subseteq Services
         /\ \A s \in DOMAIN m.up : m.up[s] \in BOOLEAN
         /\ m.refresh => DOMAIN m.up = Services
PROOF
<1>1. CASE m \in [kind : {"directory"}, refresh : {TRUE}, decodes : BOOLEAN,
                  up : [Services -> BOOLEAN]]
  BY <1>1
<1>2. CASE m \in [kind : {"directory"}, refresh : {FALSE}, decodes : BOOLEAN,
                  up : Directories]
  <2>1. m.up \in Directories /\ m.refresh = FALSE
    BY <1>2
  <2>2. PICK set \in SUBSET Services : m.up \in [set -> BOOLEAN]
    BY <2>1 DEF Directories
  <2> QED
    BY <2>1, <2>2
<1> QED
  BY <1>1, <1>2 DEF WireMessages

LEMMA DoesSetStates ==
  ASSUME Types, wire # <<>>, wire[1] \in WireMessages,
         wire[1].kind = "directory", wire[1].decodes, SetStates(wire[1].up)
  PROVE  \A s \in Services : DoesAsSaid(s)
PROOF
<1>1. \A s \in DOMAIN wire[1].up : wire[1].up[s] \in BOOLEAN
  BY DirectoryShape
<1> QED
  BY <1>1 DEF DoesAsSaid, Says, SetStates

-----------------------------------------------------------------------------
(* The directory and the items.                                            *)

LEMMA DirectoryRead ==
  ASSUME Types, DirectoryStands, wire # <<>>, wire' = Tail(wire),
         standing' = standing
  PROVE  DirectoryStands'
PROOF
<1>1. PICK len \in Nat : /\ len = Len(wire) /\ Len(wire') = len - 1
                         /\ \A i \in 1 .. len - 1 : wire'[i] = wire[i + 1]
  BY WireRead
<1>2. ASSUME NEW i \in 1 .. len - 1
      PROVE  i + 1 \in 1 .. len /\ wire'[i] = wire[i + 1]
  BY <1>1
<1> QED
  BY <1>1, <1>2 DEF DirectoryStands

(* Steps that change none of it: the channel may change, and the thread may *)
(* move, though not to its end.                                            *)
LEMMA SourcesStay ==
  ASSUME Sources,
         UNCHANGED <<wire, source, serviceUp, subscriberState, connected,
                     recovering, item, early, standing>>,
         phase = "ended" => phase' = "ended",
         asked' \cap Services \subseteq asked \cap Services,
         link' = "up" /\ standing = "listening" => link = "up"
  PROVE  Sources'
PROOF
<1>1. ImagesMeetSource'
  BY ImagesStay DEF Sources
<1>2. DirectoryStands'
  BY DEF Sources, DirectoryStands
<1>3. AfterDirectory'
  BY DEF Sources, AfterDirectory, Known
<1>4. ItemsAfterDirectory'
  BY DEF Sources, ItemsAfterDirectory
<1>5. ItemsWithout' /\ LiveHasSource'
  BY DEF Sources, ItemsWithout, LiveHasSource
<1> QED
  BY <1>1, <1>2, <1>3, <1>4, <1>5 DEF Sources

(* A connection that is lost leaves stale items, that are to be recovered. *)
LEMMA RecoveredItems ==
  ASSUME Types, ItemsWithout, RecoverConnection
  PROVE  /\ ~early' => \A s \in Services :
                         \/ item'[s] = "none"
                         \/ item'[s] = "Stale" /\ recovering'
         /\ subscriberState' \notin {"requestingDictionary", "live"}
PROOF
<1>1. CASE connected
  BY <1>1 DEF RecoverConnection, ConnectionLost, StaleItems
<1>2. CASE ~connected
  BY <1>2 DEF RecoverConnection, ConnectionLost, ItemsWithout
<1> QED
  BY <1>1, <1>2

LEMMA RecoveredSources ==
  ASSUME Types, Sources, RecoverConnection
  PROVE  Sources'
PROOF
<1>1. /\ wire' = <<>> /\ link' = "none" /\ connected' = FALSE /\ asked' = {}
  BY DEF RecoverConnection, ConnectionLost
<1>2. ItemsWithout
  BY DEF Sources
<1>3. ImagesMeetSource'
  BY <1>1, ImagesGone
<1>4. DirectoryStands'
  BY <1>1 DEF DirectoryStands
<1>5. AfterDirectory'
  BY <1>2, RecoveredItems DEF AfterDirectory
<1>6. ItemsAfterDirectory' /\ ItemsWithout' /\ LiveHasSource'
  BY <1>1, <1>2, RecoveredItems
  DEF ItemsAfterDirectory, ItemsWithout, LiveHasSource
<1> QED
  BY <1>3, <1>4, <1>5, <1>6 DEF Sources

(* DictionaryUpdate(true), wherever it is called from. *)
LEMMA DictionarySources ==
  ASSUME NEW state, NEW q, DictionaryComplete(state, q),
         NEW items, item' = Resubscribed(items),
         ~early /\ state \in {"requestingDictionary", "live"}
           => connected' /\ Known' /\ standing' = "listening",
         ~early => \A s \in Services :
                     items[s] = "Live" => connected' /\ source'[s] = "up"
  PROVE  /\ AfterDirectory' /\ ItemsAfterDirectory' /\ ItemsWithout'
         /\ LiveHasSource'
PROOF
<1>1. /\ subscriberState' = "live" /\ recovering' = FALSE
      /\ early' = (early \/ state \notin {"requestingDictionary", "live"})
  BY DEF DictionaryComplete
<1>2. ~early' => connected' /\ Known' /\ standing' = "listening"
  BY <1>1
<1>3. \A s \in Services : item'[s] = "Live" => items[s] = "Live"
  BY DEF Resubscribed
<1>4. LiveHasSource'
  BY <1>1, <1>3 DEF LiveHasSource
<1> QED
  BY <1>1, <1>2, <1>4
  DEF AfterDirectory, ItemsAfterDirectory, ItemsWithout

(* SetState of the services a message names: who is live still has one. *)
LEMMA StatesSet ==
  ASSUME Types, LiveHasSource, connected, NEW m \in WireMessages,
         m.kind = "directory", SetStates(m.up)
  PROVE  /\ Known => Known'
         /\ m.refresh => Known'
         /\ \A s \in Services :
              ItemsAfter(m.up)[s] = "Subscribing" => item[s] = "Subscribing"
         /\ ~early => \A s \in Services :
                        ItemsAfter(m.up)[s] = "Live" => source'[s] = "up"
PROOF
<1>1. /\ DOMAIN m.up \subseteq Services
      /\ \A s \in DOMAIN m.up : m.up[s] \in BOOLEAN
      /\ m.refresh => DOMAIN m.up = Services
  BY DirectoryShape
<1>2. \A s \in Services :
        source'[s] = IF s \notin DOMAIN m.up THEN source[s]
                     ELSE IF m.up[s] THEN "up" ELSE "down"
  BY DEF SetStates
<1>3. \A s \in Services :
        source[s] \in {"unknown", "down", "up"}
  BY DEF Types
<1>4. ASSUME NEW s \in Services
      PROVE  ItemsAfter(m.up)[s]
               = CASE item[s] # "none" /\ s \in WentDown(m.up) -> "Stale"
                   [] item[s] # "none" /\ s \in WentUp(m.up) -> "Live"
                   [] OTHER -> item[s]
  BY DEF ItemsAfter
<1>5. \A s \in WentDown(m.up) \cap WentUp(m.up) : FALSE
  BY DEF WentDown, WentUp
<1>6. ASSUME NEW s \in Services, ItemsAfter(m.up)[s] = "Subscribing"
      PROVE  item[s] = "Subscribing"
  BY <1>4, <1>5, <1>6
<1>7. ASSUME ~early, NEW s \in Services, ItemsAfter(m.up)[s] = "Live"
      PROVE  source'[s] = "up"
  <2>1. CASE s \in WentUp(m.up)
    BY <1>2, <2>1 DEF WentUp
  <2>2. CASE s \notin WentUp(m.up) /\ s \notin WentDown(m.up)
    <3>1. item[s] = "Live"
      BY <1>4, <1>7, <2>2
    <3>2. source[s] = "up"
      BY <1>7, <3>1 DEF LiveHasSource
    <3> QED
      BY <1>1, <1>2, <2>2, <3>2 DEF WentDown
  <2>3. CASE s \in WentDown(m.up)
    <3>1. item[s] = "none"
      BY <1>4, <1>5, <1>7, <2>3
    <3>2. ItemsAfter(m.up)[s] = "none"
      BY <1>4, <1>5, <2>3, <3>1
    <3> QED
      BY <1>7, <3>2
  <2> QED
    BY <2>1, <2>2, <2>3
<1> QED
  BY <1>1, <1>2, <1>6, <1>7 DEF Known

-----------------------------------------------------------------------------
(* The steps.                                                              *)

LEMMA ConnectingSources ==
  ASSUME Types, Connection, Sources, Connecting
  PROVE  Sources'
PROOF
<1> USE DEF threadVars, channelVars, loginVars, stateVars, clientVars,
            itemVars, netVars, historyVars
<1>1. CASE ConnectRefused
  BY <1>1, SourcesStay DEF ConnectRefused
<1>2. CASE ConnectAccepted
  <2>1. standing = "none" /\ phase = "connect" /\ phase' = "init"
    BY <1>2 DEF ConnectAccepted, Connection, Unconnected, Nothing
  <2>2. UNCHANGED <<wire, source, serviceUp, subscriberState, connected,
                    recovering, item, early, standing, asked>>
    BY <1>2 DEF ConnectAccepted
  <2> QED
    BY <2>1, <2>2, SourcesStay
<1>3. CASE InitFails
  BY <1>3, RecoveredSources DEF InitFails
<1>4. CASE ChannelActive
  <2>1. /\ ~connected /\ asked = {} /\ phase = "init"
    BY <1>4 DEF ChannelActive, Connection, Unconnected, Nothing
  <2>2. /\ UNCHANGED <<wire, source, serviceUp, link, standing, asked, item,
                       early>>
        /\ connected' = TRUE /\ subscriberState' = "loggingin"
        /\ phase' = "pump"
    BY <1>4 DEF ChannelActive
  <2>3. ImagesMeetSource'
    BY <2>2, ImagesStay DEF Sources
  <2>4. DirectoryStands'
    BY <2>2 DEF Sources, DirectoryStands
  <2>5. AfterDirectory'
    BY <2>2 DEF AfterDirectory
  <2>6. ItemsAfterDirectory'
    BY <2>1, <2>2 DEF Sources, ItemsAfterDirectory, ItemsWithout
  <2>7. ItemsWithout' /\ LiveHasSource'
    BY <2>2 DEF Sources, ItemsWithout, LiveHasSource
  <2> QED
    BY <2>3, <2>4, <2>5, <2>6, <2>7 DEF Sources
<1> QED
  BY <1>1, <1>2, <1>3, <1>4 DEF Connecting

LEMMA PumpingSources ==
  ASSUME Types, Connection, Sources, Pumping
  PROVE  Sources'
PROOF
<1> USE DEF threadVars, channelVars, loginVars, stateVars, clientVars,
            itemVars, netVars, historyVars
<1>1. CASE Pump
  <2> DEFINE added == ProcessPending \cap KnownNow
  <2>1. /\ UNCHANGED <<wire, source, serviceUp, link, standing, asked, early,
                       subscriberState, connected, recovering>>
        /\ phase = "pump" /\ phase' = "dispatch"
        /\ \A s \in Services :
             item'[s] = IF s \in added THEN "Subscribing" ELSE item[s]
    BY <1>1 DEF Pump
  <2>2. added # {} => subscriberState = "live"
    BY DEF ProcessPending
  <2> HIDE DEF added
  <2>3. ImagesMeetSource'
    BY <2>1, ImagesStay DEF Sources
  <2>4. DirectoryStands' /\ AfterDirectory'
    BY <2>1 DEF Sources, DirectoryStands, AfterDirectory, Known
  <2>5. added # {} /\ ~early => connected /\ standing = "listening"
    BY <2>1, <2>2 DEF Sources, AfterDirectory
  <2>6. ItemsAfterDirectory'
    BY <2>1, <2>5 DEF Sources, ItemsAfterDirectory
  <2>7. ItemsWithout' /\ LiveHasSource'
    BY <2>1, <2>5 DEF Sources, ItemsWithout, LiveHasSource
  <2> QED
    BY <2>3, <2>4, <2>6, <2>7 DEF Sources
<1>2. CASE PumpDone
  <2>1. phase = "dispatch"
    BY <1>2 DEF PumpDone
  <2> QED
    BY <1>2, <2>1, SourcesStay DEF PumpDone
<1>3. CASE DispatchLogin \/ DispatchDirectory \/ DispatchDictionary
  <2>1. PICK what \in SUBSET ({"login", "directory"} \cup Parts) :
          asked' = asked \cup (IF Delivers THEN what ELSE {})
    BY <1>3 DEF DispatchLogin, DispatchDirectory, DispatchDictionary, Send
  <2>2. asked' \cap Services \subseteq asked \cap Services
    BY <2>1, SessionAssumption DEF SessionAssumption
  <2>3. UNCHANGED <<wire, source, serviceUp, subscriberState, connected,
                    recovering, item, early, standing, phase, link>>
    BY <1>3 DEF DispatchLogin, DispatchDirectory, DispatchDictionary, Send
  <2> QED
    BY <2>2, <2>3, SourcesStay
<1>4. CASE DispatchOpen
  <2>1. /\ UNCHANGED <<wire, source, serviceUp, subscriberState, connected,
                       recovering, item, early, standing, phase, link>>
        /\ phase = "dispatch"
    BY <1>4 DEF DispatchOpen, Dispatching
  <2> DEFINE s == Head(queue).service
  <2>2. asked' = asked \/ (asked' = asked \cup {s} /\ item[s] = "Subscribing")
    BY <1>4 DEF DispatchOpen
  <2>3. s \in Services
    <3>1. Head(queue) \in Requests /\ Head(queue).op = "open"
      BY <1>4, TailFacts DEF DispatchOpen, Dispatching, Types
    <3> QED
      BY <3>1 DEF Requests
  <2> HIDE DEF s
  <2>4. ItemsAfterDirectory'
    BY <2>1, <2>2, <2>3 DEF Sources, ItemsAfterDirectory
  <2>5. ImagesMeetSource'
    BY <2>1, ImagesStay DEF Sources
  <2>6. /\ DirectoryStands' /\ AfterDirectory' /\ ItemsWithout'
        /\ LiveHasSource'
    BY <2>1 DEF Sources, DirectoryStands, AfterDirectory, Known, ItemsWithout,
                LiveHasSource
  <2> QED
    BY <2>4, <2>5, <2>6 DEF Sources
<1>5. CASE DispatchAsk
  <2>1. /\ UNCHANGED <<wire, source, serviceUp, connected, standing, phase,
                       link, asked>>
        /\ phase = "dispatch"
    BY <1>5 DEF DispatchAsk, Dispatching
  <2>2. CASE Complete(loaded)
    <3>1. /\ DictionaryComplete(subscriberState, Tail(queue))
          /\ item' = Resubscribed(item)
      BY <1>5, <2>2 DEF DispatchAsk
    <3>2. ~early' => ~early
      BY <3>1 DEF DictionaryComplete
    <3>3. ImagesMeetSource' /\ DirectoryStands'
      BY <2>1, <3>2, ImagesStay DEF Sources, DirectoryStands
    <3>4. ~early /\ subscriberState \in {"requestingDictionary", "live"}
            => connected' /\ Known' /\ standing' = "listening"
      BY <2>1 DEF Sources, AfterDirectory, Known
    <3>5. ~early => \A s \in Services :
                      item[s] = "Live" => connected' /\ source'[s] = "up"
      BY <2>1 DEF Sources, LiveHasSource
    <3>6. /\ AfterDirectory' /\ ItemsAfterDirectory' /\ ItemsWithout'
          /\ LiveHasSource'
      BY <3>1, <3>4, <3>5, DictionarySources
    <3> QED
      BY <3>3, <3>6 DEF Sources
  <2>3. CASE ~Complete(loaded)
    BY <1>5, <2>1, <2>3, SourcesStay DEF DispatchAsk
  <2> QED
    BY <2>2, <2>3
<1> QED
  BY <1>1, <1>2, <1>3, <1>4, <1>5 DEF Pumping

LEMMA ReadingSources ==
  ASSUME Types, Connection, Sources, ReadMessage
  PROVE  Sources'
PROOF
<1> USE DEF threadVars, channelVars, loginVars, stateVars, clientVars,
            itemVars, netVars, historyVars, readVars
<1>1. CASE ReadLoginRecover
  BY <1>1, RecoveredSources DEF ReadLoginRecover
<1> SUFFICES ASSUME ~ReadLoginRecover PROVE Sources'
  BY <1>1
<1>2. /\ wire # <<>> /\ phase = "read" /\ channel = "active"
      /\ wire' = Tail(wire) /\ phase' \in {"read", "pings"}
      /\ UNCHANGED <<link, standing, serviceUp, asked, connected>>
  BY DEF ReadMessage, ReadLogin, ReadDirectory, ReadDirectoryUpdate,
         ReadBadDirectory, ReadDictionary, ReadImage, Reading, ReadOn,
         ReadFailed
<1>3. connected /\ connected' /\ wire[1] \in WireMessages
      /\ Head(wire) = wire[1]
  BY <1>2, WireRead DEF Connection
<1>4. DirectoryStands'
  BY <1>2, DirectoryRead DEF Sources
<1>5. ItemsWithout'
  BY <1>3 DEF ItemsWithout
<1> DEFINE m == wire[1]
<1>6. m.kind = "directory" /\ m.decodes => standing = "listening"
  <2>1. 1 \in 1 .. Len(wire)
    BY <1>2, WireRead
  <2> QED
    BY <2>1 DEF Sources, DirectoryStands
<1>7. CASE ReadLogin \/ ReadBadDirectory
  <2>1. /\ UNCHANGED <<source, item, early, recovering>>
        /\ ~(m.kind = "directory" /\ m.decodes)
    BY <1>3, <1>7 DEF ReadLogin, ReadBadDirectory, Reading
  <2>2. subscriberState' \in {subscriberState, "requestingSourceDirectory",
                              "unconnected"}
    BY <1>7 DEF ReadLogin, LoginResponse, ReadBadDirectory
  <2>3. ImagesMeetSource'
    BY <1>2, <2>1, DoesNothing, ImagesRead DEF Sources
  <2>4. AfterDirectory'
    BY <1>2, <1>3, <2>1, <2>2 DEF Sources, AfterDirectory, Known
  <2>5. ItemsAfterDirectory' /\ LiveHasSource'
    BY <1>2, <2>1 DEF Sources, ItemsAfterDirectory, LiveHasSource
  <2> QED
    BY <1>4, <1>5, <2>3, <2>4, <2>5 DEF Sources
<1>8. CASE ReadDirectory
  <2>1. /\ m.kind = "directory" /\ m.decodes /\ m.refresh /\ SetStates(m.up)
    BY <1>3, <1>8 DEF ReadDirectory, Reading
  <2>2. /\ Known'
        /\ \A s \in Services :
             ItemsAfter(m.up)[s] = "Subscribing" => item[s] = "Subscribing"
        /\ ~early => \A s \in Services :
             ItemsAfter(m.up)[s] = "Live" => source'[s] = "up"
    BY <1>3, <2>1, StatesSet DEF Sources
  <2>3. ~early' => ~early
    BY <1>8 DEF ReadDirectory, DictionaryComplete
  <2>4. ImagesMeetSource'
    BY <1>2, <1>3, <2>1, <2>3, DoesSetStates, ImagesRead DEF Sources
  <2>5. CASE Complete(loaded)
    <3>1. /\ DictionaryComplete("requestingDictionary", queue)
          /\ item' = Resubscribed(ItemsAfter(m.up))
      BY <1>3, <1>8, <2>5 DEF ReadDirectory
    <3>2. /\ AfterDirectory' /\ ItemsAfterDirectory' /\ LiveHasSource'
      BY <1>2, <1>3, <1>6, <2>1, <2>2, <3>1, DictionarySources
    <3> QED
      BY <1>4, <1>5, <2>4, <3>2 DEF Sources
  <2>6. CASE ~Complete(loaded)
    <3>1. /\ subscriberState' = "requestingDictionary"
          /\ item' = ItemsAfter(m.up) /\ UNCHANGED <<early, recovering>>
      BY <1>3, <1>8, <2>6 DEF ReadDirectory
    <3>2. AfterDirectory'
      BY <1>2, <1>3, <1>6, <2>1, <2>2, <3>1 DEF AfterDirectory
    <3>3. ItemsAfterDirectory' /\ LiveHasSource'
      BY <1>2, <1>3, <1>6, <2>1, <2>2, <3>1
      DEF ItemsAfterDirectory, LiveHasSource
    <3> QED
      BY <1>4, <1>5, <2>4, <3>2, <3>3 DEF Sources
  <2> QED
    BY <2>5, <2>6
<1>9. CASE ReadDirectoryUpdate
  <2>1. /\ m.kind = "directory" /\ m.decodes /\ SetStates(m.up)
        /\ item' = ItemsAfter(m.up)
        /\ UNCHANGED <<early, recovering, subscriberState>>
    BY <1>3, <1>9 DEF ReadDirectoryUpdate, Reading
  <2>2. /\ Known => Known'
        /\ ~early => \A s \in Services :
             ItemsAfter(m.up)[s] = "Live" => source'[s] = "up"
    BY <1>3, <2>1, StatesSet DEF Sources
  <2>3. ImagesMeetSource'
    BY <1>2, <1>3, <2>1, DoesSetStates, ImagesRead DEF Sources
  <2>4. AfterDirectory'
    BY <1>2, <1>3, <1>6, <2>1, <2>2 DEF Sources, AfterDirectory
  <2>5. ItemsAfterDirectory' /\ LiveHasSource'
    BY <1>2, <1>3, <1>6, <2>1, <2>2
    DEF Sources, ItemsAfterDirectory, LiveHasSource
  <2> QED
    BY <1>4, <1>5, <2>3, <2>4, <2>5 DEF Sources
<1>10. CASE ReadDictionary
  <2>1. /\ UNCHANGED source /\ m.kind = "dictionary"
    BY <1>3, <1>10 DEF ReadDictionary, Reading
  <2>2. ~early' => ~early
    BY <1>10 DEF ReadDictionary, DictionaryComplete
  <2>3. ImagesMeetSource'
    BY <1>2, <2>1, <2>2, DoesNothing, ImagesRead DEF Sources
  <2>4. CASE m.decodes /\ Complete(loaded')
    <3>1. /\ DictionaryComplete(subscriberState, queue)
          /\ item' = Resubscribed(item)
      BY <1>3, <1>10, <2>4 DEF ReadDictionary
    <3>2. ~early /\ subscriberState \in {"requestingDictionary", "live"}
            => connected' /\ Known' /\ standing' = "listening"
      BY <1>2, <1>3, <2>1 DEF Sources, AfterDirectory, Known
    <3>3. ~early => \A s \in Services :
                      item[s] = "Live" => connected' /\ source'[s] = "up"
      BY <1>3, <2>1 DEF Sources, LiveHasSource
    <3>4. AfterDirectory' /\ ItemsAfterDirectory' /\ LiveHasSource'
      BY <3>1, <3>2, <3>3, DictionarySources
    <3> QED
      BY <1>4, <1>5, <2>3, <3>4 DEF Sources
  <2>5. CASE ~(m.decodes /\ Complete(loaded'))
    <3>1. /\ UNCHANGED <<item, early, recovering>>
          /\ subscriberState' \in {subscriberState, "unconnected"}
      BY <1>3, <1>10, <2>5 DEF ReadDictionary
    <3>2. AfterDirectory'
      BY <1>2, <1>3, <2>1, <3>1 DEF Sources, AfterDirectory, Known
    <3>3. ItemsAfterDirectory' /\ LiveHasSource'
      BY <1>2, <2>1, <3>1 DEF Sources, ItemsAfterDirectory, LiveHasSource
    <3> QED
      BY <1>4, <1>5, <2>3, <3>2, <3>3 DEF Sources
  <2> QED
    BY <2>4, <2>5
<1>11. CASE ReadImage
  <2>1. /\ UNCHANGED <<source, early, recovering, subscriberState>>
        /\ m.kind = "image"
        /\ item' = item \/ item' = [item EXCEPT ![m.service] = "Live"]
    BY <1>3, <1>11 DEF ReadImage, Reading
  <2>2. m.service \in Services
    BY <1>3, <2>1 DEF WireMessages
  <2>3. ImagesMeetSource'
    BY <1>2, <2>1, DoesNothing, ImagesRead DEF Sources
  <2>4. ~early => source[m.service] = "up"
    <3>1. 1 \in 1 .. Len(wire)
      BY <1>2, WireRead
    <3>2. ~early => UpAfter(1 - 1, m.service)
      BY <2>1, <2>2, <3>1 DEF Sources, ImagesMeetSource, IsImage
    <3> QED
      BY <3>2 DEF UpAfter
  <2>5. AfterDirectory'
    BY <1>2, <2>1 DEF Sources, AfterDirectory, Known
  <2>6. \A s \in Services : \/ item'[s] = item[s]
                            \/ s = m.service /\ item'[s] = "Live"
    BY <2>1 DEF Types
  <2>7. ItemsAfterDirectory' /\ LiveHasSource'
    BY <1>2, <1>3, <2>1, <2>4, <2>6
    DEF Sources, ItemsAfterDirectory, LiveHasSource
  <2> QED
    BY <1>4, <1>5, <2>3, <2>5, <2>7 DEF Sources
<1> QED
  BY <1>7, <1>8, <1>9, <1>10, <1>11 DEF ReadMessage

LEMMA TurningSources ==
  ASSUME Types, Connection, Sources, ReadPing \/ Closing \/ Turning
  PROVE  Sources'
PROOF
<1> USE DEF threadVars, channelVars, loginVars, stateVars, clientVars,
            itemVars, netVars, historyVars
<1>1. CASE ReadPing \/ Reconnect \/ ReadDone \/ PingsNotDue
           \/ (CheckReceived /\ receivedServerMsg)
  <2>1. UNCHANGED <<wire, source, serviceUp, subscriberState, connected,
                    recovering, item, early, standing, asked, link>>
    BY <1>1 DEF ReadPing, Reconnect, ReadDone, PingsNotDue, CheckReceived
  <2>2. phase # "ended"
    BY <1>1 DEF ReadPing, Reconnect, ReadDone, PingsNotDue, CheckReceived
  <2> QED
    BY <2>1, <2>2, SourcesStay
<1>2. CASE RunEnds
  <2>1. /\ UNCHANGED <<source, subscriberState, connected, recovering, item,
                       early>>
        /\ wire' = <<>> /\ link' = "none" /\ phase' = "ended"
    BY <1>2 DEF RunEnds
  <2>2. ImagesMeetSource'
    BY <2>1, ImagesGone
  <2>3. DirectoryStands' /\ ItemsAfterDirectory'
    BY <2>1 DEF DirectoryStands, ItemsAfterDirectory
  <2>4. AfterDirectory' /\ ItemsWithout' /\ LiveHasSource'
    BY <2>1 DEF Sources, AfterDirectory, Known, ItemsWithout, LiveHasSource
  <2> QED
    BY <2>2, <2>3, <2>4 DEF Sources
<1>3. CASE ReadFails \/ ReadAfterClose \/ PingFails
           \/ (CheckReceived /\ ~receivedServerMsg)
  <2>1. RecoverConnection
    BY <1>3 DEF ReadFails, ReadAfterClose, PingFails, CheckReceived
  <2> QED
    BY <2>1, RecoveredSources
<1> QED
  BY <1>1, <1>2, <1>3 DEF Closing, Turning

LEMMA ClientSources ==
  ASSUME Types, Connection, Sources, Client \/ UNCHANGED vars
  PROVE  Sources'
PROOF
<1> USE DEF threadVars, channelVars, loginVars, stateVars, clientVars,
            itemVars, netVars, historyVars, stoppedVars
<1>1. CASE (\E s \in Names : Subscribe(s)) \/ AskDictionary
  <2>1. UNCHANGED stoppedVars /\ UNCHANGED stateVars
    BY <1>1 DEF Subscribe, AskDictionary
  <2> QED
    BY <2>1, SourcesStay
<1>2. CASE Stop
  <2>1. /\ UNCHANGED stoppedVars /\ UNCHANGED <<connected, recovering>>
        /\ subscriberState' = "unconnected"
    BY <1>2 DEF Stop
  <2>2. ImagesMeetSource'
    BY <2>1, ImagesStay DEF Sources
  <2>3. AfterDirectory'
    BY <2>1 DEF AfterDirectory
  <2>4. /\ DirectoryStands' /\ ItemsAfterDirectory' /\ ItemsWithout'
        /\ LiveHasSource'
    BY <2>1 DEF Sources, DirectoryStands, ItemsAfterDirectory, ItemsWithout,
                LiveHasSource
  <2> QED
    BY <2>2, <2>3, <2>4 DEF Sources
<1>3. CASE UNCHANGED vars
  BY <1>3, SourcesStay DEF vars
<1> QED
  BY <1>1, <1>2, <1>3 DEF Client

LEMMA DirectorySent ==
  ASSUME Types, DirectoryStands, NEW m \in WireMessages,
         wire' = Append(wire, m),
         standing = "listening" => standing' = "listening",
         m.kind = "directory" /\ m.decodes => standing' = "listening"
  PROVE  DirectoryStands'
PROOF
<1>1. PICK len \in Nat : /\ len = Len(wire) /\ Len(wire') = len + 1
                         /\ wire'[len + 1] = m
                         /\ \A i \in 1 .. len : wire'[i] = wire[i]
  BY WireSent
<1>2. \A i \in 1 .. len + 1 : i = len + 1 \/ i \in 1 .. len
  OBVIOUS
<1> QED
  BY <1>1, <1>2 DEF DirectoryStands

(* What the RMDS sends that is no news of a service. *)
LEMMA PlainSent ==
  ASSUME Types, Sources, NEW m \in WireMessages, wire' = Append(wire, m),
         ~(m.kind = "directory" /\ m.decodes), m.kind # "image",
         UNCHANGED <<source, early, serviceUp, link>>,
         standing' = "listening" <=> standing = "listening"
  PROVE  ImagesMeetSource' /\ DirectoryStands'
PROOF
<1>1. PICK len \in Nat : /\ len = Len(wire) /\ wire'[len + 1] = m
  BY WireSent
<1>2. \A s \in Services : ~Says(len + 1, s, FALSE)'
  BY <1>1 DEF Says
<1>3. \A s \in Services :
        link' = "up" /\ standing' = "listening" /\ serviceUp'[s]
          => UpAfter(len, s)
  BY <1>1 DEF Sources, ImagesMeetSource
<1>4. ImagesMeetSource'
  BY <1>1, <1>2, <1>3, ImagesSent DEF Sources
<1>5. DirectoryStands'
  BY DirectorySent DEF Sources
<1> QED
  BY <1>4, <1>5

LEMMA RMDSSources ==
  ASSUME Types, Connection, Sources, RMDS
  PROVE  Sources'
PROOF
<1> USE DEF threadVars, channelVars, loginVars, stateVars, clientVars,
            itemVars, netVars, historyVars, rmdsVars
<1>1. CASE LinkFails
  <2>1. /\ UNCHANGED rmdsVars /\ UNCHANGED <<wire, standing, serviceUp>>
        /\ asked' = {} /\ link = "up"
    BY <1>1 DEF LinkFails
  <2> QED
    BY <2>1, SourcesStay
<1> SUFFICES ASSUME ~LinkFails PROVE Sources'
  BY <1>1
<1>2. /\ UNCHANGED <<source, early, subscriberState, connected, recovering,
                     item, phase, link>>
      /\ asked' \subseteq asked
      /\ standing = "listening" => standing' = "listening"
  BY DEF RMDS, AnswerLogin, AnswerLoginBadly, LoginChanges, AnswerDirectory,
         AnswerDirectoryBadly, AnswerDictionary, AnswerItem, ServiceChanges,
         BadUpdate, Answers
<1>3. /\ AfterDirectory' /\ ItemsAfterDirectory' /\ ItemsWithout'
      /\ LiveHasSource'
  BY <1>2 DEF Sources, AfterDirectory, Known, ItemsAfterDirectory,
              ItemsWithout, LiveHasSource
<1>4. PICK len \in Nat : len = Len(wire)
  BY DEF Types
<1>5. CASE \/ AnswerLogin \/ AnswerLoginBadly \/ LoginChanges
           \/ AnswerDirectoryBadly \/ AnswerDictionary \/ BadUpdate
  <2>1. UNCHANGED serviceUp
    BY <1>5 DEF AnswerLogin, AnswerLoginBadly, LoginChanges,
                AnswerDirectoryBadly, AnswerDictionary, BadUpdate, Answers
  <2>2. standing' = "listening" <=> standing = "listening"
    BY <1>5 DEF AnswerLogin, AnswerLoginBadly, LoginChanges,
                AnswerDirectoryBadly, AnswerDictionary, BadUpdate
  <2>3. PICK m \in WireMessages :
          /\ wire' = Append(wire, m) /\ m.kind # "image"
          /\ ~(m.kind = "directory" /\ m.decodes)
    <3>1. CASE AnswerLogin \/ AnswerLoginBadly \/ LoginChanges
      <4>1. PICK m \in LoginTroubles
                         \cup {LoginMsg("refresh", "ok", TRUE, TRUE)} :
              wire' = Append(wire, m)
        BY <3>1 DEF AnswerLogin, AnswerLoginBadly, LoginChanges, Answers
      <4>2. m.kind = "login"
        BY <4>1 DEF LoginTroubles, LoginMsg
      <4> QED
        BY <4>1, <4>2, MessagesTyped
    <3>2. CASE AnswerDirectoryBadly \/ BadUpdate
      <4>1. PICK b \in BOOLEAN :
              wire' = Append(wire, DirectoryMsg(b, FALSE, serviceUp))
        BY <3>2 DEF AnswerDirectoryBadly, BadUpdate, Answers
      <4>2. /\ DirectoryMsg(b, FALSE, serviceUp).decodes = FALSE
            /\ DirectoryMsg(b, FALSE, serviceUp).kind = "directory"
        BY DEF DirectoryMsg
      <4> QED
        BY <4>1, <4>2, MessagesTyped
    <3>3. CASE AnswerDictionary
      <4>1. PICK part \in Parts, b \in BOOLEAN :
              wire' = Append(wire, [kind |-> "dictionary", part |-> part,
                                    decodes |-> b])
        BY <3>3 DEF AnswerDictionary, Answers
      <4> QED
        BY <4>1, MessagesTyped
    <3> QED
      BY <1>5, <3>1, <3>2, <3>3
  <2>4. ImagesMeetSource' /\ DirectoryStands'
    BY <1>2, <2>1, <2>2, <2>3, PlainSent
  <2> QED
    BY <1>3, <2>4 DEF Sources
<1>6. CASE AnswerDirectory
  <2> DEFINE m == DirectoryMsg(TRUE, TRUE, serviceUp)
  <2>1. /\ wire' = Append(wire, m) /\ standing' = "listening"
        /\ UNCHANGED serviceUp
    BY <1>6 DEF AnswerDirectory, Answers
  <2>2. m \in WireMessages
    BY MessagesTyped
  <2>3. /\ m.kind = "directory" /\ m.decodes /\ m.up = serviceUp
        /\ DOMAIN m.up = Services
    BY DEF DirectoryMsg, Types
  <2> HIDE DEF m
  <2>4. wire'[len + 1] = m
    BY <1>4, <2>1, <2>2, WireSent
  <2>5. \A s \in Services : serviceUp'[s] => Says(len + 1, s, TRUE)'
    <3> TAKE s \in Services
    <3>1. serviceUp[s] \in BOOLEAN
      BY DEF Types
    <3> QED
      BY <2>1, <2>3, <2>4, <3>1 DEF Says
  <2>6. ImagesMeetSource'
    BY <1>2, <1>4, <2>1, <2>2, <2>3, <2>5, ImagesSent DEF Sources
  <2>7. DirectoryStands'
    BY <1>2, <2>1, <2>2, DirectorySent DEF Sources
  <2> QED
    BY <1>3, <2>6, <2>7 DEF Sources
<1>7. CASE AnswerItem
  <2>1. PICK s \in Services :
          /\ serviceUp[s] /\ s \in asked /\ link = "up"
          /\ wire' = Append(wire, [kind |-> "image", service |-> s])
          /\ UNCHANGED <<standing, serviceUp>>
    BY <1>7 DEF AnswerItem, Answers
  <2> DEFINE m == [kind |-> "image", service |-> s]
  <2>2. m \in WireMessages /\ m.kind = "image" /\ m.service = s
    BY MessagesTyped
  <2>3. wire' = Append(wire, m)
    BY <2>1
  <2> HIDE DEF m
  <2>4. phase # "ended"
    BY <2>1 DEF Connection
  <2>5. ~early => UpAfter(len, s)
    BY <1>4, <2>1, <2>4 DEF Sources, ItemsAfterDirectory, ImagesMeetSource
  <2>6. wire'[len + 1] = m
    BY <1>4, <2>2, <2>3, WireSent
  <2>7. \A t \in Services : ~Says(len + 1, t, FALSE)'
    BY <2>2, <2>6 DEF Says
  <2>8. \A t \in Services :
          link' = "up" /\ standing' = "listening" /\ serviceUp'[t]
            => UpAfter(len, t)
    BY <1>2, <1>4, <2>1 DEF Sources, ImagesMeetSource
  <2>9. ImagesMeetSource'
    BY <1>2, <1>4, <2>2, <2>3, <2>5, <2>7, <2>8, ImagesSent DEF Sources
  <2>10. DirectoryStands'
    BY <1>2, <2>2, <2>3, DirectorySent DEF Sources
  <2> QED
    BY <1>3, <2>9, <2>10 DEF Sources
<1>8. CASE ServiceChanges
  <2>1. PICK s \in Services :
          /\ serviceUp' = [serviceUp EXCEPT ![s] = ~serviceUp[s]]
          /\ wire' = IF link = "up" /\ standing = "listening"
                      THEN Append(wire, DirectoryMsg(FALSE, TRUE,
                                          [t \in {s} |-> ~serviceUp[s]]))
                      ELSE wire
          /\ standing' = standing
    BY <1>8 DEF ServiceChanges
  <2>2. CASE ~(link = "up" /\ standing = "listening")
    <3>1. ImagesMeetSource'
      <4>1. UNCHANGED <<wire, source, link, standing, early>>
        BY <1>2, <2>1, <2>2
      <4>2. \A i \in Nat, s1 \in Services : IsImage(i, s1)' = IsImage(i, s1)
        BY <4>1 DEF IsImage
      <4>3. \A i \in Int, s1 \in Services : UpAfter(i, s1)' = UpAfter(i, s1)
        BY <4>1 DEF UpAfter, Says
      <4>4. ~(link' = "up" /\ standing' = "listening")
        BY <2>2, <4>1
      <4> QED
        BY <1>4, <4>1, <4>2, <4>3, <4>4 DEF Sources, ImagesMeetSource
    <3>2. DirectoryStands'
      BY <2>1, <2>2 DEF Sources, DirectoryStands
    <3> QED
      BY <1>3, <3>1, <3>2 DEF Sources
  <2>3. CASE link = "up" /\ standing = "listening"
    <3>1. PICK b \in BOOLEAN : b = ~serviceUp[s]
      OBVIOUS
    <3> DEFINE m == DirectoryMsg(FALSE, TRUE, [t \in {s} |-> b])
    <3>2. m \in WireMessages
      BY MessagesTyped
    <3>3. /\ m.kind = "directory" /\ m.decodes /\ DOMAIN m.up = {s}
          /\ m.up[s] = b
      BY DEF DirectoryMsg
    <3>4. wire' = Append(wire, m)
      BY <2>1, <2>3, <3>1
    <3> HIDE DEF m
    <3>5. wire'[len + 1] = m
      BY <1>4, <3>2, <3>4, WireSent
    <3>6. \A t \in Services : serviceUp'[t] = IF t = s THEN b ELSE serviceUp[t]
      BY <2>1, <3>1 DEF Types
    <3>7. ASSUME NEW t \in Services, serviceUp'[t]
          PROVE  \/ Says(len + 1, t, TRUE)'
                 \/ ~Says(len + 1, t, FALSE)' /\ UpAfter(len, t)
      <4>1. CASE t = s
        <5>1. b = TRUE
          BY <3>6, <3>7, <4>1
        <5> QED
          BY <3>3, <3>5, <4>1, <5>1 DEF Says
      <4>2. CASE t # s
        <5>1. serviceUp[t]
          BY <3>6, <3>7, <4>2
        <5>2. UpAfter(len, t)
          BY <1>4, <2>3, <5>1 DEF Sources, ImagesMeetSource
        <5> QED
          BY <3>3, <3>5, <4>2, <5>2 DEF Says
      <4> QED
        BY <4>1, <4>2
    <3>8. ImagesMeetSource'
      BY <1>2, <1>4, <3>2, <3>3, <3>4, <3>7, ImagesSent DEF Sources
    <3>9. DirectoryStands'
      BY <2>1, <2>3, <3>2, <3>4, DirectorySent DEF Sources
    <3> QED
      BY <1>3, <3>8, <3>9 DEF Sources
  <2> QED
    BY <2>2, <2>3
<1> QED
  BY <1>5, <1>6, <1>7, <1>8 DEF RMDS

LEMMA SourcesStep ==
  ASSUME Types, Connection, Sources, [Next]_vars
  PROVE  Sources'
BY ConnectingSources, PumpingSources, ReadingSources, TurningSources,
   ClientSources, RMDSSources DEF Next, Thread

-----------------------------------------------------------------------------
(* What the client was told.                                               *)

(* Only a refusal marks the login suspect, only an acceptance unmarks it,  *)
(* and a verdict of suspicion rests on the mark.                           *)
LEMMA SuspectMarked ==
  ASSUME NEW f \in LoginFlags, NEW m
  PROVE  /\ FlagsAfter(f, m).suspect /\ ~f.suspect
              => LoginNotice(m) = "failed"
         /\ f.suspect /\ ~FlagsAfter(f, m).suspect
              => \A g : ConsumerVerdict(g, m) = "good"
         /\ \A g : ConsumerVerdict(g, m) = "suspect" => g.suspect
PROOF
<1>1. Accepts(m) => ~Refuses(m) /\ m.class = "refresh"
  BY DEF Accepts, Refuses
<1>2. Accepts(m) \/ (FlagsAfter(f, m).suspect => f.suspect \/ Refuses(m))
  BY DEF FlagsAfter, LoginFlags
<1>3. ASSUME Accepts(m) PROVE ~FlagsAfter(f, m).suspect
  <2>1. FlagsAfter(f, m) = [f EXCEPT !.closed = FALSE, !.suspect = FALSE,
                                     !.closedRecoverable = FALSE]
    BY <1>1, <1>3 DEF FlagsAfter
  <2> QED
    BY <2>1 DEF LoginFlags
<1>4. f.suspect /\ ~Accepts(m) => FlagsAfter(f, m).suspect
  BY DEF FlagsAfter, LoginFlags
<1>5. Refuses(m) => LoginNotice(m) = "failed"
  BY <1>1 DEF LoginNotice, Refuses
<1>6. Accepts(m) => \A g : ConsumerVerdict(g, m) = "good"
  BY DEF ConsumerVerdict, ReturnsSuccess
<1>7. \A g : ConsumerVerdict(g, m) = "suspect" => g.suspect
  BY DEF ConsumerVerdict
<1> QED
  BY <1>2, <1>3, <1>4, <1>5, <1>6, <1>7

LEMMA NewsStay ==
  ASSUME News, UNCHANGED <<inSuspect, flags, told, connected>>,
         ~early' => ~early, ~doubted' => ~doubted,
         loaded = Parts => loaded' = Parts
  PROVE  News'
BY DEF News

LEMMA RecoveredNews ==
  ASSUME RecoverConnection, inSuspect' => flags'.suspect
  PROVE  News'
BY DEF RecoverConnection, ConnectionLost, News

LEMMA DictionaryNews ==
  ASSUME News, NEW state, NEW q, DictionaryComplete(state, q),
         loaded' = Parts, UNCHANGED <<flags, inSuspect, connected>>,
         ~early /\ state \in {"requestingDictionary", "live"} => connected
  PROVE  News'
BY DEF DictionaryComplete, News

LEMMA ReadingNews ==
  ASSUME Types, Connection, Sources, News, ReadMessage
  PROVE  News'
PROOF
<1> USE DEF threadVars, channelVars, loginVars, stateVars, clientVars,
            itemVars, netVars, historyVars, readVars
<1>1. CASE ReadLogin
  <2> DEFINE m == Head(wire).msg
             after == FlagsAfter(flags, m)
             verdict == ConsumerVerdict(after, m)
  <2>1. /\ flags' = after /\ UNCHANGED <<connected, early, doubted, loaded>>
        /\ inSuspect' = (verdict = "suspect" \/ (inSuspect /\ verdict # "good"))
        /\ LoginResponse(LoginNotice(m))
    BY <1>1 DEF ReadLogin
  <2>2. /\ after.suspect /\ ~flags.suspect => LoginNotice(m) = "failed"
        /\ flags.suspect /\ ~after.suspect => verdict = "good"
        /\ verdict = "suspect" => after.suspect
    BY SuspectMarked DEF Types
  <2>3. /\ LoginNotice(m) = "failed" => told' = "failed"
        /\ told' \in {told, "failed"}
    BY <2>1 DEF LoginResponse
  <2> HIDE DEF m, after, verdict
  <2>4. inSuspect' => flags'.suspect
    BY <2>1, <2>2 DEF News
  <2>5. told' \in {"complete", "reconnect"} /\ ~early' /\ ~doubted' =>
          connected' /\ ~flags'.suspect /\ loaded' = Parts
    BY <2>1, <2>2, <2>3 DEF News
  <2> QED
    BY <2>4, <2>5 DEF News
<1>2. CASE ReadLoginRecover
  <2> DEFINE m == Head(wire).msg
             after == FlagsAfter(flags, m)
  <2>1. /\ flags' = after /\ UNCHANGED inSuspect /\ RecoverConnection
        /\ ConsumerVerdict(after, m) = "recover"
    BY <1>2 DEF ReadLoginRecover
  <2>2. flags.suspect /\ ~after.suspect => ConsumerVerdict(after, m) = "good"
    BY SuspectMarked DEF Types
  <2> HIDE DEF m, after
  <2>3. inSuspect' => flags'.suspect
    BY <2>1, <2>2 DEF News
  <2> QED
    BY <2>1, <2>3, RecoveredNews
<1>3. CASE ReadDirectory
  <2>1. connected
    BY <1>3 DEF ReadDirectory, Reading, Connection
  <2>2. UNCHANGED <<flags, inSuspect, connected, loaded>>
    BY <1>3 DEF ReadDirectory
  <2>3. CASE Complete(loaded)
    <3>1. DictionaryComplete("requestingDictionary", queue)
      BY <1>3, <2>3 DEF ReadDirectory
    <3> QED
      BY <2>1, <2>2, <2>3, <3>1, DictionaryNews DEF Complete
  <2>4. CASE ~Complete(loaded)
    BY <1>3, <2>2, <2>4, NewsStay DEF ReadDirectory
  <2> QED
    BY <2>3, <2>4
<1>4. CASE ReadDirectoryUpdate \/ ReadImage
  BY <1>4, NewsStay DEF ReadDirectoryUpdate, ReadImage
<1>5. CASE ReadBadDirectory
  <2>1. /\ UNCHANGED <<flags, inSuspect, connected, loaded, early, doubted>>
        /\ told' \in {told, "directoryFailed"}
    BY <1>5 DEF ReadBadDirectory
  <2> QED
    BY <2>1 DEF News
<1>6. CASE ReadDictionary
  <2>1. UNCHANGED <<flags, inSuspect, connected>>
    BY <1>6 DEF ReadDictionary
  <2>2. CASE Head(wire).decodes /\ Complete(loaded')
    <3>1. DictionaryComplete(subscriberState, queue)
      BY <1>6, <2>2 DEF ReadDictionary
    <3>2. ~early /\ subscriberState \in {"requestingDictionary", "live"}
            => connected
      BY DEF Sources, AfterDirectory
    <3> QED
      BY <2>1, <2>2, <3>1, <3>2, DictionaryNews DEF Complete
  <2>3. CASE Head(wire).decodes /\ ~Complete(loaded')
    <3>1. /\ UNCHANGED <<early, doubted, told>>
          /\ loaded' = loaded \cup {Head(wire).part}
      BY <1>6, <2>3 DEF ReadDictionary
    <3>2. Head(wire) \in WireMessages /\ Head(wire).kind = "dictionary"
      BY <1>6, TailFacts DEF ReadDictionary, Reading, Types
    <3>3. Head(wire).part \in Parts
      BY <3>2 DEF WireMessages
    <3> QED
      BY <2>1, <3>1, <3>3, NewsStay
  <2>4. CASE ~Head(wire).decodes
    <3>1. /\ UNCHANGED <<early, doubted, loaded>> /\ told' = "dictionaryFailed"
      BY <1>6, <2>4 DEF ReadDictionary
    <3> QED
      BY <2>1, <3>1 DEF News
  <2> QED
    BY <2>2, <2>3, <2>4
<1> QED
  BY <1>1, <1>2, <1>3, <1>4, <1>5, <1>6 DEF ReadMessage

LEMMA NewsStep ==
  ASSUME Types, Connection, Sources, News, [Next]_vars
  PROVE  News'
PROOF
<1> USE DEF threadVars, channelVars, loginVars, stateVars, clientVars,
            itemVars, netVars, historyVars
<1>1. CASE ConnectRefused \/ ConnectAccepted
  BY <1>1, NewsStay DEF ConnectRefused, ConnectAccepted
<1>2. CASE ChannelActive
  <2>1. /\ UNCHANGED <<inSuspect, flags, told, early, doubted, loaded>>
        /\ connected' = TRUE
    BY <1>2 DEF ChannelActive
  <2> QED
    BY <2>1 DEF News
<1>3. CASE InitFails \/ ReadFails \/ ReadAfterClose \/ PingFails
           \/ (CheckReceived /\ ~receivedServerMsg)
  <2>1. RecoverConnection /\ UNCHANGED <<flags, inSuspect>>
    BY <1>3 DEF InitFails, ReadFails, ReadAfterClose, PingFails, CheckReceived
  <2> QED
    BY <2>1, RecoveredNews DEF News
<1>4. CASE Pump \/ PumpDone \/ DispatchLogin \/ DispatchDirectory
           \/ DispatchDictionary \/ DispatchOpen
  BY <1>4, NewsStay DEF Pump, PumpDone, DispatchLogin, DispatchDirectory,
                        DispatchDictionary, DispatchOpen, Send
<1>5. CASE DispatchAsk
  <2>1. UNCHANGED <<flags, inSuspect, connected, loaded>>
    BY <1>5 DEF DispatchAsk
  <2>2. CASE Complete(loaded)
    <3>1. DictionaryComplete(subscriberState, Tail(queue))
      BY <1>5, <2>2 DEF DispatchAsk
    <3>2. ~early /\ subscriberState \in {"requestingDictionary", "live"}
            => connected
      BY DEF Sources, AfterDirectory
    <3> QED
      BY <2>1, <2>2, <3>1, <3>2, DictionaryNews DEF Complete
  <2>3. CASE ~Complete(loaded)
    BY <1>5, <2>1, <2>3, NewsStay DEF DispatchAsk
  <2> QED
    BY <2>2, <2>3
<1>6. CASE ReadMessage
  BY <1>6, ReadingNews
<1>7. CASE ReadPing \/ Reconnect \/ ReadDone \/ PingsNotDue \/ RunEnds
           \/ (CheckReceived /\ receivedServerMsg)
  BY <1>7, NewsStay DEF ReadPing, Reconnect, ReadDone, PingsNotDue, RunEnds,
                        CheckReceived
<1>8. CASE Client
  BY <1>8, NewsStay DEF Client, Subscribe, AskDictionary, Stop, stoppedVars
<1>9. CASE RMDS
  <2>1. UNCHANGED rmdsVars
    BY <1>9 DEF RMDS, AnswerLogin, AnswerLoginBadly, LoginChanges,
                AnswerDirectory, AnswerDirectoryBadly, AnswerDictionary,
                AnswerItem, ServiceChanges, BadUpdate, LinkFails, Answers
  <2> QED
    BY <2>1, NewsStay DEF rmdsVars
<1>10. CASE UNCHANGED vars
  BY <1>10, NewsStay DEF vars
<1> QED
  BY <1>1, <1>2, <1>3, <1>4, <1>5, <1>6, <1>7, <1>8, <1>9, <1>10
  DEF Next, Thread, Connecting, Pumping, Closing, Turning

-----------------------------------------------------------------------------
(* Bad symbols.                                                            *)

LEMMA RefusedStep ==
  ASSUME Sources, [Next]_vars, ~early
  PROVE  refused' \cap Services \subseteq refused
PROOF
<1> USE DEF threadVars, channelVars, loginVars, stateVars, clientVars,
            itemVars, netVars, historyVars
<1>1. CASE Pump
  <2>1. refused' = refused \cup (ProcessPending \ KnownNow)
    BY <1>1 DEF Pump
  <2>2. CASE subscriberState = "live"
    <3>1. Services \subseteq KnownNow
      BY <2>2 DEF Sources, AfterDirectory, Known, KnownNow
    <3> QED
      BY <2>1, <3>1
  <2>3. CASE subscriberState # "live"
    BY <2>1, <2>3 DEF ProcessPending
  <2> QED
    BY <2>2, <2>3
<1>2. CASE Connecting
  BY <1>2 DEF Connecting, ConnectRefused, ConnectAccepted, InitFails,
              ChannelActive
<1>3. CASE Pumping /\ ~Pump
  BY <1>3 DEF Pumping, PumpDone, DispatchLogin, DispatchDirectory,
              DispatchDictionary, DispatchOpen, DispatchAsk, Send
<1>4. CASE ReadMessage
  BY <1>4 DEF ReadMessage, ReadLogin, ReadLoginRecover, ReadDirectory,
              ReadDirectoryUpdate, ReadBadDirectory, ReadDictionary,
              ReadImage, readVars
<1>5. CASE ReadPing \/ Closing \/ Turning
  BY <1>5 DEF ReadPing, Closing, Turning, ReadFails, ReadAfterClose,
              Reconnect, PingFails, RunEnds, ReadDone, PingsNotDue,
              CheckReceived
<1>6. CASE Client
  BY <1>6 DEF Client, Subscribe, AskDictionary, Stop
<1>7. CASE RMDS
  BY <1>7 DEF RMDS, AnswerLogin, AnswerLoginBadly, LoginChanges,
              AnswerDirectory, AnswerDirectoryBadly, AnswerDictionary,
              AnswerItem, ServiceChanges, BadUpdate, LinkFails, Answers,
              rmdsVars
<1>8. CASE UNCHANGED vars
  BY <1>8 DEF vars
<1> QED
  BY <1>1, <1>2, <1>3, <1>4, <1>5, <1>6, <1>7, <1>8 DEF Next, Thread

-----------------------------------------------------------------------------
(* The requests: what the queue holds, and what the RMDS has.              *)

QueuedIn(q, s) == \E i \in DOMAIN q : q[i] = Request("open", s)

LEMMA QueuedTail ==
  ASSUME NEW q \in Seq(Requests), q # <<>>, NEW s, QueuedIn(q, s),
         Head(q) # Request("open", s)
  PROVE  QueuedIn(Tail(q), s)
PROOF
<1>1. PICK n \in Nat : /\ n = Len(q) /\ Len(Tail(q)) = n - 1
                       /\ Tail(q) \in Seq(Requests) /\ Head(q) = q[1]
                       /\ \A i \in 1 .. n - 1 : Tail(q)[i] = q[i + 1]
  BY TailFacts
<1>2. PICK i \in 1 .. n : q[i] = Request("open", s)
  BY <1>1 DEF QueuedIn
<1>3. i # 1
  BY <1>1, <1>2
<1>4. i - 1 \in 1 .. n - 1 /\ (i - 1) + 1 = i
  BY <1>1, <1>3
<1>5. Tail(q)[i - 1] = Request("open", s) /\ i - 1 \in DOMAIN Tail(q)
  BY <1>1, <1>2, <1>4
<1> QED
  BY <1>5 DEF QueuedIn

LEMMA QueuedMore ==
  ASSUME NEW q \in Seq(Requests), NEW r \in Seq(Requests), NEW s
  PROVE  /\ QueuedIn(q, s) => QueuedIn(q \o r, s)
         /\ QueuedIn(r, s) => QueuedIn(q \o r, s)
PROOF
<1>1. PICK n \in Nat : n = Len(q)
  OBVIOUS
<1>2. PICK k \in Nat : k = Len(r)
  OBVIOUS
<1>3. /\ Len(q \o r) = n + k /\ q \o r \in Seq(Requests)
      /\ \A i \in 1 .. n : (q \o r)[i] = q[i]
      /\ \A i \in 1 .. k : (q \o r)[n + i] = r[i]
  BY <1>1, <1>2, ConcatFacts
<1>4. DOMAIN (q \o r) = 1 .. n + k /\ DOMAIN q = 1 .. n /\ DOMAIN r = 1 .. k
  BY <1>1, <1>2, <1>3
<1>5. \A i \in 1 .. n : i \in 1 .. n + k
  BY <1>3
<1>6. \A i \in 1 .. k : n + i \in 1 .. n + k
  BY <1>3
<1> QED
  BY <1>3, <1>4, <1>5, <1>6 DEF QueuedIn

LEMMA QueuedAppend ==
  ASSUME NEW q \in Seq(Requests), NEW r \in Requests, NEW s, QueuedIn(q, s)
  PROVE  QueuedIn(Append(q, r), s)
PROOF
<1>1. PICK n \in Nat : /\ n = Len(q) /\ Len(Append(q, r)) = n + 1
                       /\ Append(q, r) \in Seq(Requests)
                       /\ \A i \in 1 .. n : Append(q, r)[i] = q[i]
  BY AppendFacts
<1>2. DOMAIN Append(q, r) = 1 .. n + 1 /\ DOMAIN q = 1 .. n
  BY <1>1
<1>3. \A i \in 1 .. n : i \in 1 .. n + 1
  BY <1>1
<1> QED
  BY <1>1, <1>2, <1>3 DEF QueuedIn

LEMMA QueuedOpens ==
  ASSUME NEW set \in SUBSET Services, NEW s \in set
  PROVE  QueuedIn(Opens(set), s)
PROOF
<1>1. /\ Opens(set) \in Seq(Requests) /\ Len(Opens(set)) \in Nat
      /\ \E i \in 1 .. Len(Opens(set)) : Opens(set)[i] = Request("open", s)
  BY OpensFacts
<1>2. DOMAIN Opens(set) = 1 .. Len(Opens(set))
  BY <1>1
<1> QED
  BY <1>1, <1>2 DEF QueuedIn

(* Whatever is read that is no image, and whatever is sent, leaves alone   *)
(* who has been answered.                                                  *)
LEMMA AnsweringRead ==
  ASSUME Types, wire # <<>>, wire' = Tail(wire), asked' = asked, NEW s
  PROVE  /\ Answering(s)' => Answering(s)
         /\ ~IsImage(1, s) => (Answering(s) => Answering(s)')
PROOF
<1>1. PICK len \in Nat : /\ len = Len(wire) /\ len >= 1
                         /\ Len(wire') = len - 1
                         /\ \A i \in 1 .. len - 1 : wire'[i] = wire[i + 1]
  BY WireRead
<1>2. \A i \in 1 .. len - 1 : IsImage(i, s)' <=> IsImage(i + 1, s)
  BY <1>1 DEF IsImage
<1>3. ASSUME NEW i \in 1 .. len - 1, IsImage(i, s)' PROVE Answering(s)
  <2>1. i + 1 \in 1 .. len /\ IsImage(i + 1, s)
    BY <1>1, <1>2, <1>3
  <2> QED
    BY <1>1, <2>1 DEF Answering
<1>4. ASSUME NEW i \in 1 .. len, IsImage(i, s), ~IsImage(1, s)
      PROVE  Answering(s)'
  <2>1. i # 1
    BY <1>4
  <2>2. i - 1 \in 1 .. len - 1 /\ (i - 1) + 1 = i
    BY <1>1, <2>1
  <2>3. IsImage(i - 1, s)'
    BY <1>2, <1>4, <2>2
  <2> QED
    BY <1>1, <2>2, <2>3 DEF Answering
<1> QED
  BY <1>1, <1>3, <1>4 DEF Answering

LEMMA AnsweringSent ==
  ASSUME Types, NEW m \in WireMessages, wire' = Append(wire, m),
         NEW s \in Services
  PROVE  /\ Answering(s)' => \/ s \in asked' \/ Answering(s)
                             \/ m.kind = "image" /\ m.service = s
         /\ Answering(s) => Answering(s)' \/ s \in asked
         /\ m.kind = "image" /\ m.service = s => Answering(s)'
PROOF
<1>1. PICK len \in Nat : /\ len = Len(wire) /\ Len(wire') = len + 1
                         /\ wire'[len + 1] = m
                         /\ \A i \in 1 .. len : wire'[i] = wire[i]
  BY WireSent
<1>2. \A i \in 1 .. len : IsImage(i, s)' <=> IsImage(i, s)
  BY <1>1 DEF IsImage
<1>3. IsImage(len + 1, s)' <=> m.kind = "image" /\ m.service = s
  BY <1>1 DEF IsImage
<1>4. \A i \in 1 .. len + 1 : i = len + 1 \/ i \in 1 .. len
  BY <1>1
<1>5. len + 1 \in 1 .. len + 1 /\ \A i \in 1 .. len : i \in 1 .. len + 1
  BY <1>1
<1> QED
  BY <1>1, <1>2, <1>3, <1>4, <1>5 DEF Answering

-----------------------------------------------------------------------------
(* What the requests need of the items and of those given up, while the    *)
(* items may be replaced by others.                                        *)
ItemsAsk(items, set) ==
  /\ \A s \in Services : items[s] = "none" <=> item[s] = "none"
  /\ recovering => \A s \in Services : items[s] # "Subscribing"
  /\ connected /\ link = "up" /\ ~early /\ ~recovering =>
       \A s \in ItemsInUse \ set :
         s \in requested \/ (items[s] = "Subscribing" /\ OpenQueued(s))
  /\ link = "up" =>
       \A s \in (pendingItems \cap requested) \ set :
         items[s] # "Live" /\ Answering(s)

LEMMA ItemsAskNow ==
  ASSUME Asking
  PROVE  ItemsAsk(item, astray)
BY DEF Asking, RecoveryWaits, NoneForgotten, PlacesAnswered, ItemsAsk

LEMMA ItemsAskSet ==
  ASSUME Types, Asking, NEW up
  PROVE  ItemsAsk(ItemsAfter(up), AstrayAfter(up))
PROOF
<1>1. ASSUME NEW s \in Services
      PROVE  /\ item[s] # "none" /\ s \in WentDown(up)
                  => ItemsAfter(up)[s] = "Stale"
             /\ item[s] # "none" /\ s \in WentUp(up)
                  => ItemsAfter(up)[s] = "Live"
             /\ item[s] = "none" \/ s \notin WentDown(up) \cup WentUp(up)
                  => ItemsAfter(up)[s] = item[s]
  <2>1. ~(s \in WentDown(up) /\ s \in WentUp(up))
    BY DEF WentDown, WentUp
  <2>2. ItemsAfter(up)[s]
          = CASE item[s] # "none" /\ s \in WentDown(up) -> "Stale"
              [] item[s] # "none" /\ s \in WentUp(up) -> "Live"
              [] OTHER -> item[s]
    BY DEF ItemsAfter
  <2> QED
    BY <2>1, <2>2
<1>2. ASSUME NEW s, s \notin AstrayAfter(up), item[s] # "none"
      PROVE  /\ s \notin astray
             /\ s \in WentUp(up) => s \in requested /\ s \notin pendingItems
             /\ s \in WentDown(up) => s \in requested
  BY <1>2 DEF AstrayAfter
<1>3. \A s \in Services : ItemsAfter(up)[s] = "none" <=> item[s] = "none"
  BY <1>1
<1>4. recovering => \A s \in Services : ItemsAfter(up)[s] # "Subscribing"
  BY <1>1 DEF Asking, RecoveryWaits
<1>5. ASSUME connected /\ link = "up" /\ ~early /\ ~recovering,
             NEW s \in ItemsInUse \ AstrayAfter(up), s \notin requested
      PROVE  ItemsAfter(up)[s] = "Subscribing" /\ OpenQueued(s)
  <2>1. s \in Services /\ item[s] # "none"
    BY <1>5 DEF ItemsInUse
  <2>2. s \notin WentUp(up) \cup WentDown(up) /\ s \notin astray
    BY <1>2, <1>5, <2>1
  <2> QED
    BY <1>1, <1>5, <2>1, <2>2 DEF Asking, NoneForgotten
<1>6. ASSUME link = "up",
             NEW s \in (pendingItems \cap requested) \ AstrayAfter(up)
      PROVE  ItemsAfter(up)[s] # "Live" /\ Answering(s)
  <2>1. s \in Services /\ item[s] # "none"
    BY <1>6 DEF Asking, RequestedWanted
  <2>2. s \notin WentUp(up) /\ s \notin astray
    BY <1>2, <1>6, <2>1
  <2> QED
    BY <1>1, <1>6, <2>1, <2>2 DEF Asking, PlacesAnswered
<1> QED
  BY <1>3, <1>4, <1>5, <1>6 DEF ItemsAsk

(* The items are replaced, and little else happens. *)
LEMMA ItemsTaken ==
  ASSUME Asking, NEW items, NEW set, ItemsAsk(items, set),
         item' = items, astray' = set,
         UNCHANGED <<requested, pendingItems, recovering, connected, waiting,
                     early>>,
         \A s \in Services : Answering(s)' => Answering(s),
         link' = "up" => /\ link = "up"
                         /\ \A s \in Services : Answering(s) => Answering(s)',
         \A s \in Services : OpenQueued(s) => OpenQueued(s)'
  PROVE  Asking'
PROOF
<1>1. ItemsInUse' = ItemsInUse
  BY DEF ItemsInUse, ItemsAsk
<1>2. AskedRequested' /\ RequestedWanted' /\ RecoveryWaits'
  BY DEF Asking, AskedRequested, RequestedWanted, RecoveryWaits, ItemsAsk
<1>3. WaitingNew'
  BY <1>1 DEF Asking, WaitingNew, Pending
<1>4. NoneForgotten'
  BY <1>1 DEF NoneForgotten, ItemsAsk, ItemsInUse
<1>5. PlacesAnswered'
  BY DEF Asking, PlacesAnswered, ItemsAsk
<1> QED
  BY <1>2, <1>3, <1>4, <1>5 DEF Asking

LEMMA AskingStay ==
  ASSUME Asking,
         UNCHANGED <<item, astray, requested, pendingItems, recovering,
                     connected, waiting, early>>,
         \A s \in Services : Answering(s)' => Answering(s),
         link' = "up" => /\ link = "up"
                         /\ \A s \in Services : Answering(s) => Answering(s)',
         \A s \in Services : OpenQueued(s) => OpenQueued(s)'
  PROVE  Asking'
BY ItemsAskNow, ItemsTaken

(* The dictionary is complete, wherever that is found: an item that was to *)
(* be recovered is asked for.                                              *)
LEMMA DictionaryAsking ==
  ASSUME Types, Asking,
         NEW items \in [Services -> {"none", "Subscribing", "Live", "Stale"}],
         NEW set, ItemsAsk(items, set),
         NEW state, NEW q \in Seq(Requests), DictionaryComplete(state, q),
         \A s \in Services : OpenQueued(s) => QueuedIn(q, s),
         item' = Resubscribed(items), astray' = StillAstray(set),
         UNCHANGED <<requested, pendingItems, connected, waiting, link>>,
         \A s \in Services : Answering(s)' <=> Answering(s)
  PROVE  Asking'
PROOF
<1>1. /\ recovering' = FALSE
      /\ ~early' => ~early
      /\ queue' = IF recovering THEN q \o Opens(ItemsInUse) ELSE q
  BY DEF DictionaryComplete, Types
<1>2. /\ \A s \in Services : item'[s] = "none" <=> item[s] = "none"
      /\ ItemsInUse' = ItemsInUse
  <2>1. \A s \in Services : item'[s] = "none" <=> item[s] = "none"
    BY DEF Resubscribed, ItemsInUse, ItemsAsk
  <2> QED
    BY <2>1 DEF ItemsInUse
<1>3. AskedRequested' /\ RequestedWanted' /\ RecoveryWaits'
  <2>1. AskedRequested'
    BY DEF Asking, AskedRequested
  <2>2. RequestedWanted'
    BY <1>2 DEF Asking, RequestedWanted
  <2>3. RecoveryWaits'
    BY <1>1 DEF RecoveryWaits
  <2> QED
    BY <2>1, <2>2, <2>3
<1>4. WaitingNew'
  BY <1>2 DEF Asking, WaitingNew, Pending
<1>5. CASE recovering
  <2>1. requested = {}
    BY <1>5 DEF Asking, RecoveryWaits
  <2>2. ASSUME NEW s \in ItemsInUse
        PROVE  item'[s] = "Subscribing" /\ OpenQueued(s)'
    <3>1. s \in Services /\ ItemsInUse \in SUBSET Services
      BY DEF ItemsInUse
    <3>2. item'[s] = "Subscribing"
      BY <1>5, <2>2, <3>1 DEF Resubscribed
    <3>3. QueuedIn(q \o Opens(ItemsInUse), s)
      BY <2>2, <3>1, QueuedOpens, QueuedMore, OpensFacts
    <3> QED
      BY <1>1, <1>5, <3>2, <3>3 DEF QueuedIn, OpenQueued
  <2>3. NoneForgotten' /\ PlacesAnswered'
    BY <1>2, <2>1, <2>2 DEF NoneForgotten, PlacesAnswered
  <2> QED
    BY <1>3, <1>4, <2>3 DEF Asking
<1>6. CASE ~recovering
  <2>1. queue' = q /\ astray' = set /\ \A s \in Services : item'[s] = items[s]
    BY <1>1, <1>6 DEF Resubscribed, StillAstray
  <2>2. \A s \in Services : OpenQueued(s) => OpenQueued(s)'
    BY <2>1 DEF QueuedIn, OpenQueued
  <2>3. NoneForgotten'
    BY <1>1, <1>2, <1>6, <2>1, <2>2 DEF NoneForgotten, ItemsAsk, ItemsInUse
  <2>4. PlacesAnswered'
    BY <2>1 DEF Asking, PlacesAnswered, ItemsAsk
  <2> QED
    BY <1>3, <1>4, <2>3, <2>4 DEF Asking
<1> QED
  BY <1>5, <1>6

-----------------------------------------------------------------------------
(* The steps.                                                              *)

askingVars == <<item, astray, requested, pendingItems, recovering, connected,
                waiting, early, asked, wire, link>>

LEMMA AskingQueue ==
  ASSUME Asking, UNCHANGED askingVars,
         \A s \in Services : OpenQueued(s) => OpenQueued(s)'
  PROVE  Asking'
PROOF
<1>1. \A s \in Services : Answering(s)' <=> Answering(s)
  BY DEF askingVars, Answering, IsImage
<1> QED
  BY <1>1, AskingStay DEF askingVars

LEMMA RecoveredAsking ==
  ASSUME Types, Asking, RecoverConnection,
         UNCHANGED <<waiting, pendingItems>>
  PROVE  Asking'
PROOF
<1>1. /\ requested' = {} /\ asked' = {} /\ wire' = <<>> /\ link' = "none"
      /\ connected' = FALSE
  BY DEF RecoverConnection, ConnectionLost
<1>2. /\ \A s \in Services : item'[s] = "none" <=> item[s] = "none"
      /\ recovering' => \A s \in Services : item'[s] # "Subscribing"
  <2>1. CASE connected
    BY <2>1 DEF RecoverConnection, ConnectionLost, StaleItems
  <2>2. CASE ~connected
    BY <2>2 DEF RecoverConnection, ConnectionLost, Asking, RecoveryWaits
  <2> QED
    BY <2>1, <2>2
<1>3. AskedRequested'
  BY <1>1 DEF AskedRequested, Answering
<1>4. RequestedWanted' /\ RecoveryWaits'
  BY <1>1, <1>2 DEF Asking, RequestedWanted, RecoveryWaits
<1>5. WaitingNew'
  BY <1>2 DEF Asking, WaitingNew, Pending, ItemsInUse
<1>6. NoneForgotten' /\ PlacesAnswered'
  BY <1>1 DEF NoneForgotten, PlacesAnswered
<1> QED
  BY <1>3, <1>4, <1>5, <1>6 DEF Asking

(* A connection that begins has no requests, and no items that were not    *)
(* lost with the one before it.                                            *)
LEMMA ConnectingAsking ==
  ASSUME Types, Connection, Sources, Asking, Connecting
  PROVE  Asking'
PROOF
<1> USE DEF threadVars, channelVars, loginVars, stateVars, clientVars,
            itemVars, netVars, historyVars
<1>1. CASE ConnectRefused
  BY <1>1, AskingQueue DEF ConnectRefused, askingVars, OpenQueued
<1>2. CASE InitFails
  BY <1>2, RecoveredAsking DEF InitFails
<1>3. CASE ConnectAccepted \/ ChannelActive
  <2>1. requested = {} /\ ~connected
    BY <1>3 DEF ConnectAccepted, ChannelActive, Connection, Unconnected,
                Nothing
  <2>2. UNCHANGED <<item, astray, requested, pendingItems, recovering, waiting,
                    early, asked, wire>>
    BY <1>3 DEF ConnectAccepted, ChannelActive
  <2>3. connected' /\ ~early /\ ~recovering => ItemsInUse = {}
    <3>1. CASE ConnectAccepted
      BY <2>1, <3>1 DEF ConnectAccepted
    <3>2. CASE ChannelActive
      BY <2>1 DEF Sources, ItemsWithout, ItemsInUse
    <3> QED
      BY <1>3, <3>1, <3>2
  <2>4. AskedRequested' /\ RequestedWanted' /\ RecoveryWaits' /\ WaitingNew'
    BY <2>2 DEF Asking, AskedRequested, Answering, IsImage, RequestedWanted,
                RecoveryWaits, WaitingNew, Pending, ItemsInUse
  <2>5. NoneForgotten'
    BY <2>2, <2>3 DEF NoneForgotten, ItemsInUse
  <2>6. PlacesAnswered'
    BY <2>1, <2>2 DEF PlacesAnswered
  <2> QED
    BY <2>2, <2>4, <2>5, <2>6 DEF Asking
<1> QED
  BY <1>1, <1>2, <1>3 DEF Connecting

(* The requests of the subscriptions that waited. *)
LEMMA PumpAsking ==
  ASSUME Types, Connection, Sources, Asking, Pump
  PROVE  Asking'
PROOF
<1> USE DEF threadVars, channelVars, loginVars, stateVars, clientVars,
            itemVars, netVars, historyVars
<1> DEFINE added == ProcessPending \cap KnownNow
<1>1. /\ UNCHANGED <<requested, pendingItems, recovering, connected, early,
                     asked, wire, link>>
      /\ \A s \in Services :
           item'[s] = IF s \in added THEN "Subscribing" ELSE item[s]
      /\ astray' = astray \ added /\ queue' = queue \o Opens(added)
      /\ waiting' = IF ProcessPending = {} THEN waiting ELSE <<>>
  BY DEF Pump
<1>2. added \in SUBSET Services
  BY DEF KnownNow
<1>3. \A s \in added : item[s] = "none"
  BY <1>2 DEF ProcessPending, Asking, WaitingNew, ItemsInUse
<1>4. added # {} => ~recovering
  BY DEF ProcessPending, Sources, AfterDirectory
<1>5. waiting' = <<>> \/ (waiting' = waiting /\ added = {})
  BY <1>1
<1> HIDE DEF added
<1>6. \A s \in Services : OpenQueued(s) \/ s \in added => OpenQueued(s)'
  <2> TAKE s \in Services
  <2>1. Opens(added) \in Seq(Requests) /\ queue \in Seq(Requests)
    BY <1>2, OpensFacts DEF Types
  <2>2. s \in added => QueuedIn(Opens(added), s)
    BY <1>2, QueuedOpens
  <2>3. OpenQueued(s) \/ s \in added => QueuedIn(queue \o Opens(added), s)
    BY <2>1, <2>2, QueuedMore DEF OpenQueued, QueuedIn
  <2> QED
    BY <1>1, <2>3 DEF OpenQueued, QueuedIn
<1>7. AskedRequested'
  BY <1>1 DEF Asking, AskedRequested, Answering, IsImage
<1>8. RequestedWanted' /\ RecoveryWaits'
  BY <1>1, <1>2, <1>4 DEF Asking, RequestedWanted, RecoveryWaits
<1>9. WaitingNew'
  <2>1. CASE waiting' = <<>>
    BY <2>1 DEF WaitingNew, Pending
  <2>2. CASE waiting' = waiting /\ added = {}
    BY <1>1, <2>2 DEF Asking, WaitingNew, Pending, ItemsInUse
  <2> QED
    BY <1>5, <2>1, <2>2
<1>10. NoneForgotten'
  BY <1>1, <1>6 DEF Asking, NoneForgotten, ItemsInUse
<1>11. PlacesAnswered'
  <2> SUFFICES ASSUME link = "up",
                      NEW s \in (pendingItems \cap requested) \ (astray \ added)
               PROVE  item'[s] # "Live" /\ Answering(s)'
    BY <1>1 DEF PlacesAnswered
  <2>1. s \in Services /\ s \notin added
    BY <1>3 DEF Asking, RequestedWanted
  <2>2. item[s] # "Live" /\ Answering(s)
    BY <2>1 DEF Asking, PlacesAnswered
  <2> QED
    BY <1>1, <2>1, <2>2 DEF Answering, IsImage
<1> QED
  BY <1>1, <1>7, <1>8, <1>9, <1>10, <1>11 DEF Asking

(* One request goes out, if there is a channel for it. *)
LEMMA OpenAsking ==
  ASSUME Types, Connection, Sources, Asking, DispatchOpen
  PROVE  Asking'
PROOF
<1> USE DEF threadVars, channelVars, loginVars, stateVars, clientVars,
            itemVars, netVars, historyVars
<1>1. PICK s : s = Head(queue).service
  OBVIOUS
<1>2. /\ queue \in Seq(Requests) /\ queue # <<>> /\ phase = "dispatch"
      /\ Head(queue) \in Requests /\ Head(queue).op = "open"
      /\ queue' = Tail(queue)
  BY TailFacts DEF DispatchOpen, Dispatching, Types
<1>3. s \in Services /\ Head(queue) = Request("open", s)
  BY <1>1, <1>2 DEF Requests, Request
<1> DEFINE tried == item[s] = "Subscribing" /\ channel = "active"
           sent == tried /\ link # "broken"
<1>4. /\ pendingItems' = IF tried /\ ~sent THEN pendingItems \ {s}
                         ELSE pendingItems \cup (IF sent THEN {s} ELSE {})
      /\ requested' = requested \cup (IF sent THEN {s} ELSE {})
      /\ asked' = asked \cup (IF sent /\ link = "up" THEN {s} ELSE {})
      /\ UNCHANGED <<item, astray, recovering, connected, waiting, early, wire,
                     link>>
  BY <1>1 DEF DispatchOpen
<1>5. connected => channel = "active"
  BY <1>2 DEF Connection
<1>6. \A t \in Services : t # s /\ OpenQueued(t) => OpenQueued(t)'
  <2> SUFFICES ASSUME NEW t \in Services, t # s, OpenQueued(t)
               PROVE  OpenQueued(t)'
    OBVIOUS
  <2>1. Head(queue) # Request("open", t)
    BY <1>3 DEF Request
  <2>2. QueuedIn(Tail(queue), t)
    BY <1>2, <2>1, QueuedTail DEF OpenQueued, QueuedIn
  <2> QED
    BY <1>2, <2>2 DEF OpenQueued, QueuedIn
<1>7. /\ sent => item[s] = "Subscribing"
      /\ item[s] = "Subscribing" /\ connected /\ link = "up" => sent
      /\ tried /\ ~sent => link # "up"
  BY <1>5
<1> HIDE DEF tried, sent
<1>8. \A t \in Services :
        /\ Answering(t) => Answering(t)'
        /\ Answering(t)' => Answering(t) \/ (t = s /\ sent)
        /\ t = s /\ sent /\ link = "up" => Answering(t)'
  BY <1>4 DEF Answering, IsImage
<1>9. AskedRequested'
  BY <1>4, <1>8 DEF Asking, AskedRequested
<1>10. RequestedWanted'
  BY <1>4, <1>7 DEF Asking, RequestedWanted
<1>11. RecoveryWaits'
  BY <1>3, <1>4, <1>7 DEF Asking, RecoveryWaits
<1>12. WaitingNew'
  BY <1>4 DEF Asking, WaitingNew, Pending, ItemsInUse
<1>13. NoneForgotten'
  <2> SUFFICES ASSUME connected, link = "up", ~early, ~recovering,
                      NEW t \in ItemsInUse \ astray, t \notin requested'
               PROVE  item[t] = "Subscribing" /\ OpenQueued(t)'
    BY <1>4 DEF NoneForgotten, ItemsInUse
  <2>1. t \in Services /\ item[t] = "Subscribing" /\ OpenQueued(t)
    BY <1>4 DEF Asking, NoneForgotten, ItemsInUse
  <2>2. t # s
    BY <1>4, <1>7, <2>1
  <2> QED
    BY <1>6, <2>1, <2>2
<1>14. PlacesAnswered'
  <2> SUFFICES ASSUME link = "up",
                      NEW t \in (pendingItems' \cap requested') \ astray
               PROVE  item[t] # "Live" /\ Answering(t)'
    BY <1>4 DEF PlacesAnswered
  <2>1. CASE t = s /\ sent
    BY <1>3, <1>7, <1>8, <2>1
  <2>2. CASE ~(t = s /\ sent)
    <3>1. t \in pendingItems /\ t \in requested
      BY <1>4, <2>2
    <3>2. t \in Services
      BY <3>1 DEF Asking
    <3> QED
      BY <1>8, <3>1, <3>2 DEF Asking, PlacesAnswered
  <2> QED
    BY <2>1, <2>2
<1>15. pendingItems' \subseteq Services
  BY <1>3, <1>4 DEF Asking
<1> QED
  BY <1>9, <1>10, <1>11, <1>12, <1>13, <1>14, <1>15 DEF Asking

LEMMA PumpingAsking ==
  ASSUME Types, Connection, Sources, Asking, Pumping
  PROVE  Asking'
PROOF
<1> USE DEF threadVars, channelVars, loginVars, stateVars, clientVars,
            itemVars, netVars, historyVars
<1>1. CASE Pump
  BY <1>1, PumpAsking
<1>2. CASE PumpDone
  BY <1>2, AskingQueue DEF PumpDone, askingVars, OpenQueued
<1>3. CASE DispatchOpen
  BY <1>3, OpenAsking
<1>4. ASSUME NEW op \in {"login", "directory", "dictionary", "ask"},
             Dispatching(op)
      PROVE  /\ Tail(queue) \in Seq(Requests)
             /\ \A s \in Services : OpenQueued(s) => QueuedIn(Tail(queue), s)
  <2>1. queue \in Seq(Requests) /\ queue # <<>> /\ Head(queue).op # "open"
    BY <1>4 DEF Dispatching, Types
  <2>2. \A s \in Services : Head(queue) # Request("open", s)
    BY <2>1 DEF Request
  <2>3. \A s \in Services : OpenQueued(s) => QueuedIn(Tail(queue), s)
    BY <2>1, <2>2, QueuedTail DEF OpenQueued, QueuedIn
  <2> QED
    BY <2>1, <2>3, TailFacts
<1>5. CASE DispatchLogin \/ DispatchDirectory \/ DispatchDictionary
  <2>1. PICK op \in {"login", "directory", "dictionary"},
             what \in SUBSET ({"login", "directory"} \cup Parts) :
          /\ Dispatching(op) /\ queue' = Tail(queue)
          /\ asked' = asked \cup (IF Delivers THEN what ELSE {})
    BY <1>5 DEF DispatchLogin, DispatchDirectory, DispatchDictionary, Send
  <2>2. UNCHANGED <<item, astray, requested, pendingItems, recovering,
                    connected, waiting, early, wire, link>>
    BY <1>5 DEF DispatchLogin, DispatchDirectory, DispatchDictionary, Send
  <2>3. \A s \in Services : s \in asked' <=> s \in asked
    BY <2>1, SessionAssumption DEF SessionAssumption
  <2>4. \A s \in Services : Answering(s)' <=> Answering(s)
    BY <2>2, <2>3 DEF Answering, IsImage
  <2>5. \A s \in Services : OpenQueued(s) => OpenQueued(s)'
    BY <1>4, <2>1 DEF OpenQueued, QueuedIn
  <2> QED
    BY <2>2, <2>4, <2>5, AskingStay
<1>6. CASE DispatchAsk
  <2>1. /\ Dispatching("ask")
        /\ UNCHANGED <<requested, pendingItems, connected, waiting, asked,
                       wire, link>>
    BY <1>6 DEF DispatchAsk
  <2>2. /\ Tail(queue) \in Seq(Requests)
        /\ \A s \in Services : OpenQueued(s) => QueuedIn(Tail(queue), s)
    BY <1>4, <2>1
  <2>3. CASE Complete(loaded)
    <3>1. /\ DictionaryComplete(subscriberState, Tail(queue))
          /\ item' = Resubscribed(item) /\ astray' = StillAstray(astray)
      BY <1>6, <2>3 DEF DispatchAsk
    <3>2. \A s \in Services : Answering(s)' <=> Answering(s)
      BY <2>1 DEF Answering, IsImage
    <3>3. item \in [Services -> {"none", "Subscribing", "Live", "Stale"}]
      BY DEF Types
    <3> QED
      BY <2>1, <2>2, <3>1, <3>2, <3>3, ItemsAskNow, DictionaryAsking
  <2>4. CASE ~Complete(loaded)
    <3>1. /\ queue' = Tail(queue)
          /\ UNCHANGED <<early, recovering, item, astray>>
      BY <1>6, <2>4 DEF DispatchAsk
    <3>2. \A s \in Services : OpenQueued(s) => OpenQueued(s)'
      BY <2>2, <3>1 DEF OpenQueued, QueuedIn
    <3> QED
      BY <2>1, <3>1, <3>2, AskingQueue DEF askingVars
  <2> QED
    BY <2>3, <2>4
<1> QED
  BY <1>1, <1>2, <1>3, <1>5, <1>6 DEF Pumping

LEMMA ImageAsking ==
  ASSUME Types, Connection, Asking, ReadImage
  PROVE  Asking'
PROOF
<1> USE DEF threadVars, channelVars, loginVars, stateVars, clientVars,
            itemVars, netVars, historyVars, readVars
<1>1. /\ wire # <<>> /\ wire' = Tail(wire) /\ wire[1] \in WireMessages
      /\ wire[1].kind = "image" /\ Head(wire) = wire[1]
      /\ UNCHANGED <<asked, requested, recovering, connected, waiting, early,
                     link, queue>>
  BY WireRead DEF ReadImage, Reading, ReadOn
<1>2. PICK s \in Services : s = wire[1].service
  BY <1>1 DEF WireMessages
<1>3. \/ /\ inSuspect /\ astray' = astray \cup {s}
         /\ UNCHANGED <<item, pendingItems>>
      \/ /\ item' = [item EXCEPT ![s] = "Live"] /\ astray' = astray
         /\ pendingItems' = IF item[s] = "Live" THEN pendingItems
                                                ELSE pendingItems \ {s}
  BY <1>1, <1>2 DEF ReadImage, Answered
<1>4. 1 \in 1 .. Len(wire)
  BY <1>1, WireRead
<1>5. s \in requested /\ item[s] # "none"
  BY <1>1, <1>2, <1>4
  DEF Asking, AskedRequested, Answering, IsImage, RequestedWanted
<1>6. \A t \in Services : /\ Answering(t)' => Answering(t)
                          /\ t # s => (Answering(t) => Answering(t)')
  BY <1>1, <1>2, AnsweringRead DEF IsImage
<1>7. \A t \in Services : \/ item'[t] = item[t]
                          \/ t = s /\ item'[t] = "Live"
  BY <1>3 DEF Types
<1>8. AskedRequested' /\ WaitingNew'
  BY <1>1, <1>5, <1>6, <1>7
  DEF Asking, AskedRequested, WaitingNew, Pending, ItemsInUse
<1>9. RequestedWanted' /\ pendingItems' \subseteq Services
  BY <1>1, <1>3, <1>5, <1>7 DEF Asking, RequestedWanted
<1>10. RecoveryWaits'
  BY <1>1, <1>5, <1>7 DEF Asking, RecoveryWaits
<1>11. NoneForgotten'
  BY <1>1, <1>3, <1>5, <1>7
  DEF Asking, NoneForgotten, ItemsInUse, OpenQueued
<1>12. PlacesAnswered'
  <2> SUFFICES ASSUME link = "up",
                      NEW t \in (pendingItems' \cap requested) \ astray'
               PROVE  item'[t] # "Live" /\ Answering(t)'
    BY <1>1 DEF PlacesAnswered
  <2>1. t \in pendingItems /\ t \notin astray /\ t \in Services
    BY <1>3 DEF Asking
  <2>2. item[t] # "Live" /\ Answering(t)
    BY <2>1 DEF Asking, PlacesAnswered
  <2>3. t # s
    BY <1>3, <2>2
  <2> QED
    BY <1>6, <1>7, <2>1, <2>2, <2>3
<1> QED
  BY <1>8, <1>9, <1>10, <1>11, <1>12 DEF Asking

LEMMA ReadingAsking ==
  ASSUME Types, Connection, Asking, ReadMessage
  PROVE  Asking'
PROOF
<1> USE DEF threadVars, channelVars, loginVars, stateVars, clientVars,
            itemVars, netVars, historyVars, readVars
<1>1. CASE ReadLoginRecover
  BY <1>1, RecoveredAsking DEF ReadLoginRecover
<1>2. CASE ReadImage
  BY <1>2, ImageAsking
<1> SUFFICES ASSUME ~ReadLoginRecover, ~ReadImage PROVE Asking'
  BY <1>1, <1>2
<1>3. /\ wire # <<>> /\ wire' = Tail(wire) /\ Head(wire).kind # "image"
      /\ UNCHANGED <<link, asked, requested, pendingItems, connected, waiting>>
  BY DEF ReadMessage, ReadLogin, ReadDirectory, ReadDirectoryUpdate,
         ReadBadDirectory, ReadDictionary, Reading, ReadOn, ReadFailed
<1>4. \A s \in Services : Answering(s)' <=> Answering(s)
  BY <1>3, WireRead, AnsweringRead DEF IsImage
<1>5. /\ queue \in Seq(Requests)
      /\ item \in [Services -> {"none", "Subscribing", "Live", "Stale"}]
  BY DEF Types
<1>6. /\ \A s \in Services : OpenQueued(s) => QueuedIn(queue, s)
      /\ \A op \in {"directory", "dictionary"}, s \in Services :
           OpenQueued(s) => QueuedIn(Append(queue, Request(op, None)), s)
  <2>1. \A s \in Services : OpenQueued(s) => QueuedIn(queue, s)
    BY DEF OpenQueued, QueuedIn
  <2>2. ASSUME NEW op \in {"directory", "dictionary"}, NEW s \in Services, OpenQueued(s)
        PROVE  QueuedIn(Append(queue, Request(op, None)), s)
    <3>1. Request(op, None) \in Requests
      BY PlainRequests
    <3> QED
      BY <1>5, <2>1, <2>2, <3>1, QueuedAppend
  <2> QED
    BY <2>1, <2>2
<1>7. CASE ReadLogin \/ ReadBadDirectory
  <2>1. UNCHANGED <<item, astray, recovering, early>>
    BY <1>7 DEF ReadLogin, ReadBadDirectory
  <2>2. queue' = queue \/ queue' = Append(queue, Request("directory", None))
    BY <1>7 DEF ReadLogin, LoginResponse, ReadBadDirectory
  <2>3. \A s \in Services : OpenQueued(s) => OpenQueued(s)'
    BY <1>6, <2>2 DEF OpenQueued, QueuedIn
  <2> QED
    BY <1>3, <1>4, <2>1, <2>3, AskingStay
<1>8. CASE ReadDirectory \/ ReadDirectoryUpdate
  <2>1. PICK up : up = Head(wire).up
    OBVIOUS
  <2>2. ItemsAsk(ItemsAfter(up), AstrayAfter(up))
    BY ItemsAskSet
  <2>3. CASE ReadDirectory /\ Complete(loaded)
    <3>1. /\ DictionaryComplete("requestingDictionary", queue)
          /\ item' = Resubscribed(ItemsAfter(up))
          /\ astray' = StillAstray(AstrayAfter(up))
      BY <2>1, <2>3 DEF ReadDirectory
    <3>2. ItemsAfter(up)
            \in [Services -> {"none", "Subscribing", "Live", "Stale"}]
      BY <1>5, ItemsTyped
    <3> QED
      BY <1>3, <1>4, <1>5, <1>6, <2>2, <3>1, <3>2, DictionaryAsking
  <2>4. CASE ReadDirectoryUpdate \/ ~Complete(loaded)
    <3>1. /\ item' = ItemsAfter(up) /\ astray' = AstrayAfter(up)
          /\ UNCHANGED <<early, recovering>>
      BY <1>8, <2>1, <2>4 DEF ReadDirectory, ReadDirectoryUpdate
    <3>2. queue' = queue \/ queue' = Append(queue, Request("dictionary", None))
      BY <1>8, <2>4 DEF ReadDirectory, ReadDirectoryUpdate
    <3>3. \A s \in Services : OpenQueued(s) => OpenQueued(s)'
      BY <1>6, <3>2 DEF OpenQueued, QueuedIn
    <3> QED
      BY <1>3, <1>4, <2>2, <3>1, <3>3, ItemsTaken
  <2> QED
    BY <1>8, <2>3, <2>4
<1>9. CASE ReadDictionary
  <2>1. CASE Head(wire).decodes /\ Complete(loaded')
    <3>1. /\ DictionaryComplete(subscriberState, queue)
          /\ item' = Resubscribed(item) /\ astray' = StillAstray(astray)
      BY <1>9, <2>1 DEF ReadDictionary
    <3> QED
      BY <1>3, <1>4, <1>5, <1>6, <3>1, ItemsAskNow, DictionaryAsking
  <2>2. CASE ~(Head(wire).decodes /\ Complete(loaded'))
    <3>1. UNCHANGED <<item, astray, recovering, early, queue>>
      BY <1>9, <2>2 DEF ReadDictionary
    <3> QED
      BY <1>3, <1>4, <3>1, AskingStay DEF OpenQueued
  <2> QED
    BY <2>1, <2>2
<1> QED
  BY <1>7, <1>8, <1>9 DEF ReadMessage

LEMMA TurningAsking ==
  ASSUME Types, Asking, ReadPing \/ Closing \/ Turning
  PROVE  Asking'
PROOF
<1> USE DEF threadVars, channelVars, loginVars, stateVars, clientVars,
            itemVars, netVars, historyVars
<1>1. CASE ReadPing \/ Reconnect \/ ReadDone \/ PingsNotDue
           \/ (CheckReceived /\ receivedServerMsg)
  <2>1. UNCHANGED askingVars /\ UNCHANGED queue
    BY <1>1 DEF ReadPing, Reconnect, ReadDone, PingsNotDue, CheckReceived,
                askingVars
  <2> QED
    BY <2>1, AskingQueue DEF OpenQueued
<1>2. CASE RunEnds
  <2>1. /\ UNCHANGED <<item, astray, pendingItems, recovering, connected,
                       waiting, early, queue>>
        /\ requested' = {} /\ asked' = {} /\ wire' = <<>> /\ link' = "none"
    BY <1>2 DEF RunEnds
  <2>2. AskedRequested'
    BY <2>1 DEF AskedRequested, Answering
  <2>3. RequestedWanted' /\ RecoveryWaits' /\ WaitingNew'
    BY <2>1 DEF Asking, RequestedWanted, RecoveryWaits, WaitingNew, Pending,
                ItemsInUse
  <2>4. NoneForgotten' /\ PlacesAnswered'
    BY <2>1 DEF NoneForgotten, PlacesAnswered
  <2> QED
    BY <2>1, <2>2, <2>3, <2>4 DEF Asking
<1>3. CASE ReadFails \/ ReadAfterClose \/ PingFails
           \/ (CheckReceived /\ ~receivedServerMsg)
  <2>1. RecoverConnection /\ UNCHANGED <<waiting, pendingItems>>
    BY <1>3 DEF ReadFails, ReadAfterClose, PingFails, CheckReceived
  <2> QED
    BY <2>1, RecoveredAsking
<1> QED
  BY <1>1, <1>2, <1>3 DEF Closing, Turning

LEMMA ClientAsking ==
  ASSUME Types, Asking, Client \/ UNCHANGED vars
  PROVE  Asking'
PROOF
<1> USE DEF threadVars, channelVars, loginVars, stateVars, clientVars,
            itemVars, netVars, historyVars
<1>1. ASSUME NEW s \in Names, Subscribe(s) PROVE Asking'
  <2>1. /\ s \notin ItemsInUse /\ waiting' = Append(waiting, s)
        /\ UNCHANGED stoppedVars /\ UNCHANGED <<stateVars, queue>>
    BY <1>1 DEF Subscribe
  <2>2. UNCHANGED <<item, astray, requested, pendingItems, recovering,
                    connected, early, asked, wire, link>>
    BY <2>1 DEF stoppedVars
  <2>3. Pending' \subseteq Pending \cup {s}
    <3>1. PICK n \in Nat :
            /\ n = Len(waiting) /\ Len(Append(waiting, s)) = n + 1
            /\ Append(waiting, s) \in Seq(Names)
            /\ Append(waiting, s)[n + 1] = s
            /\ \A i \in 1 .. n : Append(waiting, s)[i] = waiting[i]
      BY AppendFacts DEF Types
    <3>2. /\ DOMAIN Append(waiting, s) = 1 .. n + 1
          /\ DOMAIN waiting = 1 .. n
      BY <3>1 DEF Types
    <3>3. \A i \in 1 .. n + 1 : i = n + 1 \/ i \in 1 .. n
      BY <3>1
    <3> QED
      BY <2>1, <3>1, <3>2, <3>3 DEF Pending
  <2>4. WaitingNew'
    BY <2>1, <2>2, <2>3 DEF Asking, WaitingNew, ItemsInUse
  <2>5. AskedRequested' /\ RequestedWanted' /\ RecoveryWaits'
    BY <2>2 DEF Asking, AskedRequested, Answering, IsImage, RequestedWanted,
                RecoveryWaits
  <2>6. NoneForgotten' /\ PlacesAnswered'
    BY <2>1, <2>2 DEF Asking, NoneForgotten, ItemsInUse, OpenQueued,
                      PlacesAnswered, Answering, IsImage
  <2> QED
    BY <2>2, <2>4, <2>5, <2>6 DEF Asking
<1>2. CASE AskDictionary
  <2>1. /\ UNCHANGED askingVars
        /\ queue' = Append(queue, Request("ask", None))
    BY <1>2 DEF AskDictionary, stoppedVars, askingVars
  <2>2. \A s \in Services : OpenQueued(s) => OpenQueued(s)'
    BY <2>1, QueuedAppend, PlainRequests DEF OpenQueued, QueuedIn, Types
  <2> QED
    BY <2>1, <2>2, AskingQueue
<1>3. CASE Stop \/ UNCHANGED vars
  <2>1. UNCHANGED askingVars /\ UNCHANGED queue
    BY <1>3 DEF Stop, stoppedVars, askingVars, vars
  <2> QED
    BY <2>1, AskingQueue DEF OpenQueued
<1> QED
  BY <1>1, <1>2, <1>3 DEF Client

(* An answer takes its request away and puts its message on the wire. *)
LEMMA RMDSAsking ==
  ASSUME Types, Asking, RMDS
  PROVE  Asking'
PROOF
<1> USE DEF threadVars, channelVars, loginVars, stateVars, clientVars,
            itemVars, netVars, historyVars, rmdsVars
<1>1. /\ UNCHANGED <<item, astray, requested, pendingItems, recovering,
                     connected, waiting, early, queue>>
      /\ \A s \in Services : OpenQueued(s) => OpenQueued(s)'
  BY DEF RMDS, AnswerLogin, AnswerLoginBadly, LoginChanges, AnswerDirectory,
         AnswerDirectoryBadly, AnswerDictionary, AnswerItem, ServiceChanges,
         BadUpdate, LinkFails, Answers, OpenQueued
<1>2. CASE LinkFails
  <2>1. asked' = {} /\ link' # "up" /\ wire' = wire
    BY <1>2 DEF LinkFails
  <2>2. \A s \in Services : Answering(s)' => Answering(s)
    BY <2>1 DEF Answering, IsImage
  <2> QED
    BY <1>1, <2>1, <2>2, AskingStay
<1> SUFFICES ASSUME ~LinkFails PROVE Asking'
  BY <1>2
<1>3. link' = link
  BY DEF RMDS, AnswerLogin, AnswerLoginBadly, LoginChanges, AnswerDirectory,
         AnswerDirectoryBadly, AnswerDictionary, AnswerItem, ServiceChanges,
         BadUpdate, Answers
<1>4. CASE AnswerItem
  <2>1. PICK s \in Services :
          /\ s \in asked /\ asked' = asked \ {s}
          /\ wire' = Append(wire, [kind |-> "image", service |-> s])
    BY <1>4 DEF AnswerItem, Answers
  <2>2. PICK m \in WireMessages : /\ wire' = Append(wire, m)
                                  /\ m.kind = "image" /\ m.service = s
    BY <2>1, MessagesTyped
  <2>3. \A t \in Services : Answering(t)' <=> Answering(t)
    <3> TAKE t \in Services
    <3>1. CASE t = s
      BY <2>1, <2>2, <3>1, AnsweringSent DEF Answering
    <3>2. CASE t # s
      <4>1. t \in asked' <=> t \in asked
        BY <2>1, <3>2
      <4>2. /\ Answering(t)' => t \in asked' \/ Answering(t)
            /\ Answering(t) => Answering(t)' \/ t \in asked
        BY <2>2, <3>2, AnsweringSent
      <4> QED
        BY <4>1, <4>2 DEF Answering
    <3> QED
      BY <3>1, <3>2
  <2> QED
    BY <1>1, <1>3, <2>3, AskingStay
<1>5. CASE ~AnswerItem
  <2>1. \/ wire' = wire
        \/ \E m \in WireMessages : wire' = Append(wire, m) /\ m.kind # "image"
    <3>1. CASE AnswerLogin \/ AnswerLoginBadly \/ LoginChanges
      <4>1. PICK m \in LoginTroubles
                         \cup {LoginMsg("refresh", "ok", TRUE, TRUE)} :
              wire' = Append(wire, m)
        BY <3>1 DEF AnswerLogin, AnswerLoginBadly, LoginChanges, Answers
      <4>2. m.kind = "login"
        BY <4>1 DEF LoginTroubles, LoginMsg
      <4> QED
        BY <4>1, <4>2, MessagesTyped
    <3>2. CASE AnswerDirectory \/ AnswerDirectoryBadly \/ BadUpdate
      <4>1. PICK b, c \in BOOLEAN :
              wire' = Append(wire, DirectoryMsg(b, c, serviceUp))
        BY <3>2 DEF AnswerDirectory, AnswerDirectoryBadly, BadUpdate, Answers
      <4>2. DirectoryMsg(b, c, serviceUp).kind = "directory"
        BY DEF DirectoryMsg
      <4> QED
        BY <4>1, <4>2, MessagesTyped
    <3>3. CASE AnswerDictionary
      <4>1. PICK part \in Parts, b \in BOOLEAN :
              wire' = Append(wire, [kind |-> "dictionary", part |-> part,
                                    decodes |-> b])
        BY <3>3 DEF AnswerDictionary, Answers
      <4> QED
        BY <4>1, MessagesTyped
    <3>4. CASE ServiceChanges
      <4>1. PICK s \in Services :
              \/ wire' = wire
              \/ wire' = Append(wire, DirectoryMsg(FALSE, TRUE,
                                        [t \in {s} |-> ~serviceUp[s]]))
        BY <3>4 DEF ServiceChanges
      <4>2. PICK b \in BOOLEAN : b = ~serviceUp[s]
        OBVIOUS
      <4>3. DirectoryMsg(FALSE, TRUE, [t \in {s} |-> b]).kind = "directory"
        BY DEF DirectoryMsg
      <4>4. DirectoryMsg(FALSE, TRUE, [t \in {s} |-> b]) \in WireMessages
        BY MessagesTyped
      <4> QED
        BY <4>1, <4>2, <4>3, <4>4
    <3> QED
      BY <1>5, <3>1, <3>2, <3>3, <3>4 DEF RMDS
  <2>2. \A s \in Services : s \in asked' <=> s \in asked
    BY <1>5, SessionAssumption
    DEF RMDS, AnswerLogin, AnswerLoginBadly, LoginChanges, AnswerDirectory,
        AnswerDirectoryBadly, AnswerDictionary, ServiceChanges, BadUpdate,
        Answers, SessionAssumption
  <2>3. CASE wire' = wire
    BY <1>1, <1>3, <2>2, <2>3, AskingStay DEF Answering, IsImage
  <2>4. CASE wire' # wire
    <3>1. PICK m \in WireMessages : wire' = Append(wire, m) /\ m.kind # "image"
      BY <2>1, <2>4
    <3>2. \A s \in Services : Answering(s)' <=> Answering(s)
      BY <2>2, <3>1, AnsweringSent DEF Answering
    <3> QED
      BY <1>1, <1>3, <3>2, AskingStay
  <2> QED
    BY <2>3, <2>4
<1> QED
  BY <1>4, <1>5

LEMMA AskingStep ==
  ASSUME Types, Connection, Sources, Asking, [Next]_vars
  PROVE  Asking'
BY ConnectingAsking, PumpingAsking, ReadingAsking, TurningAsking,
   ClientAsking, RMDSAsking DEF Next, Thread

-----------------------------------------------------------------------------
(* The other variables keep their types too.                               *)

Phases == {"connect", "init", "pump", "dispatch", "read", "closed",
           "recover", "pings", "ended"}
SubscriberStates == {"unconnected", "connecting", "loggingin",
  "requestingSourceDirectory", "requestingDictionary", "live"}

States ==
  /\ phase \in Phases /\ runThread \in BOOLEAN /\ shouldRecover \in BOOLEAN
  /\ channel \in {"none", "initializing", "active"}
  /\ sessionChannel \in {"none", "current", "dangling"}
  /\ subscriberState \in SubscriberStates
  /\ reply \in {"none", "waiting", "sent", "unsent"}
  /\ refused \subseteq Names

Counts ==
  /\ budget \in 0 .. MaxDispatches
  /\ host \in 1 .. NumHosts /\ entry \in DOMAIN Schedule /\ retries \in Nat
  /\ NoEntryWraps => retries \in 1 .. Schedule[entry]

LEMMA StatesStep ==
  ASSUME Types, States, [Next]_vars
  PROVE  States'
PROOF
<1> USE DEF threadVars, channelVars, loginVars, stateVars, clientVars,
            itemVars, netVars, historyVars, States, Phases, SubscriberStates
<1>1. CASE Pump
  <2>1. Pending \subseteq Names
    BY DEF Types, Pending
  <2>2. refused' \subseteq Names
    BY <1>1, <2>1 DEF Pump, ProcessPending
  <2> QED
    BY <1>1, <2>2 DEF Pump
<1>2. CASE Connecting
  BY <1>2 DEF Connecting, ConnectRefused, ConnectAccepted, InitFails,
              ChannelActive, RecoverConnection, ConnectionLost
<1>3. CASE Pumping /\ ~Pump
  BY <1>3 DEF Pumping, PumpDone, DispatchLogin, DispatchDirectory,
              DispatchDictionary, DispatchOpen, DispatchAsk, Send,
              DictionaryComplete, ReplyNow
<1>4. CASE ReadMessage
  <2>1. CASE ReadLogin
    BY <1>4, <2>1 DEF ReadLogin, LoginResponse, readVars, ReadOn, ReadFailed
  <2>2. CASE ReadLoginRecover
    BY <1>4, <2>2 DEF ReadLoginRecover, readVars, RecoverConnection,
                      ConnectionLost
  <2>3. CASE ReadDirectory
    BY <1>4, <2>3 DEF ReadDirectory, readVars, ReadOn, DictionaryComplete,
                      ReplyNow
  <2>4. CASE ReadDictionary
    BY <1>4, <2>4 DEF ReadDictionary, readVars, ReadOn, DictionaryComplete,
                      ReplyNow
  <2>5. CASE ReadDirectoryUpdate \/ ReadBadDirectory \/ ReadImage
    BY <1>4, <2>5 DEF ReadDirectoryUpdate, ReadBadDirectory, ReadImage,
                      readVars, ReadOn, ReadFailed
  <2> QED
    BY <1>4, <2>1, <2>2, <2>3, <2>4, <2>5 DEF ReadMessage
<1>5. CASE ReadPing \/ Closing \/ Turning
  <2>1. CASE ReadPing \/ Reconnect \/ ReadDone \/ PingsNotDue \/ RunEnds
             \/ (CheckReceived /\ receivedServerMsg)
    BY <2>1 DEF ReadPing, Reconnect, ReadDone, PingsNotDue, RunEnds,
                CheckReceived
  <2>2. CASE ReadFails \/ ReadAfterClose \/ PingFails
             \/ (CheckReceived /\ ~receivedServerMsg)
    <3>1. /\ RecoverConnection /\ phase' \in Phases
          /\ UNCHANGED <<runThread, reply, refused>>
      BY <2>2 DEF ReadFails, ReadAfterClose, PingFails, CheckReceived
    <3> QED
      BY <3>1 DEF RecoverConnection, ConnectionLost
  <2> QED
    BY <1>5, <2>1, <2>2 DEF Closing, Turning
<1>6. CASE Client
  <2>1. /\ UNCHANGED <<phase, shouldRecover, channel, sessionChannel, refused>>
        /\ runThread' = runThread \/ runThread' = FALSE
        /\ subscriberState' = subscriberState
             \/ subscriberState' = "unconnected"
        /\ reply' = reply \/ reply' = "unsent" \/ reply' = "waiting"
    BY <1>6 DEF Client, Subscribe, AskDictionary, Stop, stoppedVars
  <2>2. runThread' \in BOOLEAN
    BY <2>1
  <2>3. subscriberState' \in SubscriberStates
    BY <2>1
  <2>4. reply' \in {"none", "waiting", "sent", "unsent"}
    BY <2>1
  <2> QED
    BY <2>1, <2>2, <2>3, <2>4
<1>7. CASE RMDS
  <2>1. UNCHANGED rmdsVars
    BY <1>7 DEF RMDS, AnswerLogin, AnswerLoginBadly, LoginChanges,
                AnswerDirectory, AnswerDirectoryBadly, AnswerDictionary,
                AnswerItem, ServiceChanges, BadUpdate, LinkFails, Answers
  <2> QED
    BY <2>1 DEF rmdsVars
<1>8. CASE UNCHANGED vars
  BY <1>8 DEF vars
<1> QED
  BY <1>1, <1>2, <1>3, <1>4, <1>5, <1>6, <1>7, <1>8 DEF Next, Thread

LEMMA DivMod ==
  ASSUME NEW w \in Nat \ {0}, NEW a \in Int
  PROVE  /\ a \div w \in Int /\ a % w \in 0 .. w - 1
         /\ a = w * (a \div w) + (a % w)
OBVIOUS

LEMMA Apart ==
  ASSUME NEW w \in Nat \ {0}, NEW x \in Int, x >= 1
  PROVE  w * x >= w
OBVIOUS

LEMMA SmallRemainder ==
  ASSUME NEW w \in Nat \ {0}, NEW a \in 0 .. w - 1
  PROVE  a % w = a
PROOF
<1> a \in Int
  OBVIOUS
<1> PICK d \in Int, m \in 0 .. w - 1 : d = a \div w /\ m = a % w
  BY DivMod
<1>1. m = a % w /\ a = w * d + m
  BY DivMod
<1>2. CASE d >= 1
  <2>1. w * d >= w
    BY <1>2, Apart
  <2> QED
    BY <1>1, <2>1
<1>3. CASE -d >= 1
  <2>1. w * (-d) >= w
    BY <1>3, Apart
  <2>2. w * d <= -w
    BY <2>1
  <2> QED
    BY <1>1, <2>2
<1>4. CASE d = 0
  BY <1>1, <1>4
<1> QED
  BY <1>2, <1>3, <1>4

(* One host after the other, one entry of the schedule after the other. *)
LEMMA HostCounted ==
  ASSUME Counts, NextHost
  PROVE  /\ host' \in 1 .. NumHosts /\ entry' \in DOMAIN Schedule
         /\ retries' \in Nat
         /\ NoEntryWraps => retries' \in 1 .. Schedule[entry']
PROOF
<1>1. PICK n \in Nat : n = Len(Schedule)
  BY SessionAssumption DEF SessionAssumption
<1>2. /\ DOMAIN Schedule = 1 .. n /\ \A i \in 1 .. n : Schedule[i] \in Nat
      /\ NumHosts \in Nat /\ RetryWidth \in Nat \ {0}
  BY <1>1, SessionAssumption DEF SessionAssumption
<1>3. CASE retries = 1
  <2>1. /\ host' = IF host = NumHosts THEN 1 ELSE host + 1
        /\ entry' = IF host = NumHosts /\ entry < n THEN entry + 1 ELSE entry
        /\ retries' = Schedule[entry']
    BY <1>1, <1>3 DEF NextHost
  <2>2. host' \in 1 .. NumHosts /\ entry' \in 1 .. n
    BY <1>2, <2>1 DEF Counts
  <2> QED
    BY <1>2, <2>1, <2>2 DEF NoEntryWraps
<1>4. CASE retries # 1
  <2>1. retries' = (retries - 1) % RetryWidth /\ UNCHANGED <<host, entry>>
    BY <1>4 DEF NextHost
  <2>2. retries - 1 \in Int /\ retries' \in Nat
    BY <1>2, <2>1 DEF Counts
  <2>3. ASSUME NoEntryWraps PROVE retries' \in 1 .. Schedule[entry]
    <3>1. /\ Schedule[entry] \in 1 .. RetryWidth
          /\ retries \in 1 .. Schedule[entry]
      BY <1>2, <2>3 DEF NoEntryWraps, Counts
    <3>2. retries - 1 \in 0 .. RetryWidth - 1
      BY <1>2, <3>1
    <3>3. (retries - 1) % RetryWidth = retries - 1
      BY <1>2, <3>2, SmallRemainder
    <3> QED
      BY <1>2, <1>4, <2>1, <3>1, <3>3
  <2> QED
    BY <2>1, <2>2, <2>3 DEF Counts
<1> QED
  BY <1>3, <1>4

LEMMA CountsStep ==
  ASSUME Types, Counts, [Next]_vars
  PROVE  Counts'
PROOF
<1>1. NextHost \/ UNCHANGED configVars
  BY DEF Next, Thread, Connecting, ConnectRefused, ConnectAccepted, InitFails,
         ChannelActive, Pumping, Pump, PumpDone, DispatchLogin,
         DispatchDirectory, DispatchDictionary, DispatchOpen, DispatchAsk,
         Send, ReadMessage, ReadLogin, ReadLoginRecover, ReadDirectory,
         ReadDirectoryUpdate, ReadBadDirectory, ReadDictionary, ReadImage,
         readVars, ReadPing, Closing, ReadFails, ReadAfterClose, Reconnect,
         PingFails, RunEnds, Turning, ReadDone, PingsNotDue, CheckReceived,
         Client, Subscribe, AskDictionary, Stop, stoppedVars, RMDS,
         AnswerLogin, AnswerLoginBadly, LoginChanges, AnswerDirectory,
         AnswerDirectoryBadly, AnswerDictionary, AnswerItem, ServiceChanges,
         BadUpdate, LinkFails, Answers, rmdsVars, vars
<1>2. budget' \in 0 .. MaxDispatches
  <2>1. MaxDispatches \in Nat
    BY SessionAssumption DEF SessionAssumption
  <2>2. CASE Pump
    <3>1. PICK n \in Nat : n = Len(queue')
      BY TypesStep DEF Types
    <3>2. budget' = IF n < MaxDispatches THEN n ELSE MaxDispatches
      BY <2>2, <3>1 DEF Pump
    <3> QED
      BY <2>1, <3>1, <3>2
  <2>3. CASE \E op \in {"login", "directory", "dictionary", "open", "ask"} :
               Dispatching(op)
    BY <2>1, <2>3 DEF Dispatching, CanDispatch, Counts
  <2>4. CASE UNCHANGED budget \/ budget' = 0
    BY <2>1, <2>4 DEF Counts
  <2>5. \/ Pump \/ UNCHANGED budget \/ budget' = 0
        \/ \E op \in {"login", "directory", "dictionary", "open", "ask"} :
             Dispatching(op)
    BY DEF Next, Thread, Connecting, ConnectRefused, ConnectAccepted,
         InitFails, ChannelActive, Pumping, PumpDone, DispatchLogin,
         DispatchDirectory, DispatchDictionary, DispatchOpen, DispatchAsk,
         Send, ReadMessage, ReadLogin, ReadLoginRecover, ReadDirectory,
         ReadDirectoryUpdate, ReadBadDirectory, ReadDictionary, ReadImage,
         readVars, ReadPing, Closing, ReadFails, ReadAfterClose, Reconnect,
         PingFails, RunEnds, Turning, ReadDone, PingsNotDue, CheckReceived,
         Client, Subscribe, AskDictionary, Stop, stoppedVars, RMDS,
         AnswerLogin, AnswerLoginBadly, LoginChanges, AnswerDirectory,
         AnswerDirectoryBadly, AnswerDictionary, AnswerItem, ServiceChanges,
         BadUpdate, LinkFails, Answers, rmdsVars, vars, threadVars
  <2> QED
    BY <2>2, <2>3, <2>4, <2>5
<1> QED
  BY <1>1, <1>2, HostCounted DEF Counts, configVars

-----------------------------------------------------------------------------
(* The theorems.                                                           *)

LEMMA InitInv ==
  ASSUME Init
  PROVE  Inv
PROOF
<1>1. Types
  <2>1. /\ queue \in Seq(Requests) /\ waiting \in Seq(Names)
        /\ wire \in Seq(WireMessages)
    BY DEF Init
  <2>2. /\ source \in [Services -> {"unknown", "down", "up"}]
        /\ item \in [Services -> {"none", "Subscribing", "Live", "Stale"}]
        /\ serviceUp \in [Services -> BOOLEAN]
    BY DEF Init
  <2>3. flags \in LoginFlags
    BY DEF Init, NewFlags, LoginFlags
  <2>4. loaded \subseteq Parts
    BY SessionAssumption DEF Init, SessionAssumption
  <2>5. /\ connected \in BOOLEAN /\ recovering \in BOOLEAN
        /\ early \in BOOLEAN /\ inSuspect \in BOOLEAN
    BY DEF Init
  <2> QED
    BY <2>1, <2>2, <2>3, <2>4, <2>5 DEF Types
<1>2. Connection
  BY DEF Init, Connection, Nothing, Unconnected
<1>3. Sources
  BY DEF Init, Sources, ImagesMeetSource, DirectoryStands, AfterDirectory,
         ItemsAfterDirectory, ItemsWithout, LiveHasSource
<1>4. Asking
  BY DEF Init, Asking, AskedRequested, Answering, RequestedWanted,
         RecoveryWaits, WaitingNew, Pending, NoneForgotten, PlacesAnswered
<1>5. News
  BY DEF Init, News
<1> QED
  BY <1>1, <1>2, <1>3, <1>4, <1>5 DEF Inv

LEMMA InvStep ==
  ASSUME Inv, [Next]_vars
  PROVE  Inv'
BY TypesStep, ConnectionStep, SourcesStep, AskingStep, NewsStep DEF Inv

LEMMA AlwaysInv == Spec => []Inv
PROOF
<1>1. Init => Inv
  BY InitInv
<1>2. Inv /\ [Next]_vars => Inv'
  BY InvStep
<1> QED
  BY <1>1, <1>2, PTL DEF Spec

\* A session that is live has asked for every item of its client on the
\* connection it has now, or has the request in its queue, whatever was lost,
\* refused or went down before (SetAllStale, ResubscribeAll, the pending
\* list).
THEOREM EveryItemAsked == Spec => []EveryItemRequested
PROOF
<1>1. Inv => EveryItemRequested
  BY DEF Inv, Sources, AfterDirectory, Asking, NoneForgotten,
         EveryItemRequested
<1> QED
  BY <1>1, AlwaysInv, PTL

\* A place in the throttle of UPAStreamManager is held only for an answer
\* that is on its way, or for an item that is to be asked for again.
THEOREM PlacesReturned == Spec => []PlacesComeBack
PROOF
<1>1. ASSUME Inv PROVE PlacesComeBack
  <2> SUFFICES ASSUME link = "up", NEW s \in pendingItems \ astray,
                      s \in requested, s \notin asked
               PROVE  [kind |-> "image", service |-> s] \in Range(wire)
    BY DEF PlacesComeBack
  <2>1. s \in Services /\ Answering(s) /\ wire \in Seq(WireMessages)
    BY <1>1 DEF Inv, Types, Asking, PlacesAnswered
  <2>2. PICK i \in 1 .. Len(wire) : IsImage(i, s)
    BY <2>1 DEF Answering
  <2>3. wire[i] \in WireMessages /\ i \in DOMAIN wire
    BY <2>1
  <2>4. wire[i] = [kind |-> "image", service |-> s]
    BY <2>2, <2>3 DEF IsImage, WireMessages
  <2> QED
    BY <2>3, <2>4 DEF Range
<1> QED
  BY <1>1, AlwaysInv, PTL

\* An item the client sees as live has a connection and a service that is up
\* behind it (RMDSSource::SetState, UPASubscription::ProcessRefresh).
THEOREM LiveIsBacked == Spec => []LiveHasSource
PROOF
<1>1. Inv => LiveHasSource
  BY DEF Inv, Sources
<1> QED
  BY <1>1, AlwaysInv, PTL

\* "Complete" and "reconnect" are the last word to the client only while the
\* login stands and the dictionary is there (RMDSSubscriber's notifications).
THEOREM NewsIsTrue == Spec => []GoodNewsIsTrue
PROOF
<1>1. Inv => GoodNewsIsTrue
  BY DEF Inv, News, GoodNewsIsTrue
<1> QED
  BY <1>1, AlwaysInv, PTL

\* A name of the directory is not answered as a bad symbol
\* (ProcessPendingSubcriptions).
THEOREM BadSymbolsUnknown == Spec => KnownNotRefused
PROOF
<1>1. Inv /\ [Next]_vars
        => [~early => refused' \cap Services \subseteq refused]_vars
  BY RefusedStep DEF Inv
<1> QED
  BY <1>1, AlwaysInv, PTL DEF Spec, KnownNotRefused

\* Every variable keeps to the values the program gives it, and the tries
\* left on a host to what the schedule allows (RMDSConnectionConfig), unless
\* an entry of the schedule is 0 or more than retries_ can hold.
THEOREM SessionTyped == Spec => []SessionTypeOK
PROOF
<1>1. Init => States /\ Counts
  <2> SUFFICES ASSUME Init PROVE States /\ Counts
    OBVIOUS
  <2>1. States
    BY DEF Init, States, Phases, SubscriberStates
  <2>2. /\ 1 \in DOMAIN Schedule /\ Schedule[1] \in Nat /\ NumHosts \in Nat \ {0}
        /\ MaxDispatches \in Nat
    BY SessionAssumption DEF SessionAssumption
  <2>3. Counts
    BY <2>2 DEF Init, Counts, NoEntryWraps
  <2> QED
    BY <2>1, <2>3
<1>2. Inv /\ States /\ Counts /\ [Next]_vars => States' /\ Counts'
  BY StatesStep, CountsStep DEF Inv
<1>3. Inv /\ States /\ Counts => SessionTypeOK
  <2> SUFFICES ASSUME Inv, States, Counts PROVE SessionTypeOK
    OBVIOUS
  <2>1. \A i \in DOMAIN wire : wire[i].kind \in Messages
    <3>1. \A m \in WireMessages : m.kind \in Messages
      BY DEF WireMessages, Messages
    <3>2. \A i \in DOMAIN wire : wire[i] \in WireMessages
      BY DEF Inv, Types
    <3> QED
      BY <3>1, <3>2
  <2>2. \A i \in DOMAIN queue : queue[i].op \in
          {"login", "directory", "dictionary", "open", "ask"}
    <3>1. \A r \in Requests :
            r.op \in {"login", "directory", "dictionary", "open", "ask"}
      BY DEF Requests
    <3>2. \A i \in DOMAIN queue : queue[i] \in Requests
      BY DEF Inv, Types
    <3> QED
      BY <3>1, <3>2
  <2>3. /\ flags \in LoginFlags /\ loaded \subseteq Parts
        /\ pendingItems \subseteq Services
        /\ source \in [Services -> {"unknown", "down", "up"}]
        /\ item \in [Services -> {"none", "Subscribing", "Live", "Stale"}]
    BY DEF Inv, Types, Asking
  <2> QED
    BY <2>1, <2>2, <2>3
    DEF SessionTypeOK, States, Counts, Phases, SubscriberStates
<1> QED
  BY <1>1, <1>2, <1>3, AlwaysInv, PTL DEF Spec
=============================================================================
