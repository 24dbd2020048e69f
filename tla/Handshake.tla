----------------------------- MODULE Handshake -----------------------------
(***************************************************************************)
(* What the login and the source directory carry between a consumer and a  *)
(* provider, either of which may be a bridge: UPALogin and                 *)
(* UPASourceDirectory encode and decode the messages, UPAProvider answers  *)
(* the requests, and RMDSSources keeps what the consumer learns.           *)
(*                                                                         *)
(* The other end may be anyone: a consumer whose requests lack what the    *)
(* bridge's carry, or RMDS, with several services that come, go down and   *)
(* up, and whose responses need not decode.  When and in which state the   *)
(* requests are sent, and what their failure does, is in Session.          *)
(***************************************************************************)
EXTENDS Integers, Sequences, SequencesExt, FiniteSets, FiniteSetsExt, Maps, Login

CONSTANTS Texts,           \* what names may be: sequences of characters
          LoginTextSize, DirectoryTextSize, \* of the fields that take them
          ServiceIds, ServiceNames, NoServiceName,
          MaxCapabilities, \* how many capabilities a consumer takes
          MaxResponses     \* bound on the directory messages of RMDS

ASSUME HandshakeAssumption ==
  /\ LoginTextSize \in Nat \ {0} /\ DirectoryTextSize \in Nat \ {0}
  /\ \A t \in Texts : t \in Seq(Nat) /\ Len(t) < DirectoryTextSize
  /\ ServiceNames \subseteq Texts /\ NoServiceName = << >> /\ NoServiceName \notin ServiceNames
  /\ ServiceIds \subseteq Nat /\ IsFiniteSet(ServiceIds)
  /\ MaxCapabilities \in Nat /\ MaxResponses \in Nat

VARIABLES
  ends,          \* who consumes and who provides: "bridge" or "other"
  user,          \* the consumer's user name
  acceptsPosts,  \* the provider's option
  source,        \* its RMDSPublisherSource: [name, id]
  rmdsServices,  \* if RMDS provides: id -> [name, up]
  connection,    \* "down", "up", "loggedIn", "asked", "known": subscriberState_
  hsWire,        \* the message on its way, or Silence
  loginInfo,     \* the provider's or consumer's decoded login, or Silence
  sources,       \* servicesMap_: id -> [name, up, accepting]
  serviceNames,  \* serviceNameMap_: name -> id
  subsLive,      \* the sources whose subscriptions were last set live
  listed,        \* the last directory entry told to the listeners
  responses,     \* directory messages of RMDS so far
  ordinary       \* history: RMDS has been as Ordinary says

hsVars == <<ends, user, acceptsPosts, source, rmdsServices, connection, hsWire, loginInfo,
            sources, serviceNames, subsLive, listed, responses, ordinary>>
configured == <<ends, user, acceptsPosts, source>>
learnt == <<sources, serviceNames, subsLive, listed>>

Silence == [is |-> "nothing"]
ConsumerIsBridge == ends[1] = "bridge"
ProviderIsBridge == ends[2] = "bridge"

\* Strings are cut to the fixed fields they are copied to.
Cut(text, size) == SubSeq(text, 1, Min({Len(text), size - 1}))

Parts == {"info", "state", "group", "load", "data", "link"}

HandshakeInit ==
  /\ ends \in {<<"bridge", "bridge">>, <<"bridge", "other">>, <<"other", "bridge">>}
  /\ user \in Texts /\ acceptsPosts \in IF ProviderIsBridge THEN BOOLEAN ELSE {TRUE}
  /\ source \in IF ProviderIsBridge THEN [name : ServiceNames, id : ServiceIds] ELSE {Silence}
  /\ rmdsServices = << >> /\ connection = "down" /\ hsWire = Silence
  /\ loginInfo = Silence /\ sources = << >> /\ serviceNames = << >>
  /\ subsLive = {} /\ listed = Silence /\ responses = 0 /\ ordinary = TRUE

Connected ==
  /\ connection = "down" /\ connection' = "up"
  /\ hsWire' = Silence
  /\ UNCHANGED <<configured, rmdsServices, loginInfo, learnt, responses, ordinary>>

---------------------------------------------------------------------------
(* The login.                                                              *)

\* SendLoginRequest of a consumer; a provider says that it is one, and whether
\* it is single open.
LoginRequestOf(name) ==
  [is |-> "login request", named |-> TRUE, attributes |-> TRUE,
   user |-> Cut(name, LoginTextSize), role |-> "consumer", singleOpen |-> TRUE]

SendLoginRequest ==
  /\ connection = "up" /\ hsWire = Silence /\ loginInfo = Silence
  /\ \/ ConsumerIsBridge /\ hsWire' = LoginRequestOf(user)
     \/ /\ ~ConsumerIsBridge
        /\ \E named, attributes \in BOOLEAN :
             hsWire' = [LoginRequestOf(user) EXCEPT !.named = named,
                                                           !.attributes = attributes]
  /\ UNCHANGED <<configured, rmdsServices, connection, loginInfo, learnt, responses, ordinary>>

\* DecodeLoginRequest: only what the message has is set.
DecodeLoginRequest(m) == [is |-> "request", user |-> Cut(m.user, LoginTextSize),
                          role |-> m.role, singleOpen |-> m.singleOpen]

LoginRejected == [is |-> "login rejected"]
LoginResponseOf(info) ==
  [is |-> "login response", user |-> Cut(info.user, LoginTextSize), singleOpen |-> FALSE,
   batch |-> FALSE, posts |-> acceptsPosts, solicited |-> TRUE]

\* A request whose attributes do not decode gets no answer.
ProcessLoginRequest ==
  /\ ProviderIsBridge /\ hsWire.is = "login request"
  /\ hsWire' = CASE ~hsWire.named -> LoginRejected
                 [] hsWire.named /\ hsWire.attributes -> LoginResponseOf(DecodeLoginRequest(hsWire))
                 [] OTHER -> Silence
  /\ UNCHANGED <<configured, rmdsServices, connection, loginInfo, learnt, responses, ordinary>>

RmdsAnswersLogin ==
  /\ ~ProviderIsBridge /\ hsWire.is = "login request"
  /\ hsWire' \in {LoginResponseOf(hsWire), LoginRejected}
  /\ UNCHANGED <<configured, rmdsServices, connection, loginInfo, learnt, responses, ordinary>>

\* The record is cleared before every decode.
DecodeLoginResponse(m) ==
  [is |-> "response", user |-> Cut(m.user, LoginTextSize), singleOpen |-> m.singleOpen,
   batch |-> m.batch, posts |-> m.posts, solicited |-> m.solicited]

AsLoginMessage(m) ==
  IF m.is = "login response"
  THEN [class |-> "refresh", state |-> "ok", solicited |-> m.solicited, decodes |-> TRUE]
  ELSE [class |-> "status", state |-> "closedRecover", solicited |-> FALSE, decodes |-> TRUE]

ProcessLoginResponse ==
  /\ ConsumerIsBridge /\ hsWire.is \in {"login response", "login rejected"}
  /\ loginInfo' = IF hsWire.is = "login response" THEN DecodeLoginResponse(hsWire) ELSE loginInfo
  /\ connection' = IF LoginNotice(AsLoginMessage(hsWire)) = "succeeded" THEN "loggedIn" ELSE "down"
  /\ hsWire' = Silence
  /\ UNCHANGED <<configured, rmdsServices, learnt, responses, ordinary>>

---------------------------------------------------------------------------
(* The directory request, and a bridge's answer: all it has, in one entry, *)
(* of the parts that were asked for.                                       *)

DirectoryRequest(parts, id, name) ==
  [is |-> "directory request", parts |-> parts, id |-> id, name |-> name]
AnyId == -1

SendDirectoryRequest ==
  /\ connection = "loggedIn" /\ hsWire = Silence
  /\ \/ ConsumerIsBridge /\ hsWire' = DirectoryRequest(Parts, AnyId, NoServiceName)
     \/ /\ ~ConsumerIsBridge
        /\ \E parts \in {Parts, {"info", "state"}}, id \in ServiceIds \cup {AnyId},
              name \in ServiceNames \cup {NoServiceName} :
             hsWire' = DirectoryRequest(parts, id, name)
  /\ connection' = "asked"
  /\ UNCHANGED <<configured, rmdsServices, loginInfo, learnt, responses, ordinary>>

Asked(request) == request.id \in {AnyId, source.id}
                  /\ request.name \in {NoServiceName, source.name}

\* InitialiseSource: a source is up, with capabilities and links of its own.
Info(name, capabilities) == [name |-> name, capabilities |-> capabilities]
Capabilities == <<"DICTIONARY", "MARKET_PRICE">>
State(up, accepting) == [up |-> up, accepting |-> accepting]
Link == [name |-> "Tick42 OpenMAMA bridge link", state |-> 1]
Load == [openLimit |-> 4096, openWindow |-> 4096, loadFactor |-> 1]

\* A directory entry has parts, and decodes in all of them or not.
DirectoryEntry(id, parts) == [id |-> id, parts |-> parts, decodes |-> TRUE]
Only(wanted, all) == [p \in wanted \cap DOMAIN all |-> all[p]]
EncodeSourceDirectoryInfo(wanted) ==
  DirectoryEntry(source.id,
    Only(wanted, [info  |-> Info(source.name, Capabilities), state |-> State(TRUE, TRUE),
                  load  |-> Load, link  |-> <<Link>>]))

DirectoryResponse(class, entries) ==
  [is |-> "directory response", class |-> class, list |-> entries]
DirectoryRejected == [is |-> "directory rejected"]

ProcessSourceDirectoryRequest ==
  /\ ProviderIsBridge /\ hsWire.is = "directory request"
  /\ hsWire' = CASE ~({"info", "state", "group"} \subseteq hsWire.parts) -> DirectoryRejected
                 [] {"info", "state", "group"} \subseteq hsWire.parts /\ Asked(hsWire) ->
                      DirectoryResponse("refresh", <<EncodeSourceDirectoryInfo(hsWire.parts)>>)
                 [] OTHER -> DirectoryResponse("refresh", << >>)
  /\ UNCHANGED <<configured, rmdsServices, connection, loginInfo, learnt, responses, ordinary>>

---------------------------------------------------------------------------
(* RMDS.  Each service goes up and down, and its messages say so in any    *)
(* order; a message may leave parts of an entry out, or hold one that does *)
(* not decode.                                                             *)

RmdsCapabilities == <<"MARKET_PRICE", "MARKET_BY_ORDER", "MARKET_BY_PRICE">>
RmdsEntry(id, service, withInfo, withState, decodes) ==
  [id |-> id, decodes |-> decodes,
   parts |-> Only((IF withInfo THEN {"info"} ELSE {}) \cup (IF withState THEN {"state"} ELSE {}),
                  [info  |-> Info(service.name, RmdsCapabilities),
                   state |-> State(service.up, service.up)])]

\* RMDS is ordinary while no name and no number changes its service, a
\* refresh has the name and state of every service, an update those of a
\* new one, every message decodes, and no service is withdrawn.
KeepsNames(new) ==
  \A i \in DOMAIN new : /\ i \in DOMAIN rmdsServices => new[i].name = rmdsServices[i].name
                        /\ \A j \in DOMAIN new \ {i} : new[i].name # new[j].name
Ordinary(class, new, entries) ==
  /\ KeepsNames(new) /\ DOMAIN rmdsServices \subseteq DOMAIN new
  /\ \A k \in DOMAIN entries :
       /\ entries[k].decodes
       /\ class = "refresh" \/ entries[k].id \notin DOMAIN rmdsServices =>
            {"info", "state"} \subseteq DOMAIN entries[k].parts

Service == [name : ServiceNames, up : BOOLEAN]
\* What an entry leaves out has not changed, unless it is all of a service.
Says(new, e) ==
  \/ "state" \in DOMAIN e.parts
  \/ e.id \in DOMAIN rmdsServices => rmdsServices[e.id].up = new[e.id].up

RmdsTells(class, changed) ==
  \E services \in [changed -> Service], order \in SetToSeqs(changed),
     withInfo, withState \in [changed -> BOOLEAN], broken \in {{}} \cup {{id} : id \in changed} :
    LET new == WithAll(rmdsServices, services)
        entries == [k \in DOMAIN order |->
                      RmdsEntry(order[k], new[order[k]], withInfo[order[k]], withState[order[k]],
                                order[k] \notin broken)] IN
    /\ \A k \in DOMAIN entries : Says(new, entries[k])
    /\ rmdsServices' = new
    /\ ordinary' = (ordinary /\ Ordinary(class, new, entries))
    /\ hsWire' = DirectoryResponse(class, entries)

RmdsSendsDirectory ==
  /\ ~ProviderIsBridge /\ ordinary /\ responses < MaxResponses
  /\ responses' = responses + 1
  /\ \/ /\ hsWire.is = "directory request"
        /\ \E more \in SUBSET ServiceIds : RmdsTells("refresh", DOMAIN rmdsServices \cup more)
     \/ /\ hsWire = Silence /\ connection = "known"
        /\ \E changed \in SUBSET ServiceIds \ {{}} : RmdsTells("update", changed)
  /\ UNCHANGED <<configured, connection, loginInfo, learnt>>

---------------------------------------------------------------------------
(* The consumer takes the entries one by one until one does not decode.    *)

DecodedInfo(info) == [name |-> Cut(info.name, DirectoryTextSize),
                      capabilities |-> SubSeq(info.capabilities, 1,
                                         Min({Len(info.capabilities), MaxCapabilities}))]

\* What an entry leaves out is as ResetSourceDirRespInfo has it.
Decoded(e) ==
  [id    |-> e.id,
   info  |-> IF "info" \in DOMAIN e.parts THEN DecodedInfo(e.parts.info)
                                         ELSE Info(NoServiceName, << >>),
   state |-> IF "state" \in DOMAIN e.parts THEN e.parts.state ELSE State(FALSE, FALSE),
   rest  |-> [p \in DOMAIN e.parts \ {"info", "state"} |-> e.parts[p]]]

\* UpdateOrCreate and SetState.  A source that is known keeps its name.
IsKnown(told, id) == id \in DOMAIN told.sources
SetState(told, d) ==
  LET was == IsKnown(told, d.id) /\ told.sources[d.id].up
      name == IF IsKnown(told, d.id) THEN told.sources[d.id].name ELSE d.info.name IN
  [sources |-> With(told.sources, d.id,
                    [name |-> name, up |-> d.state.up, accepting |-> d.state.accepting]),
   names   |-> IF IsKnown(told, d.id) THEN told.names ELSE With(told.names, d.info.name, d.id),
   live    |-> CASE was /\ ~d.state.up -> told.live \ {d.id}
                 [] ~was /\ d.state.up -> told.live \cup {d.id}
                 [] OTHER -> told.live,
   listed  |-> d]

\* Only an entry with a state is told to the listeners.
\* A mutant: it need not have one.
TakeAnyEntry(told, e) == SetState(told, Decoded(e))
TakeEntry(told, e) == IF "state" \in DOMAIN e.parts THEN SetState(told, Decoded(e)) ELSE told

Broken(list) == {k \in DOMAIN list : ~list[k].decodes}
Whole(list) == IF Broken(list) = {} THEN list ELSE SubSeq(list, 1, Min(Broken(list)) - 1)
TakeEntries(told, list) ==
  LET after[n \in 0 .. Len(list)] == IF n = 0 THEN told ELSE TakeEntry(after[n - 1], list[n])
  IN after[Len(list)]
DecodeSourceDirectoryResponse(list) ==
  TakeEntries([sources |-> sources, names |-> serviceNames, live |-> subsLive, listed |-> listed],
              Whole(list))

\* A refresh that does not decode leaves the session waiting, for good.
ProcessSourceDirectoryResponse ==
  /\ ConsumerIsBridge /\ hsWire.is = "directory response"
  /\ LET told == DecodeSourceDirectoryResponse(hsWire.list) IN
       /\ sources' = told.sources /\ serviceNames' = told.names
       /\ subsLive' = told.live /\ listed' = told.listed
  /\ connection' = CASE hsWire.class = "update" -> connection
                     [] hsWire.class = "refresh" /\ Broken(hsWire.list) = {} -> "known"
                     [] OTHER -> "asked"
  /\ hsWire' = Silence
  /\ UNCHANGED <<configured, rmdsServices, loginInfo, responses, ordinary>>

\* A consumer that is no bridge reads what it gets.
OtherConsumerReads ==
  /\ ~ConsumerIsBridge /\ hsWire' = Silence
  /\ \/ hsWire.is = "login rejected" /\ connection' = "down"
     \/ hsWire.is \in {"login response", "directory rejected"} /\ connection' = "loggedIn"
     \/ hsWire.is = "directory response" /\ connection' = "known"
  /\ UNCHANGED <<configured, rmdsServices, loginInfo, learnt, responses, ordinary>>

\* ConnectionNotification and SetAllStale: the sources stay as they are.
Disconnected ==
  /\ connection # "down" /\ connection' = "down"
  /\ hsWire' = Silence /\ loginInfo' = Silence  \* until the next request
  /\ subsLive' = {}
  /\ UNCHANGED <<configured, rmdsServices, sources, serviceNames, listed, responses, ordinary>>

HandshakeNext ==
  \/ Connected \/ Disconnected
  \/ SendLoginRequest \/ ProcessLoginRequest \/ RmdsAnswersLogin \/ ProcessLoginResponse
  \/ SendDirectoryRequest \/ ProcessSourceDirectoryRequest \/ RmdsSendsDirectory
  \/ ProcessSourceDirectoryResponse \/ OtherConsumerReads

HandshakeSpec == HandshakeInit /\ [][HandshakeNext]_hsVars

---------------------------------------------------------------------------
(* Properties.                                                             *)

Resolves(name, id) == name \in DOMAIN serviceNames /\ serviceNames[name] = id

(* Two bridges: once the directory has been answered, the consumer knows   *)
(* the one source of the provider by its configured name and number, up,   *)
(* with all the parts the provider has, and as the user that it is.  RMDS: *)
(* between the messages the consumer's table has exactly the services RMDS *)
(* has told, found by name, with the state each was last said to be in,    *)
(* across entries that say only part, several entries in a message and     *)
(* reconnections; and no subscription of a source that is down is live     *)
(* (DecodeSourceDirectoryResponse, RMDSSources::UpdateOrCreate).           *)
DirectoryArrives ==
  (ConsumerIsBridge /\ connection = "known" /\ hsWire = Silence) =>
    IF ProviderIsBridge
    THEN /\ loginInfo.user = Cut(user, LoginTextSize) /\ loginInfo.posts = acceptsPosts
         /\ DOMAIN sources = {source.id}
         /\ sources[source.id] = [name |-> source.name, up |-> TRUE, accepting |-> TRUE]
         /\ Resolves(source.name, source.id)
         /\ listed.info = Info(source.name, SubSeq(Capabilities, 1, Min({2, MaxCapabilities})))
         /\ listed.rest = [load |-> Load, link |-> <<Link>>]
    ELSE ordinary =>
         /\ DOMAIN sources = DOMAIN rmdsServices
         /\ \A id \in DOMAIN sources :
              /\ sources[id].up = rmdsServices[id].up
              /\ Resolves(rmdsServices[id].name, id)
              /\ ~sources[id].up => id \notin subsLive
=============================================================================
