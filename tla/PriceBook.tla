----------------------------- MODULE PriceBook -----------------------------
(***************************************************************************)
(* A market-by-price book (UPABookByPriceMessage and                       *)
(* UPASubscription::InternalProcessMarketByPriceResponse).  The feed keys  *)
(* its price points by an encoding and may move a point to another price;  *)
(* MAMDA knows a level by its side and price, so the bridge remembers the  *)
(* price of each point and sends a delete where a point leaves its level.  *)
(*                                                                         *)
(* The feed's own points and the client's book are kept beside the         *)
(* bridge's.  A client starts afresh with an image and applies the level   *)
(* messages in order, as MAMDA does.                                       *)
(***************************************************************************)
EXTENDS Integers, Sequences, SequencesExt, Maps

CONSTANTS PointKeys, PointPrices, PointSizes,
          MaxPriceMessages,  \* bound on the messages of the feed
          MaxPricePoints     \* bound on the map entries of a message

ASSUME PriceBookAssumption ==
  /\ PointPrices \subseteq Nat \ {0} /\ PointSizes \subseteq Nat
  /\ MaxPriceMessages \in Nat /\ MaxPricePoints \in Nat

VARIABLES ppMap,         \* PPMap_: key -> the side and price of the point
          entries,       \* entries_: the changes for the message being built
          priceMsg,      \* the message in the decoder
          touched,       \* the keys of its map entries so far
          priceMessages, \* messages so far
          feedPoints,    \* key -> [side, price, size], as the feed has them
          clientLevels,  \* <<side, price>> -> size
          regular        \* history: the feed has been as RegularFeed says

priceVars == <<ppMap, entries, priceMsg, touched, priceMessages,
               feedPoints, clientLevels, regular>>

PointSides == {"A", "B"}
UnknownSide == "Z"
ZeroPrice == 0

PriceEntry(act, side, price, size) ==
  [act |-> act, side |-> side, price |-> price, size |-> size]
Where(p) == <<p.side, p.price>>
PointAt(side, price) == [side |-> side, price |-> price]

PriceBookInit ==
  /\ ppMap = << >> /\ entries = << >>
  /\ priceMsg = "none" /\ touched = << >> /\ priceMessages = 0
  /\ feedPoints = << >> /\ clientLevels = << >>
  /\ regular = TRUE

---------------------------------------------------------------------------
(* A feed is regular while it sends one image, every message decodes, a    *)
(* message names a point once and leaves no two points at one level, a new *)
(* point has a side and a changed one a price, and no point is deleted     *)
(* whose level another has taken in the same message.                      *)
TakenOver(key) == \E k \in DOMAIN feedPoints \ {key} :
                     k \in ToSet(touched) /\ Where(feedPoints[k]) = Where(feedPoints[key])
NoTwoAtOneLevel == \A j, k \in DOMAIN feedPoints :
                     Where(feedPoints[j]) = Where(feedPoints[k]) => j = k

(* StartUpdate.  A feed that has ceased to be regular is followed to the   *)
(* end of the message.                                                     *)
StartPriceMessage(class) ==
  /\ priceMsg = "none" /\ priceMessages < MaxPriceMessages /\ regular
  /\ class = "update" => priceMessages > 0
  /\ priceMsg' = class /\ touched' = << >> /\ priceMessages' = priceMessages + 1
  /\ entries' = << >>
  /\ feedPoints' = IF class = "refresh" THEN << >> ELSE feedPoints
  /\ regular' = (class = "refresh" => priceMessages = 0)
  /\ UNCHANGED <<ppMap, clientLevels>>

MapPoint(key, points, asRegular) ==
  /\ priceMsg # "none" /\ Len(touched) < MaxPricePoints
  /\ touched' = Append(touched, key) /\ feedPoints' = points
  /\ regular' = (regular /\ key \notin ToSet(touched) /\ asRegular)
  /\ UNCHANGED <<priceMsg, priceMessages, clientLevels>>

(* A new point without a side gets none: what ExtractSideCode finds in the *)
(* key is not used.  The price of a point that is known stays the old one. *)
AddPoint(key, side, price, size, sideSent) ==
  LET said == IF sideSent THEN side ELSE UnknownSide
      pp == WithNew(ppMap, key, PointAt(said, price))
      e == PriceEntry("A", IF sideSent THEN side ELSE pp[key].side, price, size) IN
  /\ key \notin DOMAIN feedPoints
  /\ MapPoint(key, With(feedPoints, key, [side |-> side, price |-> price, size |-> size]), sideSent)
  /\ ppMap' = pp
  /\ entries' = Append(entries, e)

(* A point that leaves its level has it deleted, unless a change queued    *)
(* for the same message is about that level already.                       *)
(* A mutant: the level is deleted in any case.                             *)
DeletedAlways(p) == <<PriceEntry("D", p.side, p.price, 0)>>
DeletedUnlessQueued(p) ==
  IF \E i \in DOMAIN entries : Where(entries[i]) = Where(p) THEN << >>
  ELSE <<PriceEntry("D", p.side, p.price, 0)>>

UpdatePoint(key, price, size, priceSent) ==
  LET p == ppMap[key]
      e == PriceEntry("U", p.side, IF priceSent THEN price ELSE ZeroPrice, size)
      moves == Where(p) # Where(e) IN
  /\ key \in DOMAIN feedPoints /\ (~priceSent => price = feedPoints[key].price)
  /\ MapPoint(key, [feedPoints EXCEPT ![key].price = price, ![key].size = size], priceSent)
  /\ ppMap' = IF moves THEN [ppMap EXCEPT ![key] = PointAt(e.side, e.price)] ELSE ppMap
  /\ entries' = entries \o (IF moves THEN DeletedUnlessQueued(p) ELSE << >>) \o <<e>>

(* A delete carries the key alone.                                         *)
DeletePoint(key) ==
  LET p == ppMap[key] IN
  /\ key \in DOMAIN feedPoints
  /\ MapPoint(key, Without(feedPoints, key), ~TakenOver(key))
  /\ ppMap' = Without(ppMap, key)
  /\ entries' = Append(entries, PriceEntry("D", p.side, p.price, 0))

(* A part of the message does not decode, and nothing is sent.             *)
PriceDecodeFails ==
  /\ priceMsg # "none"
  /\ priceMsg' = "none" /\ regular' = FALSE
  /\ UNCHANGED <<ppMap, entries, touched, priceMessages, feedPoints, clientLevels>>

---------------------------------------------------------------------------
(* What a client makes of a level message.                                 *)
LevelTold(book, e) ==
  IF e.act = "D" THEN Without(book, Where(e)) ELSE With(book, Where(e), e.size)

(* BuildMamdaMessage makes one message for each entry, in their order.     *)
(* Optional fields, which are left out here, may stay from an earlier use  *)
(* of the message object: it is not cleared.                               *)
BuildPriceMessage(book, changes) ==
  LET after[n \in 0 .. Len(changes)] ==
        IF n = 0 THEN book ELSE LevelTold(after[n - 1], changes[n])
  IN after[Len(changes)]

SendPrices ==
  /\ priceMsg # "none"
  /\ clientLevels' = BuildPriceMessage(IF priceMsg = "refresh" THEN << >> ELSE clientLevels,
                                      entries)
  /\ entries' = << >> /\ priceMsg' = "none"
  /\ regular' = (regular /\ NoTwoAtOneLevel)
  /\ UNCHANGED <<ppMap, touched, priceMessages, feedPoints>>

PriceBookNext ==
  \/ \E class \in {"refresh", "update"} : StartPriceMessage(class)
  \/ \E key \in PointKeys, price \in PointPrices, size \in PointSizes, b \in BOOLEAN :
       \/ \E side \in PointSides : AddPoint(key, side, price, size, b)
       \/ UpdatePoint(key, price, size, b)
  \/ \E key \in PointKeys : DeletePoint(key)
  \/ PriceDecodeFails
  \/ SendPrices

PriceBookSpec == PriceBookInit /\ [][PriceBookNext]_priceVars

---------------------------------------------------------------------------
(* Between messages the client has exactly the feed's levels with their    *)
(* sizes: points may swap or rotate their prices within one message, a     *)
(* level left by one point and taken by another is there at the end, and   *)
(* one that nobody holds is gone (the price points and the deletes queued  *)
(* before updates, UPASubscription.cpp).                                   *)
PricesArrive ==
  (regular /\ priceMsg = "none") =>
     /\ DOMAIN clientLevels = {Where(feedPoints[k]) : k \in DOMAIN feedPoints}
     /\ \A k \in DOMAIN feedPoints : clientLevels[Where(feedPoints[k])] = feedPoints[k].size
=============================================================================
