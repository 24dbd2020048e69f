----------------------------- MODULE OrderBook -----------------------------
(***************************************************************************)
(* A market-by-order book (UPABookMessage.cpp and                          *)
(* UPASubscription::InternalProcessMarketByOrderResponse): the entries of  *)
(* the feed's messages are gathered by price level, and each message is    *)
(* passed on to the client as one message of levels with their changes.    *)
(*                                                                         *)
(* The feed's own book and the client's are kept beside the bridge's.  A   *)
(* client starts afresh with an image and applies the level messages, as   *)
(* MAMDA does.  The prices of one item share one hint, so that a price is  *)
(* its mantissa, by which the code keys the levels.                        *)
(***************************************************************************)
EXTENDS Integers, Sequences, Maps

CONSTANTS OrderIds, BookPrices, OrderSizes,
          MaxBookMessages,  \* bound on the messages of the feed
          MaxBookEntries    \* bound on the entries of a message

ASSUME OrderBookAssumption ==
  /\ BookPrices \subseteq Nat \ {0} /\ OrderSizes \subseteq Nat
  /\ MaxBookMessages \in Nat /\ MaxBookEntries \in Nat

VARIABLES orderMap,   \* order id -> its entry
          levels,     \* <<side, price>> -> the ids of its orders, its changes
          bookMsg,    \* the message in the decoder
          taken,      \* entries of it that are in the book
          messages,   \* messages so far
          feedBook,   \* order id -> [side, price, size], as the feed has it
          clientBook, \* <<side, price>> -> (order id -> size)
          plain       \* history: one image, every message decoded, every new
                      \* order with a side, every change with a price

bookVars == <<orderMap, levels, bookMsg, taken, messages, feedBook, clientBook, plain>>

(* UPABookEntry.  at is the entry's place in its message: entries are      *)
(* shared by pointer between the order map and the changes of the levels,  *)
(* and an entry of an earlier message (0) is in no list of changes.        *)
BookEntry(act, id, side, price, size) ==
  [act |-> act, id |-> id, side |-> side, price |-> price, size |-> size, at |-> taken + 1]

BookSides == {"A", "B"}
NoSide == "Z"
NoPrice == 0
LevelOf(e) == <<e.side, e.price>>
HasLevel(e) == LevelOf(e) \in DOMAIN levels

BookInit ==
  /\ orderMap = << >> /\ levels = << >>
  /\ bookMsg = "none" /\ taken = 0 /\ messages = 0
  /\ feedBook = << >> /\ clientBook = << >> /\ plain = TRUE

---------------------------------------------------------------------------
(* UPALevel::AddEntry: the set of ids decides when the level is empty, the *)
(* list of changes is what the client is told.                             *)
LevelWith(level, e) ==
  [orders |-> CASE e.act = "D" -> level.orders \ {e.id}
                [] e.act = "A" -> level.orders \cup {e.id}
                [] OTHER -> level.orders,
   deltas |-> Append(level.deltas, e)]

NewLevel == [orders |-> {}, deltas |-> << >>]
Changed(lvls, e) == [lvls EXCEPT ![LevelOf(e)] = LevelWith(@, e)]
Placed(lvls, e) == Changed(WithNew(lvls, LevelOf(e), NewLevel), e)

(* ActionCode('D') on an entry, seen through every pointer to it.          *)
Ended(e) == [e EXCEPT !.act = "D"]
WithEnded(lvls, e) ==
  [k \in DOMAIN lvls |->
     [lvls[k] EXCEPT !.deltas = [i \in DOMAIN @ |-> IF @[i] = e THEN Ended(e) ELSE @[i]]]]
Withdrawn(e) == Changed(WithEnded(levels, e), Ended(e))

Known(e) == e.id \in DOMAIN orderMap
Existing(e) == orderMap[e.id]
Sided(e) == [e EXCEPT !.side = Existing(e).side]

---------------------------------------------------------------------------
(* StartUpdate, when the response arrives.  An image replaces the feed's   *)
(* book, not the bridge's.  A feed that has ceased to be plain is followed *)
(* to the end of the message.                                              *)
StartUpdate(class) ==
  /\ bookMsg = "none" /\ messages < MaxBookMessages /\ plain
  /\ class = "update" => messages > 0
  /\ bookMsg' = class /\ taken' = 0 /\ messages' = messages + 1
  /\ orderMap' = [id \in DOMAIN orderMap |-> [orderMap[id] EXCEPT !.at = 0]]
  /\ levels' = [k \in DOMAIN levels |-> [levels[k] EXCEPT !.deltas = << >>]]
  /\ feedBook' = IF class = "refresh" THEN << >> ELSE feedBook
  /\ plain' = (plain /\ (class = "refresh" => messages = 0))
  /\ UNCHANGED clientBook

(* A map entry of the message: the feed keeps its book at the same time.   *)
MapEntry(book, complete) ==
  /\ bookMsg # "none" /\ taken < MaxBookEntries
  /\ taken' = taken + 1 /\ feedBook' = book
  /\ plain' = (plain /\ complete)
  /\ UNCHANGED <<bookMsg, messages, clientBook>>

OrderOf(side, price, size) == [side |-> side, price |-> price, size |-> size]

AddEntry(id, side, price, size, sideSent) ==
  LET e == BookEntry("A", id, IF sideSent THEN side ELSE NoSide, price, size) IN
  /\ id \notin DOMAIN feedBook
  /\ MapEntry(With(feedBook, id, OrderOf(side, price, size)), sideSent)
  /\ orderMap' = WithNew(orderMap, id, e)
  /\ levels' = IF sideSent THEN Placed(levels, e) ELSE levels

(* An order that keeps its price is changed in its level; its entry in the *)
(* order map stays the old one.  An order that moves ends in its level and *)
(* is added to another.  One the book does not know is ignored.            *)
KeepsPrice(e) == e.price = Existing(e).price
Moved(e) == [e EXCEPT !.act = "A", !.side = Existing(e).side]

(* A mutant: the order map keeps the entry an order has moved away from.   *)
OrdersForgettingMoves(e) == orderMap
OrdersAfter(e) ==
  IF Known(e) /\ HasLevel(Existing(e)) /\ ~KeepsPrice(e)
    THEN [orderMap EXCEPT ![e.id] = Moved(e)] ELSE orderMap
LevelsAfter(e) ==
  CASE ~Known(e) -> levels
    [] Known(e) /\ ~HasLevel(Existing(e)) -> levels
    [] OTHER -> IF KeepsPrice(e) THEN Changed(levels, Sided(e))
                                 ELSE Placed(Withdrawn(Existing(e)), Moved(e))

UpdateEntry(id, price, size, priceSent) ==
  LET e == BookEntry("U", id, NoSide, IF priceSent THEN price ELSE NoPrice, size) IN
  /\ id \in DOMAIN feedBook /\ (~priceSent => price = feedBook[id].price)
  /\ MapEntry([feedBook EXCEPT ![id] = OrderOf(@.side, price, size)], priceSent)
  /\ orderMap' = OrdersAfter(e)
  /\ levels' = LevelsAfter(e)

(* A delete carries the order id alone.                                    *)
RemoveEntry(id) ==
  LET e == BookEntry("D", id, NoSide, NoPrice, 0) IN
  /\ id \in DOMAIN feedBook
  /\ MapEntry(Without(feedBook, id), TRUE)
  /\ orderMap' = Without(orderMap, id)
  /\ levels' = IF Known(e) /\ HasLevel(Existing(e)) THEN Withdrawn(Existing(e)) ELSE levels

(* A part of the message does not decode: the entries before it stay in    *)
(* the book, and nothing is sent.                                          *)
DecodeFails ==
  /\ bookMsg # "none"
  /\ bookMsg' = "none" /\ plain' = FALSE
  /\ UNCHANGED <<orderMap, levels, taken, messages, feedBook, clientBook>>

---------------------------------------------------------------------------
(* The message the client gets has every level of the book: an empty one   *)
(* as deleted, any other with its changes.                                 *)
Emptied(k) == levels[k].orders = {}
BuildMamdaMessage ==
  [k \in DOMAIN levels |-> [action  |-> IF Emptied(k) THEN "D" ELSE "A",
                            entries |-> IF Emptied(k) THEN << >> ELSE levels[k].deltas]]

EndUpdate == [k \in {k \in DOMAIN levels : ~Emptied(k)} |-> [levels[k] EXCEPT !.deltas = << >>]]

(* What a client makes of it.                                              *)
Told(orders, e) == IF e.act = "D" THEN Without(orders, e.id) ELSE With(orders, e.id, e.size)
ToldAll(orders, es) ==
  LET after[n \in 0 .. Len(es)] == IF n = 0 THEN orders ELSE Told(after[n - 1], es[n])
  IN after[Len(es)]
Received(book, msg) ==
  [k \in {k \in DOMAIN book \cup DOMAIN msg : k \in DOMAIN msg => msg[k].action # "D"} |->
     LET before == IF k \in DOMAIN book THEN book[k] ELSE << >> IN
     IF k \in DOMAIN msg THEN ToldAll(before, msg[k].entries) ELSE before]

SendBook ==
  /\ bookMsg # "none"
  /\ clientBook' = Received(IF bookMsg = "refresh" THEN << >> ELSE clientBook, BuildMamdaMessage)
  /\ levels' = EndUpdate
  /\ bookMsg' = "none"
  /\ UNCHANGED <<orderMap, taken, messages, feedBook, plain>>

BookNext ==
  \/ \E class \in {"refresh", "update"} : StartUpdate(class)
  \/ \E id \in OrderIds, side \in BookSides, price \in BookPrices, size \in OrderSizes,
        b \in BOOLEAN :
       AddEntry(id, side, price, size, b)
  \/ \E id \in OrderIds, price \in BookPrices, size \in OrderSizes, b \in BOOLEAN :
       UpdateEntry(id, price, size, b)
  \/ \E id \in OrderIds : RemoveEntry(id)
  \/ DecodeFails
  \/ SendBook

BookSpec == BookInit /\ [][BookNext]_bookVars

---------------------------------------------------------------------------
(* Between messages the client's book is the feed's: every order at its    *)
(* level with its size, and no level without orders, whatever mixture of   *)
(* adds, moves, changes and deletes of the same orders a message holds     *)
(* (UPABookByOrderMessage and UPALevel; the entries are shared between the *)
(* order map and the lists of changes).  It speaks of feeds as plain says: *)
(* what the code makes of the others is in the README.                     *)
BookArrives ==
  (plain /\ bookMsg = "none") =>
     clientBook = [k \in {<<feedBook[o].side, feedBook[o].price>> : o \in DOMAIN feedBook} |->
                     [o \in {o \in DOMAIN feedBook : <<feedBook[o].side, feedBook[o].price>> = k}
                        |-> feedBook[o].size]]
=============================================================================
