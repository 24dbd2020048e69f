--------------------------- MODULE StreamManager ---------------------------
(***************************************************************************)
(* The table of stream ids of UPAStreamManager.                            *)
(*                                                                         *)
(* A UPASubscription that asks the RMDS for an item needs a stream id.     *)
(* AddItem hands out the ids 16, 17, ... in turn and, once all of them     *)
(* have been used, the ids that were released, oldest first.  Every method *)
(* holds streamLock_ from beginning to end, so each is one action.         *)
(*                                                                         *)
(* The class also counts pending opens, open items and pending closes;     *)
(* those counters mean something only next to the subscriptions that move  *)
(* them and are modelled in module Subscriber, which uses this module      *)
(* through INSTANCE and is checked to implement Spec.                      *)
(***************************************************************************)
EXTENDS Integers, Sequences

CONSTANTS
  StartStreamID,   \* the first id used for items (16 in the code)
  NumStreamIds,    \* the size of the table (0x40000 in the code)
  Subs,            \* the UPASubscriptions that may own an id
  NoItem           \* an empty slot of ItemArray_

ASSUME StreamManagerAssumption ==
  /\ StartStreamID \in Nat \ {0}
  /\ NumStreamIds \in Nat \ {0}
  /\ NoItem \notin Subs

VARIABLES
  nextIndex,       \* nextIndex_: every index below it has been handed out
  freeStreamIds,   \* freeStreamIds_: the released indices, oldest first
  itemArray        \* ItemArray_: the owner of each index

idVars == <<nextIndex, freeStreamIds, itemArray>>

Indices == 0 .. NumStreamIds - 1

Index2StreamId(index) == index + StartStreamID
StreamId2Index(streamId) == streamId - StartStreamID

Init ==
  /\ nextIndex = 0
  /\ freeStreamIds = <<>>
  /\ itemArray = [i \in Indices |-> NoItem]

-----------------------------------------------------------------------------
(* The index the next AddItem uses, when there is one to use.  Mutants: a  *)
(* fresh index too many; released indices first.                           *)
FreshIndexTooMany == nextIndex <= NumStreamIds
FreshIndexLeft == nextIndex < NumStreamIds
HasFreeSlot == FreshIndexLeft \/ freeStreamIds # <<>>
ReleasedFirst == IF freeStreamIds # <<>> THEN Head(freeStreamIds) ELSE nextIndex
NextFreeIndex == IF FreshIndexLeft THEN nextIndex ELSE Head(freeStreamIds)

(* Give sub the next free id.  Without a free id AddItem returns 0 and     *)
(* changes nothing: its callers test HasFreeSlot.                          *)
AddItem(sub) ==
  /\ HasFreeSlot
  /\ itemArray' = [itemArray EXCEPT ![NextFreeIndex] = sub]
  /\ \/ /\ FreshIndexLeft
        /\ nextIndex' = nextIndex + 1
        /\ UNCHANGED freeStreamIds
     \/ /\ ~FreshIndexLeft
        /\ freeStreamIds' = Tail(freeStreamIds)
        /\ UNCHANGED nextIndex

(* The owner of a stream id, NoItem when the id has been released. *)
GetItem(streamId) == itemArray[StreamId2Index(streamId)]

(* Clear the slot and put its index on the free list; the method checks    *)
(* nothing, so a second release of the same id would list it twice.        *)
(* Mutant: the slot is not cleared.                                        *)
ReleaseUncleared(streamId) ==
  /\ freeStreamIds' = Append(freeStreamIds, StreamId2Index(streamId))
  /\ UNCHANGED <<nextIndex, itemArray>>
ReleaseStreamId(streamId) ==
  /\ itemArray' = [itemArray EXCEPT ![StreamId2Index(streamId)] = NoItem]
  /\ freeStreamIds' = Append(freeStreamIds, StreamId2Index(streamId))
  /\ UNCHANGED nextIndex

-----------------------------------------------------------------------------
(* What the class promises as long as its callers release only ids that    *)
(* are owned.  Subscriber is checked to keep to that protocol.             *)
Next ==
  \/ \E sub \in Subs : AddItem(sub)
  \/ \E i \in Indices : /\ itemArray[i] # NoItem
                        /\ ReleaseStreamId(Index2StreamId(i))

Spec == Init /\ [][Next]_idVars

-----------------------------------------------------------------------------
TypeOK ==
  /\ nextIndex \in 0 .. NumStreamIds
  /\ freeStreamIds \in Seq(Indices)
  /\ itemArray \in [Indices -> Subs \cup {NoItem}]

IsListed(i) == \E k \in 1 .. Len(freeStreamIds) : freeStreamIds[k] = i

(* An index is never both owned and free, is listed at most once, and none *)
(* that was handed out is lost: it is owned or it is on the free list.     *)
(* This is what keeps AddItem from giving one stream id to two             *)
(* subscriptions and from running dry while ids are unused                 *)
(* (UPAStreamManager.cpp AddItem, ReleaseStreamId).                        *)
IdsPartitioned ==
  /\ \A j, k \in 1 .. Len(freeStreamIds) :
        freeStreamIds[j] = freeStreamIds[k] => j = k
  /\ \A i \in Indices :
        /\ itemArray[i] # NoItem => i < nextIndex /\ ~IsListed(i)
        /\ IsListed(i) => i < nextIndex
        /\ i < nextIndex => itemArray[i] # NoItem \/ IsListed(i)

(* A released id stays out of use while another id could be handed out in  *)
(* its place: no released id returns before every fresh one is spent, and  *)
(* the one that returns is the one that has been out of use longest.  Late *)
(* messages of a closed stream rely on this distance.                      *)
ReuseIsOldestFirst ==
  [][\A i \in Indices :
        (itemArray[i] = NoItem /\ itemArray'[i] # NoItem) =>
           \/ i >= nextIndex
           \/ nextIndex = NumStreamIds /\ Head(freeStreamIds) = i]_idVars
=============================================================================
