------------------------- MODULE StreamManagerProofs ------------------------
(* The table of stream ids is sound for every size of table and whatever   *)
(* number of subscriptions use it.                                         *)
EXTENDS StreamManager, TLAPS

(* The vacant slot that AddItem fills is an index of the table. *)
LEMMA NextFreeIndexInTable ==
  ASSUME TypeOK, HasFreeSlot
  PROVE  NextFreeIndex \in Indices
  BY StreamManagerAssumption
  DEF TypeOK, HasFreeSlot, NextFreeIndex, FreshIndexLeft, Indices

(* An index and its stream id determine one another, so a release clears   *)
(* the slot that was meant.                                                *)
LEMMA StreamIdOfIndex ==
  ASSUME NEW i \in Indices
  PROVE  StreamId2Index(Index2StreamId(i)) = i
  BY StreamManagerAssumption DEF StreamId2Index, Index2StreamId, Indices

-----------------------------------------------------------------------------
(* Every state of the table is well formed (UPAStreamManager.cpp: AddItem, *)
(* ReleaseStreamId stay inside ItemArray_).                                *)
THEOREM Typing == Spec => []TypeOK
<1>1. Init => TypeOK
  BY StreamManagerAssumption DEF Init, TypeOK, Indices
<1>2. TypeOK /\ [Next]_idVars => TypeOK'
  <2> SUFFICES ASSUME TypeOK, [Next]_idVars
               PROVE  TypeOK'
    OBVIOUS
  <2>1. ASSUME NEW sub \in Subs, AddItem(sub)
        PROVE  TypeOK'
    <3>1. NextFreeIndex \in Indices
      BY <2>1, NextFreeIndexInTable DEF AddItem
    <3>2. itemArray' \in [Indices -> Subs \cup {NoItem}]
      BY <2>1, <3>1 DEF AddItem, TypeOK
    <3>3. CASE FreshIndexLeft
      BY <2>1, <3>2, <3>3, StreamManagerAssumption
      DEF AddItem, FreshIndexLeft, TypeOK
    <3>4. CASE ~FreshIndexLeft
      BY <2>1, <3>2, <3>4
      DEF AddItem, FreshIndexLeft, HasFreeSlot, TypeOK
    <3> QED
      BY <3>3, <3>4
  <2>2. ASSUME NEW i \in Indices, ReleaseStreamId(Index2StreamId(i))
        PROVE  TypeOK'
    BY <2>2, StreamIdOfIndex DEF ReleaseStreamId, TypeOK
  <2>3. CASE UNCHANGED idVars
    BY <2>3 DEF idVars, TypeOK
  <2> QED
    BY <2>1, <2>2, <2>3 DEF Next
<1> QED
  BY <1>1, <1>2, PTL DEF Spec

-----------------------------------------------------------------------------
(* Handing out a fresh index keeps the table partitioned. *)
LEMMA FreshKeepsPartition ==
  ASSUME TypeOK, IdsPartitioned, NEW sub \in Subs, AddItem(sub),
         FreshIndexLeft
  PROVE  IdsPartitioned'
<1>1. /\ nextIndex \in Indices /\ nextIndex' = nextIndex + 1
      /\ itemArray' = [itemArray EXCEPT ![nextIndex] = sub]
      /\ freeStreamIds' = freeStreamIds
  BY StreamManagerAssumption
  DEF AddItem, FreshIndexLeft, NextFreeIndex, TypeOK, Indices
<1>2. ~IsListed(nextIndex)
  BY <1>1, StreamManagerAssumption DEF IdsPartitioned, Indices
<1>3. \A i \in Indices : IsListed(i)' <=> IsListed(i)
  BY <1>1 DEF IsListed
<1>4. ASSUME NEW i \in Indices
      PROVE  /\ itemArray'[i] # NoItem => i < nextIndex' /\ ~IsListed(i)'
             /\ IsListed(i)' => i < nextIndex'
             /\ i < nextIndex' => itemArray'[i] # NoItem \/ IsListed(i)'
  <2>1. CASE i = nextIndex
    BY <1>1, <1>2, <1>3, <2>1, StreamManagerAssumption DEF TypeOK, Indices
  <2>2. CASE i # nextIndex
    <3>1. itemArray'[i] = itemArray[i]
      BY <1>1, <2>2 DEF TypeOK
    <3>2. i < nextIndex' <=> i < nextIndex
      BY <1>1, <2>2 DEF Indices
    <3> QED
      BY <1>3, <3>1, <3>2 DEF IdsPartitioned
  <2> QED
    BY <2>1, <2>2
<1> QED
  BY <1>1, <1>4 DEF IdsPartitioned

(* Handing out the oldest released index keeps the table partitioned: no   *)
(* index is listed twice, so this one has left the list.                   *)
LEMMA ReuseKeepsPartition ==
  ASSUME TypeOK, IdsPartitioned, NEW sub \in Subs, AddItem(sub),
         ~FreshIndexLeft
  PROVE  IdsPartitioned'
<1>1. freeStreamIds # <<>> /\ freeStreamIds \in Seq(Indices)
  BY DEF AddItem, HasFreeSlot, TypeOK
<1>2. PICK h \in Indices : /\ h = Head(freeStreamIds)
                           /\ h = freeStreamIds[1]
                           /\ 1 \in 1 .. Len(freeStreamIds)
  BY <1>1
<1>3. /\ freeStreamIds # <<>> /\ freeStreamIds \in Seq(Indices)
      /\ freeStreamIds' = Tail(freeStreamIds) /\ nextIndex' = nextIndex
      /\ itemArray' = [itemArray EXCEPT ![h] = sub]
  BY <1>1, <1>2 DEF AddItem, NextFreeIndex
<1>4. /\ Len(freeStreamIds') = Len(freeStreamIds) - 1
      /\ Len(freeStreamIds) \in Nat
      /\ \A k \in 1 .. Len(freeStreamIds') :
            /\ k + 1 \in 2 .. Len(freeStreamIds)
            /\ freeStreamIds'[k] = freeStreamIds[k + 1]
  BY <1>3
<1>5. IsListed(h)
  BY <1>2 DEF IsListed
<1>6. ~IsListed(h)'
  BY <1>2, <1>4 DEF IsListed, IdsPartitioned
<1>7. ASSUME NEW i \in Indices, i # h
      PROVE  IsListed(i)' <=> IsListed(i)
  <2>1. ASSUME NEW k \in 1 .. Len(freeStreamIds), freeStreamIds[k] = i
        PROVE  IsListed(i)'
    <3>1. k # 1 /\ k - 1 \in 1 .. Len(freeStreamIds')
      BY <1>2, <1>4, <1>7, <2>1
    <3>2. freeStreamIds'[k - 1] = freeStreamIds[k - 1 + 1]
      BY <1>4, <3>1
    <3> QED
      BY <2>1, <3>1, <3>2 DEF IsListed
  <2> QED
    BY <1>4, <2>1 DEF IsListed
<1>8. \A j, k \in 1 .. Len(freeStreamIds') :
         freeStreamIds'[j] = freeStreamIds'[k] => j = k
  BY <1>4 DEF IdsPartitioned
<1>9. ASSUME NEW i \in Indices
      PROVE  /\ itemArray'[i] # NoItem => i < nextIndex' /\ ~IsListed(i)'
             /\ IsListed(i)' => i < nextIndex'
             /\ i < nextIndex' => itemArray'[i] # NoItem \/ IsListed(i)'
  <2>1. CASE i = h
    BY <1>2, <1>3, <1>5, <1>6, <2>1, StreamManagerAssumption
    DEF TypeOK, IdsPartitioned
  <2>2. CASE i # h
    <3>1. itemArray'[i] = itemArray[i]
      BY <1>3, <2>2 DEF TypeOK
    <3> QED
      BY <1>3, <1>7, <2>2, <3>1 DEF IdsPartitioned
  <2> QED
    BY <2>1, <2>2
<1> QED
  BY <1>8, <1>9 DEF IdsPartitioned

(* Releasing an owned index keeps the table partitioned. *)
LEMMA ReleaseKeepsPartition ==
  ASSUME TypeOK, IdsPartitioned, NEW r \in Indices, itemArray[r] # NoItem,
         ReleaseStreamId(Index2StreamId(r))
  PROVE  IdsPartitioned'
<1>1. /\ freeStreamIds \in Seq(Indices)
      /\ freeStreamIds' = Append(freeStreamIds, r) /\ nextIndex' = nextIndex
      /\ itemArray' = [itemArray EXCEPT ![r] = NoItem]
  BY StreamIdOfIndex DEF ReleaseStreamId, TypeOK
<1>2. r < nextIndex /\ ~IsListed(r)
  BY DEF IdsPartitioned
<1>3. /\ Len(freeStreamIds') = Len(freeStreamIds) + 1
      /\ freeStreamIds'[Len(freeStreamIds) + 1] = r
      /\ \A k \in 1 .. Len(freeStreamIds) :
            freeStreamIds'[k] = freeStreamIds[k]
      /\ Len(freeStreamIds) \in Nat
  BY <1>1
<1>4. IsListed(r)'
  BY <1>3 DEF IsListed
<1>5. ASSUME NEW i \in Indices, i # r
      PROVE  IsListed(i)' <=> IsListed(i)
  BY <1>3, <1>5 DEF IsListed
<1>6. ASSUME NEW j \in 1 .. Len(freeStreamIds'),
             NEW k \in 1 .. Len(freeStreamIds'),
             freeStreamIds'[j] = freeStreamIds'[k]
      PROVE  j = k
  <2>1. CASE j \in 1 .. Len(freeStreamIds) /\ k \in 1 .. Len(freeStreamIds)
    BY <1>3, <1>6, <2>1 DEF IdsPartitioned
  <2>2. CASE j = Len(freeStreamIds) + 1 \/ k = Len(freeStreamIds) + 1
    BY <1>2, <1>3, <1>6, <2>2 DEF IsListed
  <2> QED
    BY <1>3, <2>1, <2>2
<1>7. ASSUME NEW i \in Indices
      PROVE  /\ itemArray'[i] # NoItem => i < nextIndex' /\ ~IsListed(i)'
             /\ IsListed(i)' => i < nextIndex'
             /\ i < nextIndex' => itemArray'[i] # NoItem \/ IsListed(i)'
  <2>1. CASE i = r
    BY <1>1, <1>2, <1>4, <2>1 DEF TypeOK
  <2>2. CASE i # r
    <3>1. itemArray'[i] = itemArray[i]
      BY <1>1, <2>2 DEF TypeOK
    <3> QED
      BY <1>1, <1>5, <2>2, <3>1 DEF IdsPartitioned
  <2> QED
    BY <2>1, <2>2
<1> QED
  BY <1>6, <1>7 DEF IdsPartitioned

(* As long as only owned ids are released, every id is either owned by one *)
(* subscription or free, exactly once, or was never handed out             *)
(* (UPAStreamManager.cpp AddItem, ReleaseStreamId).                        *)
THEOREM Partition == Spec => []IdsPartitioned
<1>1. Init => IdsPartitioned
  BY StreamManagerAssumption DEF Init, IdsPartitioned, IsListed, Indices
<1>2. TypeOK /\ IdsPartitioned /\ [Next]_idVars => IdsPartitioned'
  <2> SUFFICES ASSUME TypeOK, IdsPartitioned, [Next]_idVars
               PROVE  IdsPartitioned'
    OBVIOUS
  <2>1. ASSUME NEW sub \in Subs, AddItem(sub)
        PROVE  IdsPartitioned'
    BY <2>1, FreshKeepsPartition, ReuseKeepsPartition
  <2>2. ASSUME NEW i \in Indices, itemArray[i] # NoItem,
               ReleaseStreamId(Index2StreamId(i))
        PROVE  IdsPartitioned'
    BY <2>2, ReleaseKeepsPartition
  <2>3. CASE UNCHANGED idVars
    BY <2>3 DEF idVars, IdsPartitioned, IsListed
  <2> QED
    BY <2>1, <2>2, <2>3 DEF Next
<1> QED
  BY <1>1, <1>2, Typing, PTL DEF Spec

-----------------------------------------------------------------------------
(* A released id returns only when no fresh one is left, and the one that  *)
(* was released first returns first (UPAStreamManager.cpp AddItem).        *)
THEOREM Reuse == Spec => ReuseIsOldestFirst
<1> DEFINE Reused(i) ==
      (itemArray[i] = NoItem /\ itemArray'[i] # NoItem) =>
         \/ i >= nextIndex
         \/ nextIndex = NumStreamIds /\ Head(freeStreamIds) = i
<1>1. TypeOK /\ [Next]_idVars => [\A i \in Indices : Reused(i)]_idVars
  <2> SUFFICES ASSUME TypeOK, Next, NEW i \in Indices,
                      itemArray[i] = NoItem, itemArray'[i] # NoItem
               PROVE  \/ i >= nextIndex
                      \/ nextIndex = NumStreamIds /\ Head(freeStreamIds) = i
    OBVIOUS
  <2>1. ASSUME NEW sub \in Subs, AddItem(sub)
        PROVE  \/ i >= nextIndex
               \/ nextIndex = NumStreamIds /\ Head(freeStreamIds) = i
    <3>1. i = NextFreeIndex
      BY <2>1 DEF AddItem, TypeOK
    <3> QED
      BY <3>1, StreamManagerAssumption
      DEF NextFreeIndex, FreshIndexLeft, TypeOK, Indices
  <2>2. ASSUME NEW r \in Indices, ReleaseStreamId(Index2StreamId(r))
        PROVE  FALSE
    BY <2>2, StreamIdOfIndex DEF ReleaseStreamId, TypeOK
  <2> QED
    BY <2>1, <2>2 DEF Next
<1> QED
  BY <1>1, Typing, PTL DEF Spec, ReuseIsOldestFirst
=============================================================================
