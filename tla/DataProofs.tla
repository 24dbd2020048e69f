----------------------------- MODULE DataProofs -----------------------------
(* What the library keeps, converts and hands on arrives as it was given:  *)
(* the field map, the fields of a message and their way over the wire, the *)
(* books and the handshake, for integer types of every width and any       *)
(* number of fids, names, contents, orders, price points and services.     *)
EXTENDS Payload, FieldMap, FieldCodec, OrderBook, PriceBook, Handshake,
        FiniteSetTheorems, SequenceTheorems, WellFoundedInduction, TLAPS

-----------------------------------------------------------------------------
(* Recursive functions over the naturals.                                  *)

(* Of the naturals with a property one is the least. *)
LEMMA LeastNat ==
  ASSUME NEW S \in SUBSET Nat, S # {}
  PROVE  \E x \in S : \A y \in S : x <= y
<1> DEFINE R == {ss \in Nat \X Nat : ss[1] < ss[2]}
<1>1. OpToRel(<, Nat) = R
  BY DEF OpToRel
<1>2. IsWellFoundedOn(R, Nat)
  BY <1>1, NatLessThanWellFounded
<1>3. PICK x \in S : \A y \in S : <<y, x>> \notin R
  BY <1>2, WFMin
<1>4. ASSUME NEW y \in S PROVE x <= y
  <2>1. x \in Nat /\ y \in Nat
    OBVIOUS
  <2>2. ~(<<y, x>>[1] < <<y, x>>[2])
    BY <1>3, <2>1
  <2> QED
    BY <2>1, <2>2
<1> QED
  BY <1>4

(* A property that holds at 0 and passes from i to i + 1 holds up to n. *)
LEMMA UpTo ==
  ASSUME NEW n \in Nat, NEW S, 0 \in S, \A i \in 0 .. n - 1 : i \in S => i + 1 \in S
  PROVE  \A i \in 0 .. n : i \in S
<1> SUFFICES ASSUME NEW k \in 0 .. n, k \notin S
             PROVE  FALSE
  OBVIOUS
<1>1. PICK x \in {i \in 0 .. n : i \notin S} : \A y \in {i \in 0 .. n : i \notin S} : x <= y
  <2>1. {i \in 0 .. n : i \notin S} \in SUBSET Nat /\ {i \in 0 .. n : i \notin S} # {}
    OBVIOUS
  <2> QED
    BY <2>1, LeastNat
<1>2. x # 0 /\ x - 1 \in 0 .. n - 1
  BY <1>1
<1>3. x - 1 \in S
  BY <1>1, <1>2
<1> QED
  BY <1>1, <1>2, <1>3

Steps(n, A) == [(1 .. n) \X A -> A]
Run(g, n, A, base, step) == /\ g \in [0 .. n -> A] /\ g[0] = base
                            /\ \A i \in 1 .. n : g[i] = step[<<i, g[i - 1]>>]

(* Steps from a set to itself can be made one after the other. *)
LEMMA StepsExist ==
  ASSUME NEW A, NEW n \in Nat, NEW base \in A, NEW step \in Steps(n, A)
  PROVE  \E g : Run(g, n, A, base, step)
<1> USE DEF Steps
<1> DEFINE Good(m, g) == Run(g, m, A, base, step)
           S == {m \in 0 .. n : \E g : Good(m, g)}
<1>1. 0 \in S
  <2>1. PICK g : g = [i \in 0 .. 0 |-> base]
    OBVIOUS
  <2>2. Good(0, g) /\ 0 \in 0 .. n
    BY <2>1 DEF Run
  <2> HIDE DEF Good
  <2> QED
    BY <2>2
<1>2. ASSUME NEW m \in 0 .. n - 1, m \in S
      PROVE  m + 1 \in S
  <2>1. PICK g : Good(m, g)
    BY <1>2
  <2>2. m + 1 \in 1 .. n /\ g[m] \in A /\ m \in 0 .. m
    BY <2>1 DEF Run
  <2>3. PICK next : next = step[<<m + 1, g[m]>>]
    OBVIOUS
  <2>4. next \in A
    BY <2>2, <2>3
  <2>5. PICK h : h = [i \in 0 .. m + 1 |-> IF i = m + 1 THEN next ELSE g[i]]
    OBVIOUS
  <2>6. h \in [0 .. m + 1 -> A] /\ h[0] = base
    BY <2>1, <2>2, <2>4, <2>5 DEF Run
  <2>7. ASSUME NEW i \in 1 .. m + 1
        PROVE  h[i] = step[<<i, h[i - 1]>>]
    <3>1. h[i - 1] = g[i - 1]
      BY <2>2, <2>5
    <3>2. CASE i = m + 1
      <4>1. h[i] = next /\ i - 1 = m
        BY <2>5, <3>2
      <4> QED
        BY <2>3, <3>1, <3>2, <4>1
    <3>3. CASE i # m + 1
      <4>1. i \in 1 .. m /\ h[i] = g[i]
        BY <2>5, <3>3
      <4> QED
        BY <2>1, <3>1, <4>1 DEF Run
    <3> QED
      BY <3>2, <3>3
  <2>8. Good(m + 1, h)
    BY <2>6, <2>7 DEF Run
  <2> QED
    BY <2>2, <2>8
<1> HIDE DEF S
<1>3. \A i \in 0 .. n : i \in S
  BY <1>1, <1>2, UpTo
<1>4. n \in S
  BY <1>3
<1> QED
  BY <1>4 DEF S

-----------------------------------------------------------------------------
(* Lists, and the elements of a set in some order.                         *)

IsList(list) == Len(list) \in Nat /\ DOMAIN list = 1 .. Len(list)

(* A function from 1 .. n is a list of length n. *)
LEMMA ListOf ==
  ASSUME NEW n \in Nat, NEW f, f = [k \in 1 .. n |-> f[k]]
  PROVE  IsList(f) /\ Len(f) = n
<1>1. PICK T : T = {f[k] : k \in 1 .. n}
  OBVIOUS
<1>2. f \in [1 .. n -> T]
  BY <1>1
<1>3. f \in Seq(T)
  BY <1>2
<1>4. DOMAIN f = 1 .. n
  BY <1>2
<1> QED
  BY <1>3, <1>4 DEF IsList

(* An order of a finite set has all of its elements. *)
LEMMA EachInOrder ==
  ASSUME NEW S, IsFiniteSet(S), NEW order \in SetToSeqs(S)
  PROVE  \E n \in Nat : order \in [1 .. n -> S] /\ \A x \in S : \E k \in 1 .. n : order[k] = x
<1>1. PICK n \in Nat : n = Cardinality(S)
  BY FS_CardinalityType
<1>2. order \in [1 .. n -> S] /\ \A i, j \in 1 .. n : i # j => order[i] # order[j]
  BY <1>1 DEF SetToSeqs
<1>3. order \in Injection(1 .. n, S)
  BY <1>2 DEF Injection, IsInjective
<1>4. Cardinality(1 .. n) = n
  BY FS_Interval
<1>5. order \in Surjection(1 .. n, S)
  BY <1>1, <1>3, <1>4, FS_Injection
<1>6. \A x \in S : \E k \in 1 .. n : order[k] = x
  BY <1>5 DEF Surjection
<1> QED
  BY <1>2, <1>6

-----------------------------------------------------------------------------
(* A finite set of naturals that is not empty has a maximum. *)
LEMMA MaxIsThere ==
  ASSUME NEW S \in SUBSET Nat, IsFiniteSet(S), S # {}
  PROVE  Max(S) \in S
<1> DEFINE Topped(T) == \E x \in T : \A y \in T : x >= y
           Bad == {T \in SUBSET S : T # {} /\ ~Topped(T)}
<1>1. Bad = {}
  <2> SUFFICES ASSUME Bad # {} PROVE FALSE
    OBVIOUS
  <2>1. Bad \subseteq FiniteSubsetsOf(S)
    BY FS_FiniteSubsetsOfFinite
  <2>2. PICK T \in Bad : \A U \in Bad : <<U, T>> \notin StrictSubsetOrdering(S)
    BY <2>1, FS_StrictSubsetOrderingWellFounded, WFMin
  <2>3. PICK x : x \in T
    OBVIOUS
  <2>4. PICK U : U = T \ {x}
    OBVIOUS
  <2>5. U \notin Bad
    <3>1. U \in SUBSET S /\ T \in SUBSET S /\ U \subseteq T /\ U # T
      BY <2>3, <2>4
    <3>2. PICK p : p = <<U, T>>
      OBVIOUS
    <3>3. p \in StrictSubsetOrdering(S)
      BY <3>1, <3>2 DEF StrictSubsetOrdering
    <3> QED
      BY <2>2, <3>2, <3>3
  <2>6. T \subseteq Nat
    OBVIOUS
  <2>7. CASE U = {}
    <3>1. T = {x} /\ x \in Nat
      BY <2>3, <2>4, <2>6, <2>7
    <3> QED
      BY <3>1
  <2>8. CASE U # {}
    <3>1. PICK m \in U : \A y \in U : m >= y
      BY <2>4, <2>5, <2>8
    <3>2. m \in Nat /\ x \in Nat /\ m \in T /\ \A y \in T : y \in Nat /\ (y = x \/ m >= y)
      BY <2>3, <2>4, <2>6, <3>1
    <3>3. CASE m >= x
      BY <3>2, <3>3
    <3>4. CASE ~(m >= x)
      <4>1. \A y \in T : x >= y
        BY <3>2, <3>4
      <4> QED
        BY <2>3, <4>1
    <3> QED
      BY <3>3, <3>4
  <2> QED
    BY <2>7, <2>8
<1>2. \E x \in S : \A y \in S : x >= y
  BY <1>1
<1> QED
  BY <1>2 DEF Max

-----------------------------------------------------------------------------
(* The inductive invariant: as long as the file and the start leave no fid *)
(* to two fields, a fid leads back to the field that has it, it is from    *)
(* the file or above the start until the client's dictionary is built, and *)
(* nothing is decoded before.                                              *)

GivenByFile(s) == \E q \in ToSet(rows) : q.source = s /\ FidOfRow(q) = fieldsMap[s].fid
MapTypes == /\ fieldsMap = [s \in Sources |-> fieldsMap[s]]
            /\ \A s \in Sources : fieldsMap[s].fid \in Nat
            /\ start \in Nat /\ lastFid \in Nat /\ start <= lastFid
            /\ loaded \in BOOLEAN /\ built \in BOOLEAN
            /\ DOMAIN given \subseteq DOMAIN RmdsDictionary
ThereAndBack == \A s \in Sources : fieldsMap[s].fid # 0 =>
                  /\ fieldsMap[s].fid \in DOMAIN mama2rmds /\ mama2rmds[fieldsMap[s].fid] = s
                  /\ fieldsMap[s].fid <= lastFid
FromFile == ~built =>
  \A s \in Sources : fieldsMap[s].fid # 0 =>
    fieldsMap[s].fid > start \/ GivenByFile(s)
GivenOnceBuilt == /\ loaded => built
                  /\ DOMAIN given # {} => loaded
                  /\ \A s \in DOMAIN given : given[s] # 0 /\ given[s] = fieldsMap[s].fid

MapInv == rows \in Seq(Rows) /\ (WellConfigured => MapTypes /\ ThereAndBack /\ FromFile /\ GivenOnceBuilt)

(* The next fids are above the last, one for each field. *)
LEMMA NextFids ==
  ASSUME NEW new, IsFiniteSet(new), new \in SUBSET Int, lastFid \in Nat
  PROVE  /\ Cardinality(new) \in Nat
         /\ \A s \in new : /\ NextFid(new, s) \in Nat /\ NextFid(new, s) > lastFid
                           /\ NextFid(new, s) <= lastFid + Cardinality(new)
         /\ \A s, t \in new : NextFid(new, s) = NextFid(new, t) => s = t
<1> DEFINE Below(s) == {x \in new : x <= s}
<1>1. Cardinality(new) \in Nat
  BY FS_CardinalityType
<1>2. ASSUME NEW s \in new
      PROVE  /\ IsFiniteSet(Below(s)) /\ Cardinality(Below(s)) \in Nat
             /\ Cardinality(Below(s)) <= Cardinality(new) /\ Cardinality(Below(s)) # 0
  <2>1. Below(s) \in SUBSET new /\ s \in Below(s)
    OBVIOUS
  <2>2. IsFiniteSet(Below(s)) /\ Cardinality(Below(s)) <= Cardinality(new)
    BY <2>1, FS_Subset
  <2> QED
    BY <2>1, <2>2, FS_CardinalityType, FS_EmptySet
<1>3. \A s \in new : NextFid(new, s) = lastFid + Cardinality(Below(s))
  BY DEF NextFid
<1>4. ASSUME NEW s \in new, NEW t \in new, s < t
      PROVE  NextFid(new, s) # NextFid(new, t)
  <2>1. PICK B, C : B = Below(s) /\ C = Below(t)
    OBVIOUS
  <2>2. B \in SUBSET C /\ t \in C /\ t \notin B
    <3>1. \A x \in new : x \in Int
      OBVIOUS
    <3>2. \A x \in new : x <= s => x <= t
      BY <1>4, <3>1
    <3>3. t <= t /\ ~(t <= s)
      BY <1>4, <3>1
    <3> QED
      BY <2>1, <3>2, <3>3
  <2>3. IsFiniteSet(C) /\ Cardinality(C) \in Nat /\ Cardinality(B) \in Nat
    BY <1>2, <2>1
  <2>4. Cardinality(B) # Cardinality(C)
    BY <2>2, <2>3, FS_Subset
  <2> HIDE DEF Below
  <2> QED
    BY <1>3, <2>1, <2>3, <2>4
<1>5. \A s, t \in new : NextFid(new, s) = NextFid(new, t) => s = t
  <2> SUFFICES ASSUME NEW s \in new, NEW t \in new, s # t
               PROVE  NextFid(new, s) # NextFid(new, t)
    OBVIOUS
  <2>1. s < t \/ t < s
    OBVIOUS
  <2> QED
    BY <1>4, <2>1
<1>6. ASSUME NEW s \in new
      PROVE  /\ NextFid(new, s) \in Nat /\ NextFid(new, s) > lastFid
             /\ NextFid(new, s) <= lastFid + Cardinality(new)
  <2>1. PICK c : c = Cardinality(Below(s))
    OBVIOUS
  <2>2. c \in Nat /\ c <= Cardinality(new) /\ c # 0
    BY <1>2, <2>1
  <2>3. NextFid(new, s) = lastFid + c
    BY <1>3, <2>1
  <2> QED
    BY <1>1, <2>2, <2>3
<1> QED
  BY <1>1, <1>5, <1>6

(* The fid of a row is the file's, or else the dictionary's for its name. *)
LEMMA RowFid ==
  ASSUME NEW r \in Rows
  PROVE  /\ FidOfRow(r) \in Nat /\ r.fid \in Nat
         /\ FidOfRow(r) # 0 <=> r.fid # 0 \/ InMama(r.name)
         /\ r.fid # 0 => FidOfRow(r) = r.fid
         /\ r.fid = 0 /\ InMama(r.name) => FidOfRow(r) = MamaDictionary[r.name]
         /\ r.source \in Sources
BY FieldMapAssumption DEF FidOfRow, InMama, MamaFids, Sources

(* The rows read so far are those before and the new one. *)
LEMMA RowAppended ==
  ASSUME rows \in Seq(Rows), NEW r \in Rows
  PROVE  Append(rows, r) \in Seq(Rows) /\ ToSet(Append(rows, r)) = ToSet(rows) \cup {r}
<1>1. /\ DOMAIN Append(rows, r) = DOMAIN rows \cup {Len(rows) + 1}
      /\ Append(rows, r)[Len(rows) + 1] = r
      /\ \A i \in DOMAIN rows : Append(rows, r)[i] = rows[i]
  OBVIOUS
<1> QED
  BY <1>1 DEF ToSet

(* A row of the file keeps what is known of the fids. *)
LEMMA LoadRowKeeps ==
  ASSUME MapInv, NEW r \in Rows, LoadRow(r)
  PROVE  MapInv'
<1>1. PICK fresh, fid : /\ fresh = (r.fid = 0 /\ ~InMama(r.name))
                        /\ fid = IF r.fid # 0 THEN r.fid
                                 ELSE IF fresh THEN lastFid + 1 ELSE MamaDictionary[r.name]
  OBVIOUS
<1>2. /\ ~loaded /\ ~built /\ lastFid' = lastFid + (IF fresh THEN 1 ELSE 0)
      /\ fieldsMap' = [fieldsMap EXCEPT ![r.source] = Entry(fid, r.name, r.fid = 0)]
      /\ mama2rmds' = With(mama2rmds, fid, r.source)
      /\ rows' = Append(rows, r)
      /\ start' = start /\ built' = built /\ loaded' = loaded /\ given' = given
  BY <1>1 DEF LoadRow
<1>3. rows \in Seq(Rows) /\ rows' \in Seq(Rows) /\ ToSet(rows') = ToSet(rows) \cup {r}
  BY <1>2, RowAppended DEF MapInv
<1> SUFFICES ASSUME WellConfigured'
             PROVE  MapTypes' /\ ThereAndBack' /\ FromFile' /\ GivenOnceBuilt'
  BY <1>3 DEF MapInv
<1>4. /\ WellConfigured /\ FidOfRow(r) <= start
      /\ \A q \in ToSet(rows) : FidOfRow(r) # 0 /\ q.source # r.source => FidOfRow(q) # FidOfRow(r)
  BY <1>2, <1>3 DEF WellConfigured
<1>5. MapTypes /\ ThereAndBack /\ FromFile /\ GivenOnceBuilt
  BY <1>4 DEF MapInv
<1>6. FidOfRow(r) \in Nat /\ r.source \in Sources /\ r.fid \in Nat
  BY RowFid
<1>7. /\ ~fresh => fid = FidOfRow(r) /\ fid # 0
      /\ fresh => fid = lastFid + 1
      /\ fid \in Nat /\ fid # 0
  <2>1. lastFid \in Nat
    BY <1>5 DEF MapTypes
  <2>2. CASE r.fid # 0
    BY <1>1, <1>6, <2>2, RowFid
  <2>3. CASE r.fid = 0 /\ InMama(r.name)
    BY <1>1, <1>6, <2>3, RowFid
  <2>4. CASE r.fid = 0 /\ ~InMama(r.name)
    <3>1. fresh
      BY <1>1, <2>4
    <3>2. fid = lastFid + 1
      BY <1>1, <2>4, <3>1
    <3> QED
      BY <2>1, <3>1, <3>2
  <2> QED
    BY <2>2, <2>3, <2>4
<1>8. lastFid' \in Nat /\ lastFid <= lastFid' /\ start <= lastFid' /\ fid <= lastFid'
  BY <1>2, <1>4, <1>5, <1>6, <1>7 DEF MapTypes
<1>9. /\ fieldsMap' = [s \in Sources |-> fieldsMap'[s]] /\ fieldsMap'[r.source].fid = fid
      /\ \A s \in Sources \ {r.source} : fieldsMap'[s] = fieldsMap[s]
  <2>1. PICK e : e = Entry(fid, r.name, r.fid = 0)
    OBVIOUS
  <2>2. e.fid = fid
    BY <2>1 DEF Entry
  <2>3. fieldsMap = [s \in Sources |-> fieldsMap[s]] /\ fieldsMap' = [fieldsMap EXCEPT ![r.source] = e]
    BY <1>2, <1>5, <2>1 DEF MapTypes
  <2> QED
    BY <1>6, <2>2, <2>3
<1>10. MapTypes'
  <2>1. \A s \in Sources : fieldsMap'[s].fid \in Nat
    BY <1>5, <1>7, <1>9 DEF MapTypes
  <2> QED
    BY <1>2, <1>5, <1>8, <1>9, <2>1 DEF MapTypes
<1>11. ASSUME NEW s \in Sources \ {r.source}, fieldsMap[s].fid # 0
       PROVE  fieldsMap[s].fid # fid
  <2>1. CASE fresh
    BY <1>5, <1>7, <1>11, <2>1 DEF ThereAndBack, MapTypes
  <2>2. CASE ~fresh
    BY <1>2, <1>4, <1>5, <1>6, <1>7, <1>11, <2>2 DEF FromFile, GivenByFile, MapTypes
  <2> QED
    BY <2>1, <2>2
<1>12. ThereAndBack'
  <2>1. /\ DOMAIN mama2rmds' = DOMAIN mama2rmds \cup {fid} /\ mama2rmds'[fid] = r.source
        /\ \A f \in DOMAIN mama2rmds \ {fid} : mama2rmds'[f] = mama2rmds[f]
    BY <1>2 DEF With
  <2>2. ASSUME NEW s \in Sources, fieldsMap'[s].fid # 0
        PROVE  /\ fieldsMap'[s].fid \in DOMAIN mama2rmds' /\ mama2rmds'[fieldsMap'[s].fid] = s
               /\ fieldsMap'[s].fid <= lastFid'
    <3>1. CASE s = r.source
      BY <1>8, <1>9, <2>1, <3>1
    <3>2. CASE s # r.source
      <4>1. PICK f : f = fieldsMap[s].fid
        OBVIOUS
      <4>2. fieldsMap'[s].fid = f /\ f # 0 /\ f # fid
        BY <1>9, <1>11, <2>2, <3>2, <4>1
      <4>3. f \in DOMAIN mama2rmds /\ mama2rmds[f] = s /\ f <= lastFid /\ f \in Nat
        BY <1>5, <4>1, <4>2 DEF ThereAndBack, MapTypes
      <4>4. f <= lastFid' /\ lastFid \in Nat
        BY <1>5, <1>8, <4>3 DEF MapTypes
      <4> QED
        BY <2>1, <4>2, <4>3, <4>4
    <3> QED
      BY <3>1, <3>2
  <2> QED
    BY <2>2 DEF ThereAndBack
<1>13. FromFile'
  <2> SUFFICES ASSUME NEW s \in Sources, fieldsMap'[s].fid # 0
               PROVE  fieldsMap'[s].fid > start \/ GivenByFile(s)'
    BY <1>2 DEF FromFile
  <2>1. CASE s # r.source
    <3>1. fieldsMap'[s] = fieldsMap[s] /\ fieldsMap[s].fid # 0
      BY <1>9, <2>1
    <3>2. fieldsMap[s].fid > start \/ GivenByFile(s)
      BY <1>2, <1>5, <3>1 DEF FromFile
    <3> QED
      BY <1>3, <3>1, <3>2 DEF GivenByFile
  <2>2. CASE s = r.source /\ ~fresh
    <3>1. fieldsMap'[s].fid = FidOfRow(r)
      BY <1>7, <1>9, <2>2
    <3> QED
      BY <1>3, <2>2, <3>1 DEF GivenByFile
  <2>3. CASE s = r.source /\ fresh
    <3>1. fieldsMap'[s].fid = lastFid + 1
      BY <1>7, <1>9, <2>3
    <3> QED
      BY <1>5, <3>1 DEF MapTypes
  <2> QED
    BY <2>1, <2>2, <2>3
<1>14. GivenOnceBuilt'
  BY <1>2, <1>5 DEF GivenOnceBuilt
<1> QED
  BY <1>10, <1>12, <1>13, <1>14

(* The fields that have no fid get the next ones when the client's         *)
(* dictionary is built.                                                    *)
LEMMA CombineKeeps ==
  ASSUME MapInv, NEW hasRmds \in BOOLEAN, Combine(hasRmds), loaded' \in {loaded, TRUE},
         start' = start, rows' = rows, given' = given
  PROVE  MapInv'
<1> SUFFICES ASSUME WellConfigured'
             PROVE  MapTypes' /\ ThereAndBack' /\ FromFile' /\ GivenOnceBuilt'
  BY DEF MapInv
<1>1. MapTypes /\ ThereAndBack /\ FromFile /\ GivenOnceBuilt
  BY DEF MapInv, WellConfigured
<1>2. CASE built
  <2>1. UNCHANGED <<fieldsMap, mama2rmds, lastFid, built>>
    BY <1>2 DEF Combine
  <2>2. MapTypes' /\ ThereAndBack' /\ FromFile'
    BY <1>1, <1>2, <2>1 DEF MapTypes, ThereAndBack, FromFile
  <2>3. GivenOnceBuilt'
    BY <1>1, <1>2, <2>1 DEF MapTypes, GivenOnceBuilt
  <2> QED
    BY <2>2, <2>3
<1>3. CASE ~built
  <2>1. PICK new : new = Added(hasRmds)
    OBVIOUS
  <2>2. /\ fieldsMap' = MapWith(new) /\ mama2rmds' = BackWith(new)
        /\ lastFid' = lastFid + Cardinality(new) /\ built' = TRUE
    BY <1>3, <2>1 DEF Combine
  <2>3. new \in SUBSET DOMAIN RmdsDictionary /\ DOMAIN RmdsDictionary \subseteq Sources
    BY <2>1 DEF Added, Sources
  <2>4. IsFiniteSet(new) /\ new \in SUBSET Int
    BY <2>3, FieldMapAssumption, FS_Subset
  <2>5. start \in Nat /\ lastFid \in Nat /\ start <= lastFid
    BY <1>1 DEF MapTypes
  <2>6. /\ Cardinality(new) \in Nat
        /\ \A s \in new : /\ NextFid(new, s) \in Nat /\ NextFid(new, s) > lastFid
                          /\ NextFid(new, s) <= lastFid + Cardinality(new)
        /\ \A s, t \in new : NextFid(new, s) = NextFid(new, t) => s = t
    BY <2>4, <2>5, NextFids
  <2>7. /\ \A s \in new : fieldsMap'[s].fid = NextFid(new, s)
        /\ \A s \in Sources \ new : fieldsMap'[s] = fieldsMap[s]
        /\ fieldsMap' = [s \in Sources |-> fieldsMap'[s]]
    BY <2>2, <2>3 DEF MapWith, Entry
  <2>8. lastFid' \in Nat /\ lastFid <= lastFid'
    BY <2>2, <2>5, <2>6
  <2>9. MapTypes'
    <3>1. \A s \in Sources : fieldsMap'[s].fid \in Nat
      BY <1>1, <2>6, <2>7 DEF MapTypes
    <3>2. start' \in Nat /\ start' <= lastFid'
      BY <2>5, <2>8
    <3> QED
      BY <1>1, <2>2, <2>7, <2>8, <3>1, <3>2 DEF MapTypes
  <2>10. PICK fids : fids = {NextFid(new, s) : s \in new}
    OBVIOUS
  <2>11. mama2rmds' = [f \in DOMAIN mama2rmds \cup fids |->
                         IF f \in fids THEN CHOOSE s \in new : NextFid(new, s) = f ELSE mama2rmds[f]]
    BY <2>2, <2>10 DEF BackWith
  <2>12. ThereAndBack'
    <3> SUFFICES ASSUME NEW s \in Sources, fieldsMap'[s].fid # 0
                 PROVE  /\ fieldsMap'[s].fid \in DOMAIN mama2rmds' /\ mama2rmds'[fieldsMap'[s].fid] = s
                        /\ fieldsMap'[s].fid <= lastFid'
      BY DEF ThereAndBack
    <3>1. PICK f : f = fieldsMap'[s].fid
      OBVIOUS
    <3>2. CASE s \in new
      <4>1. f = NextFid(new, s) /\ f \in fids
        BY <2>7, <2>10, <3>1, <3>2
      <4>2. (CHOOSE t \in new : NextFid(new, t) = f) = s
        BY <2>6, <3>2, <4>1
      <4>3. f \in DOMAIN mama2rmds' /\ mama2rmds'[f] = s
        BY <2>11, <4>1, <4>2
      <4>4. f <= lastFid'
        BY <2>2, <2>6, <3>2, <4>1
      <4> QED
        BY <3>1, <4>3, <4>4
    <3>3. CASE s \notin new
      <4>1. f = fieldsMap[s].fid /\ f # 0
        BY <2>7, <3>1, <3>3
      <4>2. f \in DOMAIN mama2rmds /\ mama2rmds[f] = s /\ f <= lastFid /\ f \in Nat
        BY <1>1, <4>1 DEF ThereAndBack, MapTypes
      <4>3. f \notin fids
        <5>1. \A t \in new : NextFid(new, t) # f
          BY <2>5, <2>6, <4>2
        <5> QED
          BY <2>10, <5>1
      <4>4. f \in DOMAIN mama2rmds' /\ mama2rmds'[f] = s
        BY <2>11, <4>2, <4>3
      <4>5. f <= lastFid'
        BY <2>5, <2>8, <4>2
      <4> QED
        BY <3>1, <4>4, <4>5
    <3> QED
      BY <3>2, <3>3
  <2>13. FromFile'
    BY <2>2 DEF FromFile
  <2>14. GivenOnceBuilt'
    <3>1. DOMAIN given = {}
      BY <1>1, <1>3 DEF GivenOnceBuilt
    <3> QED
      BY <2>2, <3>1 DEF GivenOnceBuilt
  <2> QED
    BY <2>9, <2>12, <2>13, <2>14
<1> QED
  BY <1>2, <1>3, <1>1 DEF MapTypes

(* A field that is met for the first time gets a fid nobody has. *)
LEMMA DecodeFieldKeeps ==
  ASSUME MapInv, NEW s \in DOMAIN RmdsDictionary, DecodeField(s)
  PROVE  MapInv'
<1>1. /\ loaded /\ GetTranslatedField(s)
      /\ given' = WithNew(given, s, IF fieldsMap[s].fid # 0 THEN fieldsMap[s].fid ELSE lastFid')
      /\ start' = start /\ built' = built /\ loaded' = loaded /\ rows' = rows
  BY DEF DecodeField
<1> SUFFICES ASSUME WellConfigured'
             PROVE  MapTypes' /\ ThereAndBack' /\ FromFile' /\ GivenOnceBuilt'
  BY <1>1 DEF MapInv
<1>2. MapTypes /\ ThereAndBack /\ FromFile /\ GivenOnceBuilt
  BY <1>1 DEF MapInv, WellConfigured
<1>3. built /\ s \in Sources
  BY <1>1, <1>2 DEF GivenOnceBuilt, Sources
<1>4. FromFile'
  BY <1>1, <1>3 DEF FromFile
<1>5. PICK fid : fid = IF fieldsMap[s].fid # 0 THEN fieldsMap[s].fid ELSE lastFid'
  OBVIOUS
<1>6. /\ DOMAIN given' = DOMAIN given \cup {s} /\ \A t \in DOMAIN given : given'[t] = given[t]
      /\ s \notin DOMAIN given => given'[s] = fid
  BY <1>1, <1>5 DEF WithNew
<1>7. CASE TranslateFound(s)
  <2>1. UNCHANGED <<fieldsMap, mama2rmds, lastFid>> /\ fieldsMap[s].fid # 0 /\ fid = fieldsMap[s].fid
    BY <1>5, <1>7 DEF TranslateFound
  <2>2. MapTypes' /\ ThereAndBack'
    BY <1>1, <1>2, <1>6, <2>1 DEF MapTypes, ThereAndBack
  <2>3. GivenOnceBuilt'
    BY <1>1, <1>2, <1>6, <2>1 DEF GivenOnceBuilt
  <2> QED
    BY <1>4, <2>2, <2>3
<1>8. CASE TranslateNew(s)
  <2>1. PICK none \in BOOLEAN :
          fieldsMap' = [fieldsMap EXCEPT ![s] = Entry(lastFid + 1, RmdsDictionary[s], none)]
    BY <1>8 DEF TranslateNew
  <2>2. /\ fieldsMap[s].fid = 0 /\ lastFid' = lastFid + 1 /\ mama2rmds' = With(mama2rmds, lastFid + 1, s)
    BY <1>8 DEF TranslateNew
  <2>3. lastFid \in Nat /\ start \in Nat /\ start <= lastFid
    BY <1>2 DEF MapTypes
  <2>4. fid = lastFid + 1 /\ fid \in Nat /\ fid # 0 /\ lastFid' = fid
    BY <1>5, <2>2, <2>3
  <2>5. /\ fieldsMap' = [t \in Sources |-> fieldsMap'[t]] /\ fieldsMap'[s].fid = fid
        /\ \A t \in Sources \ {s} : fieldsMap'[t] = fieldsMap[t]
    <3>1. PICK e : e = Entry(lastFid + 1, RmdsDictionary[s], none)
      OBVIOUS
    <3>2. e.fid = fid
      BY <2>4, <3>1 DEF Entry
    <3>3. fieldsMap = [t \in Sources |-> fieldsMap[t]] /\ fieldsMap' = [fieldsMap EXCEPT ![s] = e]
      BY <1>2, <2>1, <3>1 DEF MapTypes
    <3> QED
      BY <1>3, <3>2, <3>3
  <2>6. MapTypes'
    <3>1. \A t \in Sources : fieldsMap'[t].fid \in Nat
      BY <1>2, <2>4, <2>5 DEF MapTypes
    <3>2. start' \in Nat /\ start' <= lastFid' /\ lastFid' \in Nat
      BY <1>1, <2>3, <2>4
    <3> QED
      BY <1>1, <1>2, <1>6, <2>5, <3>1, <3>2 DEF MapTypes
  <2>7. ThereAndBack'
    <3>1. /\ DOMAIN mama2rmds' = DOMAIN mama2rmds \cup {fid} /\ mama2rmds'[fid] = s
          /\ \A f \in DOMAIN mama2rmds \ {fid} : mama2rmds'[f] = mama2rmds[f]
      BY <2>2, <2>4 DEF With
    <3>2. ASSUME NEW t \in Sources, fieldsMap'[t].fid # 0
          PROVE  /\ fieldsMap'[t].fid \in DOMAIN mama2rmds' /\ mama2rmds'[fieldsMap'[t].fid] = t
                 /\ fieldsMap'[t].fid <= lastFid'
      <4>1. CASE t = s
        BY <2>4, <2>5, <3>1, <4>1
      <4>2. CASE t # s
        <5>1. PICK f : f = fieldsMap[t].fid
          OBVIOUS
        <5>2. fieldsMap'[t].fid = f /\ f # 0
          BY <2>5, <3>2, <4>2, <5>1
        <5>3. f \in DOMAIN mama2rmds /\ mama2rmds[f] = t /\ f <= lastFid /\ f \in Nat
          BY <1>2, <5>1, <5>2 DEF ThereAndBack, MapTypes
        <5>4. f # fid /\ f <= lastFid'
          BY <2>3, <2>4, <5>3
        <5> QED
          BY <3>1, <5>2, <5>3, <5>4
      <4> QED
        BY <4>1, <4>2
    <3> QED
      BY <3>2 DEF ThereAndBack
  <2>8. GivenOnceBuilt'
    <3>1. s \notin DOMAIN given /\ \A t \in DOMAIN given : t \in Sources
      BY <1>2, <2>2 DEF GivenOnceBuilt, MapTypes, Sources
    <3>2. \A t \in DOMAIN given' : given'[t] # 0 /\ given'[t] = fieldsMap'[t].fid
      BY <1>2, <1>6, <2>4, <2>5, <3>1 DEF GivenOnceBuilt
    <3> QED
      BY <1>1, <1>3, <3>2 DEF GivenOnceBuilt
  <2> QED
    BY <1>4, <2>6, <2>7, <2>8
<1> QED
  BY <1>1, <1>7, <1>8 DEF GetTranslatedField

(* The invariant of the field map holds in every reachable state. *)
LEMMA MapInvariance == FieldMapSpec => []MapInv
<1>1. FieldMapInit => MapInv
  <2> SUFFICES ASSUME FieldMapInit PROVE MapInv
    OBVIOUS
  <2>1. PICK first \in FirstFids : start = IF first = 0 THEN Max(MamaFids) + 1 ELSE first
    BY DEF FieldMapInit
  <2>2. Max(MamaFids) \in Nat
    <3>1. MamaFids \in SUBSET Nat /\ IsFiniteSet(MamaFids) /\ MamaFids # {}
      BY FieldMapAssumption
    <3>2. Max(MamaFids) \in MamaFids
      BY <3>1, MaxIsThere
    <3> QED
      BY <3>1, <3>2
  <2>3. start \in Nat
    BY <2>1, <2>2, FieldMapAssumption
  <2>4. /\ fieldsMap = [s \in Sources |-> NoEntry] /\ lastFid = start /\ built = FALSE
        /\ loaded = FALSE /\ rows = << >> /\ given = << >>
    BY DEF FieldMapInit
  <2>5. DOMAIN given = {}
    <3>1. << >> = [x \in {} |-> 0]
      OBVIOUS
    <3> QED
      BY <2>4, <3>1
  <2>6. \A s \in Sources : fieldsMap[s].fid = 0
    BY <2>4 DEF NoEntry, Entry
  <2>7. MapTypes
    <3>1. fieldsMap = [s \in Sources |-> fieldsMap[s]] /\ \A s \in Sources : fieldsMap[s].fid \in Nat
      BY <2>4, <2>6
    <3>2. start <= lastFid /\ lastFid \in Nat
      BY <2>3, <2>4
    <3>3. DOMAIN given \subseteq DOMAIN RmdsDictionary
      BY <2>5
    <3> QED
      BY <2>3, <2>4, <3>1, <3>2, <3>3 DEF MapTypes
  <2> QED
    BY <2>4, <2>5, <2>6, <2>7 DEF MapInv, ThereAndBack, FromFile, GivenOnceBuilt
<1>2. MapInv /\ [FieldMapNext]_mapVars => MapInv'
  <2> SUFFICES ASSUME MapInv, [FieldMapNext]_mapVars PROVE MapInv'
    OBVIOUS
  <2>1. ASSUME NEW r \in Rows, LoadRow(r) PROVE MapInv'
    BY <2>1, LoadRowKeeps
  <2>2. CASE CreatePublisher
    <3>1. CASE loaded \in BOOLEAN
      BY <2>2, <3>1, CombineKeeps DEF CreatePublisher
    <3>2. CASE loaded \notin BOOLEAN
      <4>1. ~WellConfigured /\ rows' = rows /\ start' = start
        BY <2>2, <3>2 DEF MapInv, MapTypes, CreatePublisher
      <4> QED
        BY <4>1 DEF MapInv, WellConfigured
    <3> QED
      BY <3>1, <3>2
  <2>3. CASE DictionaryUpdate
    BY <2>3, CombineKeeps DEF DictionaryUpdate
  <2>4. ASSUME NEW s \in DOMAIN RmdsDictionary, DecodeField(s) PROVE MapInv'
    BY <2>4, DecodeFieldKeeps
  <2>5. CASE UNCHANGED mapVars
    BY <2>5 DEF mapVars, MapInv, WellConfigured, MapTypes, ThereAndBack, FromFile, GivenByFile,
                GivenOnceBuilt
  <2> QED
    BY <2>1, <2>2, <2>3, <2>4, <2>5 DEF FieldMapNext
<1> QED
  BY <1>1, <1>2, PTL DEF FieldMapSpec

(* A field keeps the fid it was first given under, and what is published   *)
(* under that fid is that field, whatever the dictionaries and the file    *)
(* (UPAMamaFieldMap.cpp: CombineDictionaries, GetTranslatedField).         *)
THEOREM FidsLeadBack == FieldMapSpec => []FidsComeBack
<1>1. MapInv => FidsComeBack
  <2> SUFFICES ASSUME MapInv, WellConfigured, NEW s \in DOMAIN given
               PROVE  fieldsMap[s].fid = given[s] /\ GetRMDSFidFromMAMAFid(given[s]) = s
    BY DEF FidsComeBack
  <2>1. MapTypes /\ ThereAndBack /\ GivenOnceBuilt
    BY DEF MapInv
  <2>2. s \in Sources /\ given[s] # 0 /\ given[s] = fieldsMap[s].fid
    BY <2>1 DEF MapTypes, GivenOnceBuilt, Sources
  <2> QED
    BY <2>1, <2>2 DEF ThereAndBack, GetRMDSFidFromMAMAFid
<1> QED
  BY <1>1, MapInvariance, PTL

-----------------------------------------------------------------------------
(* Conversions that lose nothing.                                          *)

(* A number that fits a type is not changed by wrapping it. *)
LEMMA WrapBack ==
  ASSUME NEW t \in Ints \cup {"CHAR"}, NEW n \in Int, Fits(n, t)
  PROVE  Wrapped(n, t) = n
<1>1. PICK s \in Nat, low \in Int : s = Span(t) /\ low = Lowest(t)
  <2>1. Span(t) \in Nat
    BY ValuesAssumption DEF Span
  <2> QED
    BY <2>1 DEF Lowest
<1>2. low <= n /\ n <= low + s - 1
  BY <1>1 DEF Fits, Highest
<1>3. (n - low) % s = n - low
  <2>1. PICK d \in Nat : d = n - low /\ d < s
    BY <1>2
  <2>2. d % s = d
    BY <2>1
  <2> QED
    BY <2>1, <2>2
<1> QED
  BY <1>1, <1>2, <1>3 DEF Wrapped

(* A whole number, counted in halves, is what truncation gives. *)
LEMMA TruncatedTwice ==
  ASSUME NEW n \in Int
  PROVE  Truncated(2 * n) = n
BY DEF Truncated

(* A number that fits a type survives the cast to it. *)
LEMMA CastBack ==
  ASSUME NEW t \in Ints \cup {"CHAR"}, NEW n \in Int, Fits(n, t), NEW f, f.v = <<2 * n>>
  PROVE  Cast(f, t) = {Given(f.v)}
<1>1. f.v[1] = 2 * n
  OBVIOUS
<1> QED
  BY <1>1, WrapBack, TruncatedTwice DEF Cast

-----------------------------------------------------------------------------
(* The inductive invariant: a message has one field of each fid that was    *)
(* accepted and not cleared, with that content; so has the second one; and  *)
(* an iterator that was not sent back has visited the fields up to it.      *)

IsStored(c) == IsContent(c) /\ c.type # "VECTOR_I8"
FieldNames == {EmptyName} \cup {<<n>> : n \in Names}
FieldOk(f, w) == /\ f = [fid |-> f.fid, name |-> f.name, type |-> f.type, v |-> f.v]
                 /\ f.fid \in Fids /\ f.name \in FieldNames
                 /\ f.type = w[f.fid].type /\ f.v = w[f.fid].v
FidsIn(F) == {f.fid : f \in F}
Accounted(F, w) == DOMAIN w = FidsIn(F) /\ \A k \in DOMAIN w : IsStored(w[k])
AllOk(F, w) == \A f \in F : FieldOk(f, w)
Matching(F, w) == Accounted(F, w) /\ AllOk(F, w)

IsTuple(fs) == IsList(fs) /\ fs = [i \in 1 .. Len(fs) |-> fs[i]]
Once(fs) == IsTuple(fs) /\ \A i, j \in 1 .. Len(fs) : fs[i].fid = fs[j].fid => i = j
OnceIn(F) == IsFiniteSet(F) /\ \A f, g \in F : f.fid = g.fid => f = g

MessageInv == Once(payload) /\ Matching(ToSet(payload), written)
SpareInv == OnceIn(spare) /\ Matching(spare, lent)

Passed == IF iter.front THEN 0 ELSE IF iter.pos <= Len(payload) THEN iter.pos ELSE Len(payload)
Straight ==
  /\ visited \in Seq(Fids) /\ Len(visited) = Passed
  /\ \A k \in 1 .. Passed : visited[k] = payload[k].fid
  /\ iter.front => iter.pos = 1 /\ (iter.ended => Len(payload) = 0)
  /\ ~iter.front => Len(payload) > 0 /\ (iter.ended <=> iter.pos = Len(payload) + 1)
Iterators == [pos : Nat, front : BOOLEAN, rewound : BOOLEAN, ended : BOOLEAN]
WalkInv == /\ iter \in Iterators
           /\ iter # NoIter => iter.pos \in 1 .. Len(payload) + 1 /\ (~iter.rewound => Straight)

PayloadInv == MessageInv /\ SpareInv /\ WalkInv

-----------------------------------------------------------------------------
(* Lists and sets of fields.                                               *)

(* Fields put in any order are a list with each once. *)
LEMMA Fielded ==
  ASSUME NEW F, OnceIn(F), NEW fs \in SetToSeqs(F)
  PROVE  Once(fs) /\ ToSet(fs) = F
<1>1. PICK n \in Nat : fs \in [1 .. n -> F] /\ \A x \in F : \E k \in 1 .. n : fs[k] = x
  BY EachInOrder DEF OnceIn
<1>2. fs = [k \in 1 .. n |-> fs[k]]
  BY <1>1
<1>3. IsList(fs) /\ Len(fs) = n
  BY <1>2, ListOf
<1>4. ASSUME NEW i \in 1 .. n, NEW j \in 1 .. n, fs[i].fid = fs[j].fid
      PROVE  i = j
  <2>1. fs[i] \in F /\ fs[j] \in F
    BY <1>1
  <2>2. fs[i] = fs[j]
    BY <1>4, <2>1 DEF OnceIn
  <2>3. Cardinality(F) = n
    <3>1. fs \in [1 .. Cardinality(F) -> F] /\ Cardinality(F) \in Nat
      BY FS_CardinalityType DEF OnceIn, SetToSeqs
    <3>2. DOMAIN fs = 1 .. n /\ DOMAIN fs = 1 .. Cardinality(F)
      BY <1>1, <3>1
    <3>3. PICK m \in Nat : m = Cardinality(F)
      BY <3>1
    <3>4. 1 .. n = 1 .. m
      BY <3>2, <3>3
    <3>5. (n # 0 => n \in 1 .. n) /\ (m # 0 => m \in 1 .. m)
      OBVIOUS
    <3>6. n <= m /\ m <= n
      BY <3>4, <3>5
    <3> QED
      BY <3>3, <3>6
  <2>4. \A k, l \in 1 .. n : k # l => fs[k] # fs[l]
    BY <2>3 DEF SetToSeqs
  <2> QED
    BY <2>2, <2>4
<1>5. ToSet(fs) = F
  BY <1>1 DEF ToSet
<1> QED
  BY <1>2, <1>3, <1>4, <1>5 DEF Once, IsTuple

(* The fields of a list that has each once are a finite set. *)
LEMMA FieldsFinite ==
  ASSUME NEW fs, Once(fs)
  PROVE  OnceIn(ToSet(fs))
<1> PICK T : T = ToSet(fs)
  OBVIOUS
<1>1. PICK n \in Nat : n = Len(fs) /\ T = ToSet(fs)
  BY DEF Once, IsTuple, IsList
<1>2. fs = [i \in 1 .. n |-> fs[i]] /\ DOMAIN fs = 1 .. n
  BY <1>1 DEF Once, IsTuple, IsList
<1>3. T = {fs[i] : i \in 1 .. n}
  BY <1>1, <1>2 DEF ToSet
<1>4. fs \in [1 .. n -> T] /\ \A t \in T : \E i \in 1 .. n : fs[i] = t
  BY <1>2, <1>3
<1>5. fs \in Surjection(1 .. n, T)
  BY <1>4 DEF Surjection
<1>6. IsFiniteSet(1 .. n)
  BY FS_Interval
<1>7. IsFiniteSet(T)
  BY <1>5, <1>6, FS_Surjection
<1>8. \A f, g \in T : f.fid = g.fid => f = g
  BY <1>1, <1>3 DEF Once
<1> QED
  BY <1>1, <1>7, <1>8 DEF OnceIn

KeysStay(new, fs) == Len(new) = Len(fs) /\ \A k \in 1 .. Len(fs) : new[k].fid = fs[k].fid
PutIn(G, F, f) == \A g \in G : g = f \/ (g \in F /\ g.fid # f.fid)

(* One field replaced by another of its fid. *)
LEMMA Replaced ==
  ASSUME NEW fs, Once(fs), NEW i \in DOMAIN fs, NEW f, f.fid = fs[i].fid,
         NEW new, new = [fs EXCEPT ![i] = f]
  PROVE  /\ Once(new) /\ KeysStay(new, fs)
         /\ FidsIn(ToSet(new)) = FidsIn(ToSet(fs)) /\ PutIn(ToSet(new), ToSet(fs), f)
<1>1. PICK n \in Nat : n = Len(fs)
  BY DEF Once, IsTuple, IsList
<1>2. fs = [k \in 1 .. n |-> fs[k]] /\ DOMAIN fs = 1 .. n
      /\ \A k, l \in 1 .. n : fs[k].fid = fs[l].fid => k = l
  BY <1>1 DEF Once, IsTuple, IsList
<1>3. new = [k \in 1 .. n |-> IF k = i THEN f ELSE fs[k]]
  BY <1>2
<1>4. new = [k \in 1 .. n |-> new[k]] /\ DOMAIN new = 1 .. n
  BY <1>3
<1>5. IsList(new) /\ Len(new) = n
  BY <1>4, ListOf
<1>6. \A k \in 1 .. n : new[k].fid = fs[k].fid
  BY <1>2, <1>3
<1>7. Once(new)
  <2>1. \A k, l \in 1 .. n : new[k].fid = new[l].fid => k = l
    <3> TAKE k, l \in 1 .. n
    <3>1. new[k].fid = fs[k].fid /\ new[l].fid = fs[l].fid
      BY <1>6
    <3> QED
      BY <1>2, <3>1
  <2>2. new = [k \in 1 .. Len(new) |-> new[k]]
    BY <1>4, <1>5
  <2> QED
    BY <1>5, <2>1, <2>2 DEF Once, IsTuple
<1>8. ToSet(new) = {new[k] : k \in 1 .. n} /\ ToSet(fs) = {fs[k] : k \in 1 .. n}
  BY <1>2, <1>4 DEF ToSet
<1>9. FidsIn(ToSet(new)) = FidsIn(ToSet(fs))
  <2>1. \A x : x \in FidsIn(ToSet(new)) <=> \E k \in 1 .. n : x = new[k].fid
    BY <1>8 DEF FidsIn
  <2>2. \A x : x \in FidsIn(ToSet(fs)) <=> \E k \in 1 .. n : x = fs[k].fid
    BY <1>8 DEF FidsIn
  <2>3. \A x : x \in FidsIn(ToSet(new)) <=> x \in FidsIn(ToSet(fs))
    <3> TAKE x
    <3>1. ASSUME x \in FidsIn(ToSet(new)) PROVE x \in FidsIn(ToSet(fs))
      <4>1. PICK k \in 1 .. n : x = new[k].fid
        BY <2>1, <3>1
      <4> QED
        BY <1>6, <2>2, <4>1
    <3>2. ASSUME x \in FidsIn(ToSet(fs)) PROVE x \in FidsIn(ToSet(new))
      <4>1. PICK k \in 1 .. n : x = fs[k].fid
        BY <2>2, <3>2
      <4> QED
        BY <1>6, <2>1, <4>1
    <3> QED
      BY <3>1, <3>2
  <2> QED
    BY <2>3
<1>10. \A g \in ToSet(new) : g = f \/ (g \in ToSet(fs) /\ g.fid # f.fid)
  <2>1. ASSUME NEW k \in 1 .. n
        PROVE  new[k] = f \/ (new[k] \in ToSet(fs) /\ new[k].fid # f.fid)
    <3>1. CASE k = i
      BY <1>3, <3>1
    <3>2. CASE k # i
      <4>1. new[k] = fs[k] /\ fs[k].fid # fs[i].fid
        BY <1>2, <1>3, <3>2
      <4> QED
        BY <1>8, <4>1
    <3> QED
      BY <3>1, <3>2
  <2> QED
    BY <1>8, <2>1
<1> QED
  BY <1>1, <1>5, <1>6, <1>7, <1>9, <1>10 DEF KeysStay, PutIn

-----------------------------------------------------------------------------
(* A field is put into a message.                                          *)

(* The contents of the other fields, and that of the one, agree. *)
LEMMA PutAgrees ==
  ASSUME NEW F, NEW w, Matching(F, w), NEW G, NEW f, NEW c, IsStored(c),
         PutIn(G, F, f),
         FidsIn(G) = FidsIn(F) \cup {f.fid},
         f = [fid |-> f.fid, name |-> f.name, type |-> c.type, v |-> c.v],
         f.fid \in Fids, f.name \in FieldNames
  PROVE  Matching(G, With(w, f.fid, c))
<1>1. PICK u : u = With(w, f.fid, c)
  OBVIOUS
<1>2. DOMAIN u = DOMAIN w \cup {f.fid} /\ u[f.fid] = c /\ \A k \in DOMAIN w : k # f.fid => u[k] = w[k]
  BY <1>1 DEF With
<1>3. DOMAIN u = FidsIn(G)
  BY <1>2 DEF Matching, Accounted
<1>4. \A k \in DOMAIN u : IsStored(u[k])
  BY <1>2 DEF Matching, Accounted
<1>5. f.type = c.type /\ f.v = c.v
  OBVIOUS
<1>6. FieldOk(f, u)
  BY <1>2, <1>5 DEF FieldOk
<1>7. ASSUME NEW g \in G PROVE FieldOk(g, u)
  <2>1. CASE g = f
    BY <1>6, <2>1
  <2>2. CASE g \in F /\ g.fid # f.fid
    <3>1. FieldOk(g, w) /\ g.fid \in DOMAIN w
      BY <2>2 DEF Matching, AllOk, Accounted, FidsIn
    <3>2. u[g.fid] = w[g.fid]
      BY <1>2, <2>2, <3>1
    <3> QED
      BY <3>1, <3>2 DEF FieldOk
  <2> QED
    BY <2>1, <2>2 DEF PutIn
<1> QED
  BY <1>1, <1>3, <1>4, <1>7 DEF Matching, Accounted, AllOk

Silent(fs, fid, c) == c.type \in Wrapped4 /\ HasKey(fs, fid) /\ fs[At(fs, fid)].type # c.type

(* Storing a field leaves the others as they are. *)
LEMMA StoredKeeps ==
  ASSUME NEW fs, Once(fs), NEW w, Matching(ToSet(fs), w), NEW fid \in Fids,
         NEW c, IsStored(c), NEW f, NEW new \in Stored(fs, f), f.name \in FieldNames,
         f = [fid |-> fid, name |-> f.name, type |-> c.type, v |-> c.v]
  PROVE  /\ Once(new) /\ Matching(ToSet(new), With(w, fid, c))
         /\ HasKey(fs, fid) => KeysStay(new, fs)
<1>1. f.fid = fid /\ f = [fid |-> f.fid, name |-> f.name, type |-> c.type, v |-> c.v]
  OBVIOUS
<1>2. PICK F : F = ToSet(fs)
  OBVIOUS
<1>3. F = {fs[i] : i \in DOMAIN fs}
  BY <1>2 DEF ToSet
<1>4. CASE HasKey(fs, fid)
  <2>1. PICK i : i = At(fs, fid)
    OBVIOUS
  <2>2. i \in DOMAIN fs /\ fs[i].fid = fid
    BY <1>4, <2>1 DEF At, HasKey
  <2>3. new = [fs EXCEPT ![i] = f]
    BY <1>1, <1>4, <2>1 DEF Stored
  <2>4. /\ Once(new) /\ KeysStay(new, fs)
        /\ FidsIn(ToSet(new)) = FidsIn(ToSet(fs)) /\ PutIn(ToSet(new), ToSet(fs), f)
    BY <1>1, <2>2, <2>3, Replaced
  <2>5. FidsIn(F) = FidsIn(F) \cup {f.fid}
    BY <1>1, <1>3, <2>2 DEF FidsIn
  <2>6. Matching(ToSet(new), With(w, f.fid, c))
    BY <1>1, <1>2, <2>4, <2>5, PutAgrees
  <2> QED
    BY <1>1, <2>4, <2>6
<1>5. CASE ~HasKey(fs, fid)
  <2>1. new \in SetToSeqs(F \cup {f})
    BY <1>1, <1>2, <1>5 DEF Stored, Emplaced
  <2>2. OnceIn(F)
    BY <1>2, FieldsFinite
  <2>3. \A g \in F : g.fid # fid
    BY <1>3, <1>5 DEF HasKey
  <2>4. OnceIn(F \cup {f})
    <3>1. IsFiniteSet(F \cup {f})
      BY <2>2, FS_AddElement DEF OnceIn
    <3> QED
      BY <1>1, <2>2, <2>3, <3>1 DEF OnceIn
  <2>5. Once(new) /\ ToSet(new) = F \cup {f}
    BY <2>1, <2>4, Fielded
  <2>6. FidsIn(ToSet(new)) = FidsIn(F) \cup {f.fid}
    BY <2>5 DEF FidsIn
  <2>7. PutIn(ToSet(new), F, f)
    BY <1>1, <2>3, <2>5 DEF PutIn
  <2>8. Matching(ToSet(new), With(w, f.fid, c))
    BY <1>1, <1>2, <2>6, <2>7, PutAgrees
  <2> QED
    BY <1>1, <1>5, <2>5, <2>8
<1> QED
  BY <1>4, <1>5

(* A field is put in, or, over one of another kind, silently left out. *)
LEMMA PutKeeps ==
  ASSUME NEW fs, Once(fs), NEW w, Matching(ToSet(fs), w), NEW fid \in Fids,
         NEW name \in Names \cup {NoName}, NEW c, IsStored(c),
         NEW new \in Put(fs, Field(fid, name, c)),
         NEW w2, w2 = IF Silent(fs, fid, c) THEN w ELSE With(w, fid, c)
  PROVE  /\ Once(new) /\ Matching(ToSet(new), w2)
         /\ HasKey(fs, fid) => KeysStay(new, fs)
<1>1. PICK f : f = Field(fid, name, c)
  OBVIOUS
<1>2. f = [fid |-> fid, name |-> StoredName(name), type |-> c.type, v |-> c.v]
  BY <1>1 DEF Field
<1>3. f.fid = fid /\ f.type = c.type /\ f.name = StoredName(name)
      /\ f = [fid |-> fid, name |-> f.name, type |-> c.type, v |-> c.v]
  BY <1>2
<1>4. f.name \in FieldNames
  BY <1>3 DEF StoredName, FieldNames
<1>5. CASE Silent(fs, fid, c)
  <2>1. new = fs
    BY <1>1, <1>3, <1>5 DEF Silent, Put, StoredIfSame
  <2> QED
    BY <1>5, <2>1 DEF KeysStay
<1>6. CASE ~Silent(fs, fid, c)
  <2>1. new \in Stored(fs, f)
    BY <1>1, <1>3, <1>6 DEF Silent, Put, StoredIfSame
  <2> QED
    BY <1>3, <1>4, <1>6, <2>1, StoredKeeps
<1> QED
  BY <1>5, <1>6

-----------------------------------------------------------------------------
(* A message is merged into another.                                       *)

(* A message merged with another holds what either was given, the other first. *)
LEMMA MergeAgrees ==
  ASSUME NEW F, NEW w, Matching(F, w), NEW src, NEW l, Matching(src, l), NEW G,
         \A g \in G : g \in src \/ (g \in F /\ g.fid \notin FidsIn(src)),
         FidsIn(G) = FidsIn(F) \cup FidsIn(src)
  PROVE  Matching(G, WithAll(w, l))
<1>1. PICK u : u = WithAll(w, l)
  OBVIOUS
<1>2. /\ DOMAIN u = DOMAIN w \cup DOMAIN l
      /\ \A k \in DOMAIN l : u[k] = l[k]
      /\ \A k \in DOMAIN w : k \notin DOMAIN l => u[k] = w[k]
  BY <1>1 DEF WithAll
<1>3. DOMAIN u = FidsIn(G) /\ \A k \in DOMAIN u : IsStored(u[k])
  BY <1>2 DEF Matching, Accounted
<1>4. ASSUME NEW g \in G PROVE FieldOk(g, u)
  <2>1. CASE g \in src
    <3>1. FieldOk(g, l) /\ g.fid \in DOMAIN l
      BY <2>1 DEF Matching, AllOk, Accounted, FidsIn
    <3>2. u[g.fid] = l[g.fid]
      BY <1>2, <3>1
    <3> QED
      BY <3>1, <3>2 DEF FieldOk
  <2>2. CASE g \in F /\ g.fid \notin FidsIn(src)
    <3>1. FieldOk(g, w) /\ g.fid \in DOMAIN w /\ g.fid \notin DOMAIN l
      BY <2>2 DEF Matching, AllOk, Accounted, FidsIn
    <3>2. u[g.fid] = w[g.fid]
      BY <1>2, <3>1
    <3> QED
      BY <3>1, <3>2 DEF FieldOk
  <2> QED
    BY <2>1, <2>2
<1> QED
  BY <1>1, <1>3, <1>4 DEF Matching, Accounted, AllOk

(* Merging leaves every fid once, whatever order the map takes. *)
LEMMA MergeKeeps ==
  ASSUME NEW fs, Once(fs), NEW w, Matching(ToSet(fs), w), NEW src, OnceIn(src), NEW l, Matching(src, l),
         NEW new \in Merged(fs, src)
  PROVE  /\ Once(new) /\ Matching(ToSet(new), WithAll(w, l))
         /\ (\A g \in src : HasKey(fs, g.fid)) => KeysStay(new, fs)
<1> PICK F : F = ToSet(fs)
  OBVIOUS
<1>1. PICK n \in Nat : n = Len(fs) /\ F = ToSet(fs)
  BY DEF Once, IsTuple, IsList
<1>2. fs = [k \in 1 .. n |-> fs[k]] /\ DOMAIN fs = 1 .. n
      /\ \A i, j \in 1 .. n : fs[i].fid = fs[j].fid => i = j
  BY <1>1 DEF Once, IsTuple, IsList
<1>3. F = {fs[k] : k \in 1 .. n}
  BY <1>1, <1>2 DEF ToSet
<1>4. CASE \A g \in src : HasKey(fs, g.fid)
  <2>1. new = [i \in 1 .. n |-> IF \E g \in src : g.fid = fs[i].fid
                                 THEN CHOOSE g \in src : g.fid = fs[i].fid ELSE fs[i]]
    BY <1>2, <1>4 DEF Merged
  <2>2. new = [i \in 1 .. n |-> new[i]] /\ DOMAIN new = 1 .. n
    BY <2>1
  <2>3. IsList(new) /\ Len(new) = n
    BY <2>2, ListOf
  <2>4. ASSUME NEW i \in 1 .. n
        PROVE  new[i].fid = fs[i].fid /\ (new[i] \in src \/ (new[i] = fs[i] /\ fs[i].fid \notin FidsIn(src)))
    <3>1. CASE \E g \in src : g.fid = fs[i].fid
      <4>1. new[i] = CHOOSE g \in src : g.fid = fs[i].fid
        BY <2>1, <3>1
      <4> QED
        BY <3>1, <4>1
    <3>2. CASE ~\E g \in src : g.fid = fs[i].fid
      <4>1. new[i] = fs[i]
        BY <2>1, <3>2
      <4> QED
        BY <3>2, <4>1 DEF FidsIn
    <3> QED
      BY <3>1, <3>2
  <2>5. \A i, j \in 1 .. n : new[i].fid = new[j].fid => i = j
    <3> TAKE i, j \in 1 .. n
    <3>1. new[i].fid = fs[i].fid /\ new[j].fid = fs[j].fid
      BY <2>4
    <3> QED
      BY <1>2, <3>1
  <2>6. Once(new)
    <3>1. new = [k \in 1 .. Len(new) |-> new[k]]
      BY <2>2, <2>3
    <3> QED
      BY <2>3, <2>5, <3>1 DEF Once, IsTuple
  <2>7. KeysStay(new, fs)
    BY <1>1, <2>3, <2>4 DEF KeysStay
  <2>8. ToSet(new) = {new[k] : k \in 1 .. n}
    BY <2>2 DEF ToSet
  <2>9. \A g \in ToSet(new) : g \in src \/ (g \in F /\ g.fid \notin FidsIn(src))
    BY <1>3, <2>4, <2>8
  <2>10. \A x : x \in FidsIn(ToSet(new)) <=> \E i \in 1 .. n : x = new[i].fid
    BY <2>8 DEF FidsIn
  <2>11. \A x : x \in FidsIn(F) <=> \E i \in 1 .. n : x = fs[i].fid
    BY <1>3 DEF FidsIn
  <2>12. FidsIn(src) \subseteq FidsIn(F)
    <3> SUFFICES ASSUME NEW g \in src PROVE g.fid \in FidsIn(F)
      BY DEF FidsIn
    <3>1. PICK i \in 1 .. n : fs[i].fid = g.fid
      BY <1>2, <1>4 DEF HasKey
    <3> QED
      BY <2>11, <3>1
  <2>13. FidsIn(ToSet(new)) = FidsIn(F)
    <3>1. ASSUME NEW x, x \in FidsIn(ToSet(new)) PROVE x \in FidsIn(F)
      <4>1. PICK i \in 1 .. n : x = new[i].fid
        BY <2>10, <3>1
      <4> QED
        BY <2>4, <2>11, <4>1
    <3>2. ASSUME NEW x, x \in FidsIn(F) PROVE x \in FidsIn(ToSet(new))
      <4>1. PICK i \in 1 .. n : x = fs[i].fid
        BY <2>11, <3>2
      <4> QED
        BY <2>4, <2>10, <4>1
    <3> QED
      BY <3>1, <3>2
  <2>14. FidsIn(ToSet(new)) = FidsIn(F) \cup FidsIn(src)
    BY <2>12, <2>13
  <2>15. Matching(ToSet(new), WithAll(w, l))
    BY <1>1, <2>9, <2>14, MergeAgrees
  <2> QED
    BY <2>6, <2>7, <2>15
<1>5. CASE ~\A g \in src : HasKey(fs, g.fid)
  <2>1. PICK K : K = Kept(fs, src)
    OBVIOUS
  <2>2. new \in SetToSeqs(K \cup src)
    BY <1>5, <2>1 DEF Merged
  <2>3. K \subseteq F /\ \A g \in F : g \in K <=> g.fid \notin FidsIn(src)
    BY <1>1, <2>1 DEF Kept, FidsIn
  <2>4. OnceIn(F)
    BY <1>1, FieldsFinite
  <2>5. OnceIn(K \cup src)
    <3>1. IsFiniteSet(K)
      BY <2>3, <2>4, FS_Subset DEF OnceIn
    <3>2. IsFiniteSet(K \cup src)
      BY <3>1, FS_Union DEF OnceIn
    <3>3. \A f, g \in K \cup src : f.fid = g.fid => f = g
      <4>1. \A g \in src : g.fid \in FidsIn(src)
        BY DEF FidsIn
      <4> QED
        BY <2>3, <2>4, <4>1 DEF OnceIn
    <3> QED
      BY <3>2, <3>3 DEF OnceIn
  <2>6. Once(new) /\ ToSet(new) = K \cup src
    BY <2>2, <2>5, Fielded
  <2>7. FidsIn(ToSet(new)) = FidsIn(F) \cup FidsIn(src)
    BY <2>3, <2>6 DEF FidsIn
  <2>8. \A g \in ToSet(new) : g \in src \/ (g \in F /\ g.fid \notin FidsIn(src))
    BY <2>3, <2>6
  <2>9. Matching(ToSet(new), WithAll(w, l))
    BY <1>1, <2>7, <2>8, MergeAgrees
  <2> QED
    BY <1>5, <2>6, <2>9
<1> QED
  BY <1>4, <1>5

-----------------------------------------------------------------------------
(* The steps.                                                              *)

(* Only vectors of numbers change their form when they are stored. *)
LEMMA AsStoredOk ==
  ASSUME NEW c \in Contents
  PROVE  IsStored(AsStored(c)) /\ (c.type # "VECTOR_I8" => AsStored(c) = c)
<1>1. IsContent(c)
  BY PayloadAssumption
<1>2. CASE c.type = "VECTOR_I8"
  <2>1. PICK d : d = AsStored(c)
    OBVIOUS
  <2>2. d = [type |-> "I8", v |-> <<0>>] /\ d.type = "I8" /\ d.v = <<0>>
    BY <1>2, <2>1 DEF AsStored, Content
  <2>3. 0 \in Lowest("I8") .. Highest("I8") /\ <<0>> = <<2 * 0>>
    <3>1. Span("I8") = Spans[8] /\ ~Unsigned("I8")
      BY DEF Span, Unsigned
    <3>2. PICK n : n = Spans[8]
      OBVIOUS
    <3>3. n \in Nat \ {0} /\ n % 2 = 0
      BY <3>2, ValuesAssumption
    <3>4. Lowest("I8") = -(n \div 2) /\ Highest("I8") = -(n \div 2) + n - 1
      BY <3>1, <3>2 DEF Lowest, Highest
    <3>5. n \div 2 \in Nat /\ n \div 2 < n
      BY <3>3
    <3> QED
      BY <3>3, <3>4, <3>5
  <2>4. IsContent(d)
    <3>1. d = Content(d.type, d.v) /\ d.type \in Kinds
      BY <2>2 DEF Content, Kinds, Numeric, Ints
    <3>2. \E n \in Lowest(d.type) .. Highest(d.type) : d.v = <<2 * n>>
      BY <2>2, <2>3
    <3>3. d.type \notin Floats \cup {"PRICE"} /\ d.type # "BOOL"
      BY <2>2 DEF Floats
    <3> QED
      BY <3>1, <3>2, <3>3 DEF IsContent
  <2> QED
    BY <1>2, <2>1, <2>2, <2>4 DEF IsStored
<1>3. CASE c.type # "VECTOR_I8"
  BY <1>1, <1>3 DEF AsStored, IsStored
<1> QED
  BY <1>2, <1>3

Writes == \/ AddScalar \/ AddObject \/ AddNumberVector \/ AddObjectVector
          \/ UpdateScalar \/ UpdateObject \/ UpdateNumberVector \/ UpdateObjectVector

(* A field is written under its own name or none. *)
LEMMA NameGiven ==
  ASSUME NEW fid \in Fids, NEW name \in IF fid = 0 THEN Names ELSE {NameOf[fid]}
  PROVE  name \in Names \cup {NoName}
BY PayloadAssumption

(* Each way to write is a write of some stored content. *)
LEMMA WritesWrite ==
  ASSUME Writes
  PROVE  \E fid \in Fids, name \in Names \cup {NoName}, c \in {AsStored(d) : d \in Contents} :
           Write(fid, name, c)
<1>1. CASE AddNumberVector \/ UpdateNumberVector
  <2>1. PICK c \in Contents, fid \in Fids :
          \E name \in IF fid = 0 THEN Names ELSE {NameOf[fid]} : Write(fid, name, AsStored(c))
    BY <1>1 DEF AddNumberVector, UpdateNumberVector, Choice, WriteNumbers
  <2>2. PICK name \in IF fid = 0 THEN Names ELSE {NameOf[fid]} : Write(fid, name, AsStored(c))
    BY <2>1
  <2> QED
    BY <2>2, NameGiven
<1>2. CASE \/ AddScalar \/ AddObject \/ AddObjectVector
           \/ UpdateScalar \/ UpdateObject \/ UpdateObjectVector
  <2>1. PICK c \in Contents, fid \in Fids :
          /\ c.type \in Scalars \cup Objects \cup ObjectVectors
          /\ \E name \in IF fid = 0 THEN Names ELSE {NameOf[fid]} : Write(fid, name, c)
    BY <1>2 DEF AddScalar, AddObject, AddObjectVector, UpdateScalar, UpdateObject,
                UpdateObjectVector, Choice
  <2>2. PICK name \in IF fid = 0 THEN Names ELSE {NameOf[fid]} : Write(fid, name, c)
    BY <2>1
  <2>3. c.type # "VECTOR_I8"
    BY <2>1 DEF Scalars, Objects, ObjectVectors, Ints, Floats
  <2>4. AsStored(c) = c
    BY <2>3, AsStoredOk
  <2> QED
    BY <2>2, <2>4, NameGiven
<1> QED
  BY <1>1, <1>2 DEF Writes

(* Without an iterator there is no walk to speak of. *)
LEMMA WalkGone ==
  ASSUME iter' = NoIter
  PROVE  WalkInv'
BY DEF WalkInv, NoIter, Iterators

(* A change that moves no field leaves a walk where it is. *)
LEMMA WalkStays ==
  ASSUME Once(payload), WalkInv, KeysStay(payload', payload), UNCHANGED <<iter, visited>>
  PROVE  WalkInv'
<1>1. Len(payload) \in Nat /\ Len(payload') = Len(payload)
      /\ \A k \in 1 .. Len(payload) : payload'[k].fid = payload[k].fid
  BY DEF Once, IsTuple, IsList, KeysStay
<1>2. ASSUME Straight PROVE Straight'
  <2>1. PICK m : m = Passed
    OBVIOUS
  <2>2. Passed' = m
    BY <1>1, <2>1 DEF Passed
  <2>3. iter \in Iterators /\ iter.pos \in Nat
    BY DEF WalkInv, Iterators
  <2>4. m \in Nat /\ m <= Len(payload)
    BY <1>1, <2>1, <2>3 DEF Passed
  <2>5. \A k \in 1 .. m : visited[k] = payload[k].fid
    BY <1>2, <2>1 DEF Straight
  <2>6. \A k \in 1 .. m : visited'[k] = payload'[k].fid
    BY <1>1, <2>4, <2>5
  <2>7. visited' \in Seq(Fids) /\ Len(visited') = m
    BY <1>2, <2>1 DEF Straight
  <2> QED
    BY <1>1, <1>2, <2>2, <2>6, <2>7 DEF Straight
<1> QED
  BY <1>1, <1>2 DEF WalkInv

(* A write keeps message and walk. *)
LEMMA WriteKeeps == PayloadInv /\ Writes => PayloadInv'
<1> SUFFICES ASSUME PayloadInv, Writes PROVE PayloadInv'
  OBVIOUS
<1>1. PICK fid \in Fids, name \in Names \cup {NoName}, c \in {AsStored(d) : d \in Contents} :
        Write(fid, name, c)
  BY WritesWrite
<1>2. IsStored(c)
  BY AsStoredOk
<1>3. Once(payload) /\ Matching(ToSet(payload), written) /\ SpareInv /\ WalkInv
  BY DEF PayloadInv, MessageInv
<1>4. PICK fs, w, new : fs = payload /\ w = written /\ new = payload'
  OBVIOUS
<1>5. /\ new \in Put(fs, Field(fid, name, c)) /\ written' = Accept(fid, c)
      /\ UNCHANGED <<spare, lent>>
      /\ HasKey(fs, fid) => UNCHANGED <<iter, visited>>
      /\ ~HasKey(fs, fid) => iter' = NoIter
  BY <1>1, <1>4 DEF Write
<1>6. PICK w2 : w2 = IF Silent(fs, fid, c) THEN w ELSE With(w, fid, c)
  OBVIOUS
<1>7. written' = w2
  BY <1>4, <1>5, <1>6 DEF Accept, Silent
<1>8. /\ Once(new) /\ Matching(ToSet(new), w2)
      /\ HasKey(fs, fid) => KeysStay(new, fs)
  BY <1>2, <1>3, <1>4, <1>5, <1>6, PutKeeps
<1>9. MessageInv'
  BY <1>4, <1>7, <1>8 DEF MessageInv
<1>10. SpareInv'
  BY <1>3, <1>5 DEF SpareInv
<1>11. WalkInv'
  <2>1. CASE HasKey(fs, fid)
    BY <1>3, <1>4, <1>5, <1>8, <2>1, WalkStays
  <2>2. CASE ~HasKey(fs, fid)
    BY <1>5, <2>2, WalkGone
  <2> QED
    BY <2>1, <2>2
<1> QED
  BY <1>9, <1>10, <1>11 DEF PayloadInv

(* Writing through a field keeps message and walk. *)
LEMMA FieldKeeps == PayloadInv /\ UpdateField => PayloadInv'
<1> SUFFICES ASSUME PayloadInv, UpdateField PROVE PayloadInv'
  OBVIOUS
<1>1. PICK i \in DOMAIN payload, c \in Contents :
        /\ c.type \in (Scalars \cup Objects) \ {"MSG", "OPAQUE"}
        /\ payload' = [payload EXCEPT ![i].type = c.type, ![i].v = c.v]
        /\ written' = With(written, payload[i].fid, c)
        /\ UNCHANGED <<spare, lent, iter, visited>>
  BY DEF UpdateField
<1>2. c.type # "VECTOR_I8"
  BY <1>1 DEF Scalars, Objects, Ints, Floats
<1>3. IsStored(c)
  BY <1>2, AsStoredOk
<1>4. PICK fs, w, new, old, f : /\ fs = payload /\ w = written /\ new = payload' /\ old = fs[i]
                                /\ f = [fid |-> old.fid, name |-> old.name, type |-> c.type, v |-> c.v]
  OBVIOUS
<1>5. Once(fs) /\ Matching(ToSet(fs), w) /\ SpareInv /\ WalkInv /\ i \in DOMAIN fs
  BY <1>4 DEF PayloadInv, MessageInv
<1>6. old \in ToSet(fs)
  BY <1>4, <1>5 DEF ToSet
<1>7. /\ old = [fid |-> old.fid, name |-> old.name, type |-> old.type, v |-> old.v]
      /\ old.fid \in Fids /\ old.name \in FieldNames
  BY <1>5, <1>6 DEF Matching, AllOk, FieldOk
<1>8. f.fid = old.fid /\ f.name = old.name
      /\ f = [fid |-> f.fid, name |-> f.name, type |-> c.type, v |-> c.v]
  BY <1>4
<1>9. new = [fs EXCEPT ![i] = f]
  <2>1. PICK n \in Nat : n = Len(fs) /\ DOMAIN fs = 1 .. n /\ fs = [k \in 1 .. n |-> fs[k]]
    BY <1>5 DEF Once, IsTuple, IsList
  <2>2. new = [k \in 1 .. n |-> IF k = i THEN [[old EXCEPT !.type = c.type] EXCEPT !.v = c.v] ELSE fs[k]]
    BY <1>1, <1>4, <2>1
  <2>3. PICK a, b, t, u : old = [fid |-> a, name |-> b, type |-> t, v |-> u] /\ a = old.fid /\ b = old.name
    BY <1>7
  <2>4. PICK half : half = [old EXCEPT !.type = c.type]
    OBVIOUS
  <2>5. half = [fid |-> a, name |-> b, type |-> c.type, v |-> u]
    BY <2>3, <2>4
  <2>6. [half EXCEPT !.v = c.v] = [fid |-> a, name |-> b, type |-> c.type, v |-> c.v]
    BY <2>5
  <2>7. [[old EXCEPT !.type = c.type] EXCEPT !.v = c.v] = f
    BY <1>4, <2>3, <2>4, <2>6
  <2> QED
    BY <2>1, <2>2, <2>7
<1>10. /\ Once(new) /\ KeysStay(new, fs)
       /\ FidsIn(ToSet(new)) = FidsIn(ToSet(fs)) /\ PutIn(ToSet(new), ToSet(fs), f)
  <2>1. i \in DOMAIN fs /\ f.fid = fs[i].fid
    BY <1>4, <1>5, <1>8
  <2> QED
    BY <1>5, <1>9, <2>1, Replaced
<1>11. FidsIn(ToSet(new)) = FidsIn(ToSet(fs)) \cup {f.fid}
  BY <1>6, <1>8, <1>10 DEF FidsIn
<1>12. Matching(ToSet(new), With(w, f.fid, c))
  BY <1>3, <1>5, <1>7, <1>8, <1>10, <1>11, PutAgrees
<1>13. MessageInv'
  BY <1>1, <1>4, <1>8, <1>10, <1>12 DEF MessageInv
<1>14. SpareInv'
  BY <1>1, <1>5 DEF SpareInv
<1>15. WalkInv'
  BY <1>1, <1>4, <1>5, <1>10, WalkStays
<1> QED
  BY <1>13, <1>14, <1>15 DEF PayloadInv

(* An empty message holds what was never put in. *)
LEMMA NoFields ==
  ASSUME NEW w, DOMAIN w = {}
  PROVE  Once(<< >>) /\ Matching({}, w) /\ OnceIn({}) /\ ToSet(<< >>) = {} /\ DOMAIN << >> = {}
<1>1. << >> = [i \in 1 .. 0 |-> << >>[i]] /\ Len(<< >>) = 0
  OBVIOUS
<1>2. IsList(<< >>)
  BY <1>1, ListOf
<1>3. DOMAIN << >> = {}
  BY <1>1
<1> QED
  BY <1>1, <1>2, <1>3, FS_EmptySet DEF Once, IsTuple, Matching, Accounted, AllOk, OnceIn, ToSet, FidsIn

(* Replacing the whole message ends the walk. *)
LEMMA WholeKeeps == PayloadInv /\ (Clear \/ CopyOut \/ CopyIn \/ Apply) => PayloadInv'
<1> SUFFICES ASSUME PayloadInv, Clear \/ CopyOut \/ CopyIn \/ Apply PROVE PayloadInv'
  OBVIOUS
<1>1. Once(payload) /\ Matching(ToSet(payload), written) /\ OnceIn(spare) /\ Matching(spare, lent)
      /\ MessageInv /\ SpareInv /\ WalkInv
  BY DEF PayloadInv, MessageInv, SpareInv
<1>2. CASE Clear
  <2>1. payload' = << >> /\ written' = << >> /\ iter' = NoIter /\ UNCHANGED <<spare, lent>>
    BY <1>2 DEF Clear
  <2>2. PICK e : e = << >>
    OBVIOUS
  <2>3. DOMAIN e = {}
    <3>1. e = [i \in 1 .. 0 |-> e[i]]
      BY <2>2
    <3> QED
      BY <3>1
  <2>4. Once(e) /\ Matching(ToSet(e), e)
    BY <2>2, <2>3, NoFields
  <2>5. MessageInv'
    BY <2>1, <2>2, <2>4 DEF MessageInv
  <2> QED
    BY <1>1, <2>1, <2>5, WalkGone DEF PayloadInv, SpareInv
<1>3. CASE CopyOut
  <2>1. spare' = ToSet(payload) /\ lent' = written /\ UNCHANGED <<payload, iter, visited, written>>
    BY <1>3 DEF CopyOut
  <2>2. SpareInv'
    BY <1>1, <2>1, FieldsFinite DEF SpareInv
  <2>3. MessageInv' /\ WalkInv'
    BY <1>1, <2>1 DEF MessageInv, WalkInv, Straight, Passed
  <2> QED
    BY <2>2, <2>3 DEF PayloadInv
<1>4. CASE CopyIn
  <2>1. payload' \in SetToSeqs(spare) /\ written' = lent /\ iter' = NoIter /\ UNCHANGED <<spare, lent>>
    BY <1>4 DEF CopyIn
  <2>2. Once(payload') /\ ToSet(payload') = spare
    BY <1>1, <2>1, Fielded
  <2>3. MessageInv'
    BY <1>1, <2>1, <2>2 DEF MessageInv
  <2> QED
    BY <1>1, <2>1, <2>3, WalkGone DEF PayloadInv, SpareInv
<1>5. CASE Apply
  <2>1. /\ payload' \in Merged(payload, spare) /\ written' = WithAll(written, lent)
        /\ UNCHANGED <<spare, lent>>
        /\ (\A g \in spare : HasKey(payload, g.fid)) => UNCHANGED <<iter, visited>>
        /\ ~(\A g \in spare : HasKey(payload, g.fid)) => iter' = NoIter
    BY <1>5 DEF Apply
  <2>2. /\ Once(payload') /\ Matching(ToSet(payload'), WithAll(written, lent))
        /\ (\A g \in spare : HasKey(payload, g.fid)) => KeysStay(payload', payload)
    BY <1>1, <2>1, MergeKeeps
  <2>3. MessageInv'
    BY <2>1, <2>2 DEF MessageInv
  <2>4. WalkInv'
    <3>1. CASE \A g \in spare : HasKey(payload, g.fid)
      BY <1>1, <2>1, <2>2, <3>1, WalkStays
    <3>2. CASE ~\A g \in spare : HasKey(payload, g.fid)
      BY <2>1, <3>2, WalkGone
    <3> QED
      BY <3>1, <3>2
  <2> QED
    BY <1>1, <2>1, <2>3, <2>4 DEF PayloadInv, SpareInv
<1> QED
  BY <1>2, <1>3, <1>4, <1>5


(* Fields have fids of the instance. *)
LEMMA Keyed ==
  ASSUME Matching(ToSet(payload), written), Once(payload), NEW k \in 1 .. Len(payload)
  PROVE  payload[k].fid \in Fids
<1>1. payload[k] \in ToSet(payload)
  BY DEF Once, IsTuple, IsList, ToSet
<1> QED
  BY <1>1 DEF Matching, AllOk, FieldOk

(* One step of a walk adds the next field to those visited. *)
LEMMA NextKeeps == PayloadInv /\ IterNext => WalkInv'
<1> SUFFICES ASSUME PayloadInv, IterNext PROVE WalkInv'
  OBVIOUS
<1>1. /\ iter # NoIter /\ ~iter.ended
      /\ iter' = [iter EXCEPT !.pos = NextAt,
                              !.front = iter.front /\ AtEnd,
                              !.ended = Returned = << >>]
      /\ visited' = visited \o Returned /\ payload' = payload
  BY DEF IterNext
<1>0. PICK n \in Nat : n = Len(payload)
  BY DEF PayloadInv, MessageInv, Once, IsTuple, IsList
<1>2. PICK p \in 1 .. n + 1, front \in BOOLEAN, rewound \in BOOLEAN, ended \in BOOLEAN :
        /\ n = Len(payload)
        /\ iter = [pos |-> p, front |-> front, rewound |-> rewound, ended |-> ended]
  <2>2. iter \in Iterators /\ iter.pos \in 1 .. Len(payload) + 1
    BY <1>1 DEF PayloadInv, WalkInv
  <2>3. iter = [pos |-> iter.pos, front |-> iter.front, rewound |-> iter.rewound, ended |-> iter.ended]
        /\ iter.front \in BOOLEAN /\ iter.rewound \in BOOLEAN /\ iter.ended \in BOOLEAN
    BY <2>2 DEF Iterators
  <2> QED
    BY <1>0, <2>2, <2>3
<1>3. iter.pos = p /\ iter.front = front /\ iter.rewound = rewound /\ iter.ended = ended /\ ~ended
  BY <1>1, <1>2
<1> PICK q, got : q = NextAt /\ got = Returned
  OBVIOUS
<1>4. PICK over \in BOOLEAN : q = NextAt /\ got = Returned /\ over = (Returned = << >>)
  OBVIOUS
<1>5. PICK atEnd \in BOOLEAN : atEnd = IF p > n THEN TRUE ELSE FALSE
  OBVIOUS
<1>6. AtEnd = atEnd
  <2>1. AtEnd <=> atEnd
    BY <1>2, <1>3, <1>5 DEF AtEnd
  <2>2. AtEnd \in BOOLEAN
    BY DEF AtEnd
  <2> QED
    BY <2>1, <2>2, <1>5
<1>7. q = IF p > n \/ front THEN p ELSE p + 1
  BY <1>3, <1>4, <1>5, <1>6 DEF NextAt
<1>8. q \in 1 .. n + 1
  BY <1>7
<1>9. PICK front2 \in BOOLEAN : front2 = (front /\ atEnd) /\ (front2 <=> front /\ atEnd)
  <2>1. (front /\ atEnd) \in BOOLEAN
    OBVIOUS
  <2> QED
    BY <2>1, Zenon
<1>10. iter' = [pos |-> q, front |-> front2, rewound |-> rewound, ended |-> over]
  <2>1. iter' = [iter EXCEPT !.pos = q, !.front = front2, !.ended = over]
    BY <1>1, <1>3, <1>4, <1>6, <1>9, Zenon
  <2> QED
    BY <1>2, <2>1
<1>11. iter'.pos = q /\ iter'.front = front2 /\ iter'.rewound = rewound /\ iter'.ended = over
       /\ iter' \in Iterators
  BY <1>2, <1>8, <1>10 DEF Iterators
<1>12. ASSUME ~rewound PROVE Straight'
  <2>1. Straight
    BY <1>1, <1>3, <1>12 DEF PayloadInv, WalkInv
  <2>2. \A k \in 1 .. n : payload[k].fid \in Fids
    BY <1>2, Keyed DEF PayloadInv, MessageInv
  <2>3. PICK keys : keys = [k \in 1 .. n |-> payload[k].fid]
    OBVIOUS
  <2>4. keys \in [1 .. n -> Fids]
    BY <2>2, <2>3
  <2>5. PICK m : m = Passed
    OBVIOUS
  <2>6. m = IF front THEN 0 ELSE IF p <= n THEN p ELSE n
    BY <1>2, <1>3, <2>5 DEF Passed
  <2>7. visited \in Seq(Fids) /\ Len(visited) = m /\ \A k \in 1 .. m : visited[k] = keys[k]
    <3>1. visited \in Seq(Fids) /\ Len(visited) = m /\ \A k \in 1 .. m : visited[k] = payload[k].fid
      BY <2>1, <2>5 DEF Straight
    <3>2. m \in Nat /\ m <= n
      BY <2>6
    <3> QED
      BY <2>3, <3>1, <3>2
  <2>8. (front => p = 1) /\ (~front => n > 0 /\ p # n + 1)
    BY <1>2, <1>3, <2>1 DEF Straight
  <2>9. got = IF p > n THEN << >> ELSE IF front THEN <<keys[1]>>
              ELSE IF q <= n THEN <<keys[q]>> ELSE << >>
    <3>1. got = IF p > n THEN << >> ELSE IF front THEN <<payload[1].fid>>
                ELSE IF q <= n THEN <<payload[q].fid>> ELSE << >>
      BY <1>2, <1>3, <1>4, <1>5, <1>6 DEF Returned
    <3>2. (n > 0 => keys[1] = payload[1].fid) /\ (q <= n => keys[q] = payload[q].fid)
      BY <1>8, <2>3
    <3> QED
      BY <3>1, <3>2
  <2>10. PICK m2 : m2 = IF front2 THEN 0 ELSE IF q <= n THEN q ELSE n
    OBVIOUS
  <2>11. visited \o got \in Seq(Fids) /\ Len(visited \o got) = m2
         /\ (\A k \in 1 .. m2 : (visited \o got)[k] = keys[k])
         /\ (front2 => q = 1 /\ (over => n = 0))
         /\ (~front2 => n > 0 /\ (over <=> q = n + 1))
    <3>1. CASE front /\ n = 0
      <4>0. p = 1 /\ p > n /\ atEnd /\ front2
        BY <1>5, <1>9, <2>8, <3>1
      <4>1. got = << >> /\ m2 = 0 /\ m = 0 /\ q = 1 /\ front2
        BY <4>0, <1>5, <1>7, <1>9, <2>6, <2>8, <2>9, <2>10, <3>1
      <4> QED
        BY <2>7, <3>1, <4>1
    <3>2. CASE front /\ n > 0
      <4>0. p = 1 /\ ~(p > n) /\ ~atEnd /\ ~front2
        BY <1>5, <1>9, <2>8, <3>2
      <4>1. got = <<keys[1]>> /\ m2 = 1 /\ m = 0 /\ q = 1 /\ ~front2
        BY <4>0, <1>5, <1>7, <1>9, <2>6, <2>8, <2>9, <2>10, <3>2
      <4>2. PICK x \in Fids : x = keys[1]
        BY <2>4, <3>2
      <4>3. visited \o <<x>> \in Seq(Fids) /\ Len(visited \o <<x>>) = 1 /\ (visited \o <<x>>)[1] = x
        BY <2>7, <4>1, <4>2
      <4>4. ~over
        BY <1>4, <4>1
      <4> QED
        BY <3>2, <4>1, <4>2, <4>3, <4>4
    <3>3. CASE ~front /\ p < n
      <4>1. got = <<keys[p + 1]>> /\ m2 = p + 1 /\ m = p /\ q = p + 1 /\ ~front2 /\ p + 1 \in 1 .. n
        BY <1>5, <1>7, <1>9, <2>6, <2>8, <2>9, <2>10, <3>3
      <4>2. PICK x \in Fids : x = keys[p + 1]
        BY <2>4, <4>1
      <4>3. visited \o <<x>> \in Seq(Fids) /\ Len(visited \o <<x>>) = p + 1 /\ (visited \o <<x>>)[p + 1] = x
            /\ \A k \in 1 .. p : (visited \o <<x>>)[k] = visited[k]
        BY <2>7, <4>1, <4>2
      <4>4. ~over
        BY <1>4, <4>1
      <4>5. \A k \in 1 .. p + 1 : k = p + 1 \/ k \in 1 .. p
        OBVIOUS
      <4>6. \A k \in 1 .. p + 1 : (visited \o <<x>>)[k] = keys[k]
        BY <2>7, <4>1, <4>2, <4>3, <4>5
      <4> QED
        BY <3>3, <4>1, <4>2, <4>3, <4>4, <4>6
    <3>4. CASE ~front /\ ~(p < n)
      <4>1. p = n /\ n > 0
        BY <2>8, <3>4
      <4>2. got = << >> /\ m2 = n /\ m = n /\ q = n + 1 /\ ~front2
        BY <1>5, <1>7, <1>9, <2>6, <2>8, <2>9, <2>10, <3>4, <4>1
      <4>3. over
        BY <1>4, <4>2
      <4> QED
        BY <2>7, <4>1, <4>2, <4>3
    <3> QED
      BY <3>1, <3>2, <3>3, <3>4
  <2>12. visited' = visited \o got
    BY <1>1, <1>4
  <2>13. Passed' = m2 /\ Len(payload') = n
    BY <1>1, <1>2, <1>11, <2>10 DEF Passed
  <2>14. m2 \in Nat /\ m2 <= n
    BY <1>8, <2>10
  <2>15. \A k \in 1 .. m2 : visited'[k] = payload'[k].fid
    <3>1. ASSUME NEW k \in 1 .. m2 PROVE visited'[k] = payload[k].fid
      <4>1. k \in 1 .. n
        BY <2>14
      <4>2. visited'[k] = keys[k]
        BY <2>11, <2>12
      <4> QED
        BY <2>3, <4>1, <4>2
    <3> QED
      BY <1>1, <3>1
  <2>16. (iter'.front => iter'.pos = 1 /\ (iter'.ended => Len(payload') = 0))
         /\ (~iter'.front => Len(payload') > 0 /\ (iter'.ended <=> iter'.pos = Len(payload') + 1))
    BY <1>11, <2>11, <2>13
  <2>17. visited' \in Seq(Fids) /\ Len(visited') = Passed'
    BY <2>11, <2>12, <2>13
  <2> QED
    BY <2>13, <2>15, <2>16, <2>17 DEF Straight
<1>13. Len(payload') = n
  BY <1>1, <1>2
<1> QED
  BY <1>8, <1>11, <1>12, <1>13 DEF WalkInv

(* Every operation of the iterator keeps the walk. *)
LEMMA WalkKeeps == PayloadInv /\ (Associate \/ IterNext \/ IterBegin) => PayloadInv'
<1> SUFFICES ASSUME PayloadInv, Associate \/ IterNext \/ IterBegin PROVE PayloadInv'
  OBVIOUS
<1>1. UNCHANGED <<payload, spare, written, lent>>
  BY DEF Associate, IterNext, IterBegin
<1>2. MessageInv' /\ SpareInv'
  BY <1>1 DEF PayloadInv, MessageInv, SpareInv
<1>3. Len(payload) \in Nat
  BY DEF PayloadInv, MessageInv, Once, IsTuple, IsList
<1>4. CASE Associate
  <2>1. iter' = AtFront /\ visited' = << >>
    BY <1>4 DEF Associate
  <2>2. iter' \in Iterators /\ iter'.front /\ iter'.pos = 1 /\ ~iter'.ended
    BY <2>1 DEF AtFront, Iterators
  <2>3. Passed' = 0 /\ visited' \in Seq(Fids) /\ Len(visited') = 0
    BY <2>1, <2>2 DEF Passed
  <2>4. Straight'
    BY <2>2, <2>3 DEF Straight
  <2>5. WalkInv'
    BY <1>1, <1>3, <2>2, <2>4 DEF WalkInv
  <2> QED
    BY <1>2, <2>5 DEF PayloadInv
<1>5. CASE IterNext
  BY <1>2, <1>5, NextKeeps DEF PayloadInv
<1>6. CASE IterBegin
  <2>1. /\ iter # NoIter /\ ~iter.rewound
        /\ iter' = [iter EXCEPT !.front = TRUE, !.rewound = ~iter.front] /\ visited' = visited
    BY <1>6 DEF IterBegin
  <2>2. iter \in Iterators /\ iter.pos \in 1 .. Len(payload) + 1 /\ Straight
    BY <2>1 DEF PayloadInv, WalkInv
  <2>3. PICK p, front, ended : iter = [pos |-> p, front |-> front, rewound |-> FALSE, ended |-> ended]
                               /\ p \in Nat /\ front \in BOOLEAN /\ ended \in BOOLEAN
    BY <2>1, <2>2 DEF Iterators
  <2>4. PICK back \in BOOLEAN : back = ~front
    OBVIOUS
  <2>5. iter.front = front /\ iter.pos = p
    BY <2>3
  <2>6. iter' = [iter EXCEPT !.front = TRUE, !.rewound = back]
    BY <2>1, <2>4, <2>5, Zenon
  <2>7. iter' = [pos |-> p, front |-> TRUE, rewound |-> back, ended |-> ended]
    BY <2>3, <2>6
  <2>8. iter' \in Iterators /\ iter'.pos = p /\ iter'.rewound = back
    BY <2>3, <2>4, <2>7 DEF Iterators
  <2>9. ASSUME ~back PROVE Straight'
    <3>1. iter' = iter
      BY <2>3, <2>4, <2>7, <2>9
    <3> QED
      BY <1>1, <2>1, <2>2, <3>1 DEF Straight, Passed
  <2>10. WalkInv'
    BY <1>1, <2>2, <2>5, <2>8, <2>9 DEF WalkInv
  <2> QED
    BY <1>2, <2>10 DEF PayloadInv
<1> QED
  BY <1>4, <1>5, <1>6

(* The invariant of the payload holds in every reachable state. *)
LEMMA PayloadInvariance == PayloadSpec => []PayloadInv
<1>1. PayloadInit => PayloadInv
  <2> SUFFICES ASSUME PayloadInit PROVE PayloadInv
    OBVIOUS
  <2>1. PICK e : e = << >>
    OBVIOUS
  <2>2. DOMAIN e = {}
    BY <2>1, NoFields
  <2>3. Once(e) /\ Matching({}, e) /\ OnceIn({}) /\ ToSet(e) = {}
    BY <2>1, <2>2, NoFields
  <2>4. MessageInv /\ SpareInv
    BY <2>1, <2>3 DEF PayloadInit, MessageInv, SpareInv
  <2>5. WalkInv
    BY DEF PayloadInit, WalkInv, NoIter, Iterators
  <2> QED
    BY <2>4, <2>5 DEF PayloadInv
<1>2. PayloadInv /\ [PayloadNext]_payloadVars => PayloadInv'
  <2>1. PayloadInv /\ PayloadNext => PayloadInv'
    BY WriteKeeps, FieldKeeps, WholeKeeps, WalkKeeps DEF PayloadNext, Writes
  <2>2. PayloadInv /\ UNCHANGED payloadVars => PayloadInv'
    BY DEF payloadVars, PayloadInv, MessageInv, SpareInv, WalkInv, Straight, Passed
  <2> QED
    BY <2>1, <2>2
<1> QED
  BY <1>1, <1>2, PTL DEF PayloadSpec


-----------------------------------------------------------------------------
(* A walk visits every field.                                              *)

(* The invariant gives what is promised of walks. *)
LEMMA VisitedInOrder == PayloadInv => EveryFieldVisited
<1> SUFFICES ASSUME PayloadInv, iter # NoIter, ~iter.rewound
             PROVE  /\ IsPrefix(visited, Keys(payload))
                    /\ iter.ended => visited = Keys(payload)
                    /\ (visited # << >> \/ Len(payload) # 1) /\ ~iter.ended =>
                         (HasNext <=> Len(visited) < Len(payload))
  BY DEF EveryFieldVisited
<1>1. PICK n \in Nat : n = Len(payload)
  BY DEF PayloadInv, MessageInv, Once, IsTuple, IsList
<1>2. PICK p \in 1 .. n + 1 : p = iter.pos
  BY <1>1 DEF PayloadInv, WalkInv
<1>3. Straight
  BY DEF PayloadInv, WalkInv
<1>4. PICK keys : keys = Keys(payload)
  OBVIOUS
<1>5. DOMAIN payload = 1 .. n
  BY <1>1 DEF PayloadInv, MessageInv, Once, IsTuple, IsList
<1>6. keys = [k \in 1 .. n |-> payload[k].fid]
  BY <1>4, <1>5 DEF Keys
<1>7. \A k \in 1 .. n : payload[k].fid \in Fids
  BY <1>1, Keyed DEF PayloadInv, MessageInv
<1>8. keys \in [1 .. n -> Fids]
  BY <1>6, <1>7
<1>9. keys \in Seq(Fids) /\ Len(keys) = n
  BY <1>8
<1>10. PICK m : m = Passed
  OBVIOUS
<1>11. m = IF iter.front THEN 0 ELSE IF p <= n THEN p ELSE n
  BY <1>1, <1>2, <1>10 DEF Passed
<1>12. m \in 0 .. n /\ visited \in Seq(Fids) /\ Len(visited) = m
       /\ \A k \in 1 .. m : visited[k] = payload[k].fid
  BY <1>3, <1>10, <1>11 DEF Straight
<1>13. \A k \in 1 .. m : visited[k] = keys[k]
  BY <1>6, <1>12
<1>14. IsPrefix(visited, keys)
  <2>1. PICK a, b : a = SubSeq(visited, 1, m) /\ b = SubSeq(keys, 1, m)
    OBVIOUS
  <2>2. m \in 0 .. Len(visited) /\ m \in 0 .. Len(keys)
    BY <1>9, <1>12
  <2>3. a \in Seq(Fids) /\ Len(a) = m /\ \A k \in 1 .. m : a[k] = visited[k]
    BY <1>12, <2>1, <2>2
  <2>4. b \in Seq(Fids) /\ Len(b) = m /\ \A k \in 1 .. m : b[k] = keys[k]
    BY <1>9, <1>12, <2>1, <2>2
  <2>5. a = b
    <3>1. \A k \in 1 .. m : a[k] = b[k]
      BY <1>13, <2>3, <2>4
    <3> QED
      BY <2>3, <2>4, <3>1, SeqEqual
  <2> QED
    BY <1>9, <1>12, <2>1, <2>5 DEF IsPrefix
<1>15. ASSUME iter.ended PROVE visited = keys
  <2>1. m = n
    BY <1>1, <1>2, <1>3, <1>11, <1>15 DEF Straight
  <2> QED
    BY <1>9, <1>12, <1>13, <2>1, SeqEqual
<1>16. ASSUME visited # << >> \/ n # 1, ~iter.ended
       PROVE  HasNext <=> m < n
  <2>1. CASE iter.front
    <3>1. p = 1 /\ m = 0
      BY <1>2, <1>3, <1>11, <2>1 DEF Straight
    <3>2. visited = << >>
      BY <1>12, <3>1
    <3> QED
      BY <1>1, <1>2, <1>16, <3>1, <3>2 DEF HasNext
  <2>2. CASE ~iter.front
    <3>1. p # n + 1
      BY <1>1, <1>2, <1>3, <1>16, <2>2 DEF Straight
    <3> QED
      BY <1>1, <1>2, <1>11, <2>2, <3>1 DEF HasNext
  <2> QED
    BY <2>1, <2>2
<1> QED
  BY <1>1, <1>4, <1>12, <1>14, <1>15, <1>16

(* A walk from associate to the end returns every field once, in the order *)
(* of the map, and hasNext tells when it is over (UpaPayloadFieldIterator).*)
THEOREM WalkedOver == PayloadSpec => []EveryFieldVisited
<1>1. PayloadSpec => []PayloadInv
  BY PayloadInvariance
<1>2. PayloadInv => EveryFieldVisited
  BY VisitedInOrder
<1> QED
  BY <1>1, <1>2, PTL

-----------------------------------------------------------------------------
(* The getters.                                                            *)

Answered(f, t) == FieldGet(f, t) = {Given(f.v)} /\ Reading(f, t) = {Given(f.v)}

(* A number is read back in every numeric type that can hold it. *)
LEMMA NumbersBack ==
  ASSUME NEW f, IsContent(Content(f.type, f.v)), f.type \in Numeric, NEW t \in Numeric, Holds(t, f.v[1])
  PROVE  Answered(f, t)
<1>1. PICK x \in Int : f.v = <<x>>
  <2>1. PICK c : c = Content(f.type, f.v)
    OBVIOUS
  <2>2. c.type = f.type /\ c.v = f.v
    BY <2>1 DEF Content
  <2>3. \A u : Lowest(u) .. Highest(u) \subseteq Int
    OBVIOUS
  <2>4. CASE f.type \in Ints
    BY <2>1, <2>2, <2>3, <2>4 DEF IsContent
  <2>5. CASE f.type \in Floats \cup {"PRICE"}
    BY <2>1, <2>2, <2>5 DEF IsContent
  <2> QED
    BY <2>4, <2>5 DEF Numeric
<1>2. f.type \notin {"UNKNOWN", "TIME"}
  BY DEF Numeric, Ints, Floats
<1>3. GetAs(f, t) = {Given(f.v)}
  <2>1. CASE t \in Ints
    <3>1. PICK n \in Int : x = 2 * n /\ Fits(n, t)
      <4>1. t \notin Floats \cup {"PRICE"}
        BY <2>1 DEF Ints, Floats
      <4>2. f.v[1] = x
        BY <1>1
      <4>3. x % 2 = 0 /\ Fits(x \div 2, t)
        BY <4>1, <4>2 DEF Holds
      <4>4. x = 2 * (x \div 2) /\ x \div 2 \in Int
        BY <4>3
      <4> QED
        BY <4>3, <4>4
    <3>2. Cast(f, t) = {Given(f.v)}
      BY <1>1, <2>1, <3>1, CastBack
    <3>3. f.type # "UNKNOWN" /\ f.type # "TIME"
      BY <1>2
    <3>4. CASE t \in {"I8", "U8"}
      <4>0. /\ t \notin {"I16", "U16"} /\ t # "I32" /\ t # "U32" /\ t # "I64" /\ t # "U64" /\ t \notin Floats
            /\ t # "PRICE" /\ t # "CHAR" /\ t # "BOOL" /\ t # "TIME" /\ t # "STRING"
        BY <3>4 DEF Floats
      <4>1. GetAs(f, t) = Get8(f, t)
        BY <3>3, <3>4, <4>0, Zenon DEF GetAs
      <4> QED
        BY <3>2, <4>1 DEF Get8, ToInteger
    <3>5. CASE t \in {"I16", "U16"}
      <4>0. /\ t \notin {"I8", "U8"} /\ t # "I32" /\ t # "U32" /\ t # "I64" /\ t # "U64" /\ t \notin Floats
            /\ t # "PRICE" /\ t # "CHAR" /\ t # "BOOL" /\ t # "TIME" /\ t # "STRING"
        BY <3>5 DEF Floats
      <4>1. GetAs(f, t) = Get16(f, t)
        BY <3>3, <3>5, <4>0, Zenon DEF GetAs
      <4> QED
        BY <3>2, <4>1 DEF Get16, ToInteger
    <3>6. CASE t \in {"I32", "U32", "I64", "U64"}
      <4>0. /\ t \notin {"I8", "U8"} /\ t \notin {"I16", "U16"} /\ t \notin Floats
            /\ t # "PRICE" /\ t # "CHAR" /\ t # "BOOL" /\ t # "TIME" /\ t # "STRING"
        BY <3>6 DEF Floats
      <4>1. t = "I32" => GetAs(f, t) = GetI32(f)
        BY <3>3, <4>0, Zenon DEF GetAs
      <4>2. t = "U32" => GetAs(f, t) = GetU32(f)
        BY <3>3, <4>0, Zenon DEF GetAs
      <4>3. t = "I64" => GetAs(f, t) = GetI64(f)
        BY <3>3, <4>0, Zenon DEF GetAs
      <4>4. t = "U64" => GetAs(f, t) = GetU64(f)
        BY <3>3, <4>0, Zenon DEF GetAs
      <4> QED
        BY <3>2, <3>3, <3>6, <4>1, <4>2, <4>3, <4>4 DEF GetI32, GetU32, GetI64, GetU64, ToInteger
    <3> QED
      BY <2>1, <3>4, <3>5, <3>6 DEF Ints
  <2>2. CASE t \in Floats
    BY <1>2, <2>2 DEF GetAs, Floats, GetFloat
  <2>3. CASE t = "PRICE"
    BY <1>2, <2>3 DEF GetAs, Floats, GetPrice
  <2> QED
    BY <2>1, <2>2, <2>3 DEF Numeric
<1>4. FieldGet(f, t) = GetAs(f, t) /\ Reading(f, t) = GetAs(f, t)
  <2>1. t \in Scalars \cup Objects /\ t \notin {"MSG", "OPAQUE", "BOOL", "CHAR"}
    BY DEF Numeric, Scalars, Objects, Ints, Floats
  <2>2. t # "MSG" /\ t \in (Scalars \cup Objects) \ {"MSG"}
    BY <2>1
  <2>3. FieldGet(f, t) = GetAs(f, t)
    BY <2>2, Zenon DEF FieldGet
  <2>4. CASE t \in Scalars
    <3>0. t \notin Objects /\ t \notin ObjectVectors
      BY <2>4 DEF Scalars, Objects, ObjectVectors, Ints, Floats
    <3>1. Reading(f, t) = GetScalar(f, t)
      BY <2>4, <3>0, Zenon DEF Reading
    <3> QED
      BY <2>1, <2>3, <3>1 DEF GetScalar
  <2>5. CASE t \notin Scalars
    <3>1. t \in Objects /\ t \notin ObjectVectors
      BY <2>1, <2>5 DEF Objects, ObjectVectors
    <3>2. Reading(f, t) = GetObject(f, t)
      BY <2>5, <3>1, Zenon DEF Reading
    <3> QED
      BY <2>1, <2>3, <3>2 DEF GetObject
  <2> QED
    BY <2>4, <2>5
<1> QED
  BY <1>3, <1>4 DEF Answered

(* Booleans and characters are read without a conversion. *)
LEMMA ScalarRead ==
  ASSUME NEW f, NEW t \in {"BOOL", "CHAR"}
  PROVE  FieldGet(f, t) = GetAs(f, t) /\ Reading(f, t) = GetScalar(f, t)
<1>1. t # "MSG" /\ t \in Scalars /\ t \in (Scalars \cup Objects) \ {"MSG"}
  BY DEF Scalars
<1>2. FieldGet(f, t) = GetAs(f, t)
  BY <1>1, Zenon DEF FieldGet
<1>3. t \notin Objects /\ t \notin ObjectVectors
  BY DEF Objects, ObjectVectors
<1>4. Reading(f, t) = GetScalar(f, t)
  BY <1>1, <1>3, Zenon DEF Reading
<1> QED
  BY <1>2, <1>4

(* What is read in its own type is what was stored. *)
LEMMA SameBack ==
  ASSUME NEW f, IsContent(Content(f.type, f.v)), f.type \notin {"MSG", "OPAQUE", "VECTOR_I8"}
  PROVE  Answered(f, f.type)
<1>1. PICK c : c = Content(f.type, f.v)
  OBVIOUS
<1>2. c.type = f.type /\ c.v = f.v /\ IsContent(c)
  BY <1>1 DEF Content
<1>3. CASE f.type \in Numeric
  <2>1. Holds(f.type, f.v[1])
    <3>1. CASE f.type \in Ints
      <4>1. PICK n \in Lowest(f.type) .. Highest(f.type) : f.v = <<2 * n>>
        BY <1>2, <3>1 DEF IsContent
      <4>2. PICK low, high : low = Lowest(f.type) /\ high = Highest(f.type)
        OBVIOUS
      <4>3. n \in Int /\ low <= n /\ n <= high
        BY <4>2
      <4>4. Fits(n, f.type) /\ f.v[1] = 2 * n /\ (2 * n) % 2 = 0 /\ (2 * n) \div 2 = n
        BY <4>1, <4>2, <4>3 DEF Fits
      <4> QED
        BY <4>4 DEF Holds
    <3>2. CASE f.type \in Floats \cup {"PRICE"}
      BY <3>2 DEF Holds
    <3> QED
      BY <1>3, <3>1, <3>2 DEF Numeric
  <2> QED
    BY <1>3, <2>1, NumbersBack
<1>4. CASE f.type = "CHAR"
  <2>1. PICK n \in Lowest("CHAR") .. Highest("CHAR") : f.v = <<2 * n>>
    BY <1>2, <1>4 DEF IsContent
  <2>2. PICK low, high : low = Lowest("CHAR") /\ high = Highest("CHAR")
    OBVIOUS
  <2>3. n \in Int /\ low <= n /\ n <= high
    BY <2>2
  <2>4. Fits(n, "CHAR")
    BY <2>2, <2>3 DEF Fits
  <2>5. Cast(f, "CHAR") = {Given(f.v)}
    BY <2>1, <2>3, <2>4, CastBack
  <2>6. GetAs(f, "CHAR") = {Given(f.v)}
    BY <1>4, <2>5 DEF GetAs, Floats, GetChar, ToInteger
  <2> QED
    BY <1>4, <2>6, ScalarRead DEF Answered, GetScalar, GetExactly
<1>5. CASE f.type = "BOOL"
  <2>1. f.v \in {<<0>>, <<1>>}
    BY <1>2, <1>5 DEF IsContent
  <2>2. AsBool(f.v[1] # 0) = {Given(f.v)}
    BY <2>1 DEF AsBool
  <2>3. GetAs(f, "BOOL") = {Given(f.v)}
    BY <1>5, <2>2 DEF GetAs, Floats, GetBool
  <2> QED
    BY <1>5, <2>3, ScalarRead DEF Answered, GetScalar, GetExactly
<1>6. CASE f.type \in {"STRING", "TIME"}
  <2>1. GetAs(f, f.type) = {Given(f.v)}
    BY <1>6 DEF GetAs, Floats, GetString, GetExactly, GetDateTime
  <2>2. f.type \in Objects /\ f.type \notin Scalars /\ f.type \notin {"MSG", "OPAQUE"}
    BY <1>6 DEF Objects, Scalars, Ints, Floats
  <2>3. f.type # "MSG" /\ f.type \in (Scalars \cup Objects) \ {"MSG"}
    BY <2>2
  <2>4. FieldGet(f, f.type) = GetAs(f, f.type)
    BY <2>3, Zenon DEF FieldGet
  <2>5. f.type \notin ObjectVectors
    BY <1>6 DEF ObjectVectors
  <2>6. Reading(f, f.type) = GetObject(f, f.type)
    BY <2>2, <2>5, Zenon DEF Reading
  <2> QED
    BY <2>1, <2>2, <2>4, <2>6 DEF Answered, GetObject
<1>7. CASE f.type \in ObjectVectors
  <2>1. f.type \notin Objects \cup Scalars
    BY <1>7 DEF ObjectVectors, Objects, Scalars, Ints, Floats
  <2>2. f.type # "MSG"
    BY <1>7 DEF ObjectVectors
  <2> QED
    BY <1>7, <2>1, <2>2 DEF Answered, FieldGet, FieldGetVector, Reading, GetObjectVector, GetExactly
<1> QED
  BY <1>2, <1>3, <1>4, <1>5, <1>6, <1>7 DEF IsContent, Kinds, ObjectVectors

-----------------------------------------------------------------------------
(* What was put in is read back.                                           *)

(* A field is found by its fid, whatever name is asked for. *)
LEMMA FoundByFid ==
  ASSUME NEW fs, Once(fs), NEW i \in DOMAIN fs, fs[i].fid # 0, NEW name
  PROVE  FindField(fs, fs[i].fid, name) = i
<1>1. PICK n \in Nat : n = Len(fs) /\ DOMAIN fs = 1 .. n
  BY DEF Once, IsTuple, IsList
<1>2. PICK fid : fid = fs[i].fid
  OBVIOUS
<1>3. PICK j : j = At(fs, fid)
  OBVIOUS
<1>4. j \in DOMAIN fs /\ fs[j].fid = fid
  BY <1>2, <1>3 DEF At
<1>5. j = i
  BY <1>1, <1>2, <1>4 DEF Once
<1> QED
  BY <1>2, <1>3, <1>5 DEF FindField, HasKey

(* A field is found by a name no other has. *)
LEMMA FoundByName ==
  ASSUME NEW fs, Once(fs), NEW i \in DOMAIN fs, NEW name \in Names, fs[i].name = <<name>>,
         \A j \in DOMAIN fs \ {i} : fs[j].name # fs[i].name
  PROVE  FindField(fs, 0, name) = i
<1>1. PICK n \in Nat : n = Len(fs) /\ DOMAIN fs = 1 .. n
  BY DEF Once, IsTuple, IsList
<1>2. name # NoName
  BY PayloadAssumption
<1>3. {j \in 1 .. n : name # NoName /\ fs[j].name = <<name>>} = {i}
  BY <1>1, <1>2
<1>4. i \in Int
  BY <1>1
<1>5. (CHOOSE x \in {i} : \A y \in {i} : x =< y) = i
  BY <1>4
<1>6. SelectInSeq(fs, LAMBDA f : name # NoName /\ f.name = <<name>>) = i
  BY <1>1, <1>3, <1>5 DEF SelectInSeq, Min
<1> QED
  BY <1>6 DEF FindField

(* The invariant gives what is promised of readers. *)
LEMMA HeldReadBack == PayloadInv => ReadBack
<1> SUFFICES ASSUME PayloadInv PROVE ReadBack
  OBVIOUS
<1>1. Once(payload) /\ Matching(ToSet(payload), written)
  BY DEF PayloadInv, MessageInv
<1>2. ToSet(Keys(payload)) = DOMAIN written
  <2>1. \A x : x \in ToSet(Keys(payload)) <=> \E i \in DOMAIN payload : x = payload[i].fid
    BY DEF ToSet, Keys
  <2>2. \A x : x \in FidsIn(ToSet(payload)) <=> \E i \in DOMAIN payload : x = payload[i].fid
    BY DEF ToSet, FidsIn
  <2> QED
    BY <1>1, <2>1, <2>2 DEF Matching, Accounted
<1>3. ASSUME NEW i \in DOMAIN payload
      PROVE  LET f == payload[i]
                 ByFid(t)  == Read(f.fid, NoName, t)
                 ByName(t) == Read(0, f.name[1], t)
                 Direct(t) == FieldGet(f, t)
             IN /\ ReadsAs(written[f.fid], Direct)
                /\ f.fid # 0 => ReadsAs(written[f.fid], ByFid)
                /\ f.name # EmptyName /\ (\A j \in DOMAIN payload \ {i} : payload[j].name # f.name)
                     => ReadsAs(written[f.fid], ByName)
  <2>1. PICK f : f = payload[i]
    OBVIOUS
  <2>2. f \in ToSet(payload)
    BY <2>1 DEF ToSet
  <2>3. FieldOk(f, written) /\ f.fid \in DOMAIN written
    BY <1>1, <2>2 DEF Matching, AllOk, Accounted, FidsIn
  <2>4. PICK c : c = written[f.fid]
    OBVIOUS
  <2>5. f.type = c.type /\ f.v = c.v /\ f.name \in FieldNames
    BY <2>3, <2>4 DEF FieldOk
  <2>6. IsContent(c) /\ c.type # "VECTOR_I8"
    BY <1>1, <2>3, <2>4 DEF Matching, Accounted, IsStored
  <2>7. c = Content(f.type, f.v)
    BY <2>5, <2>6 DEF IsContent
  <2>8. c.type \notin {"MSG", "OPAQUE"} => Answered(f, c.type)
    BY <2>5, <2>6, <2>7, SameBack
  <2>9. ASSUME NEW t \in Numeric, c.type \in Numeric, Holds(t, c.v[1]) PROVE Answered(f, t)
    BY <2>5, <2>6, <2>7, <2>9, NumbersBack
  <2>10. /\ c.type \notin {"MSG", "OPAQUE"} =>
              FieldGet(f, c.type) = {Given(c.v)} /\ Reading(f, c.type) = {Given(c.v)}
         /\ c.type \in Numeric => \A t \in Numeric : Holds(t, c.v[1]) =>
              FieldGet(f, t) = {Given(c.v)} /\ Reading(f, t) = {Given(c.v)}
    BY <2>5, <2>8, <2>9 DEF Answered
  <2>11. i \in Int /\ i # 0
    BY <1>1 DEF Once, IsTuple, IsList
  <2>12. ASSUME f.fid # 0, NEW t PROVE Read(f.fid, NoName, t) = Reading(f, t)
    BY <1>1, <2>1, <2>11, <2>12, FoundByFid DEF Read
  <2>13. ASSUME f.name # EmptyName, \A j \in DOMAIN payload \ {i} : payload[j].name # f.name, NEW t
         PROVE  Read(0, f.name[1], t) = Reading(f, t)
    <3>1. PICK name \in Names : f.name = <<name>>
      BY <2>5, <2>13 DEF FieldNames
    <3>2. f.name[1] = name
      BY <3>1
    <3>3. FindField(payload, 0, name) = i
      BY <1>1, <2>1, <2>13, <3>1, FoundByName
    <3> QED
      BY <2>1, <2>11, <3>2, <3>3 DEF Read
  <2>14. /\ c.type \notin {"MSG", "OPAQUE"} => FieldGet(f, c.type) = {Given(c.v)}
         /\ c.type \in Numeric => \A t \in Numeric : Holds(t, c.v[1]) => FieldGet(f, t) = {Given(c.v)}
    BY <2>10
  <2>15. ASSUME f.fid # 0
         PROVE  /\ c.type \notin {"MSG", "OPAQUE"} => Read(f.fid, NoName, c.type) = {Given(c.v)}
                /\ c.type \in Numeric =>
                     \A t \in Numeric : Holds(t, c.v[1]) => Read(f.fid, NoName, t) = {Given(c.v)}
    BY <2>10, <2>12, <2>15
  <2>16. ASSUME f.name # EmptyName, \A j \in DOMAIN payload \ {i} : payload[j].name # f.name
         PROVE  /\ c.type \notin {"MSG", "OPAQUE"} => Read(0, f.name[1], c.type) = {Given(c.v)}
                /\ c.type \in Numeric =>
                     \A t \in Numeric : Holds(t, c.v[1]) => Read(0, f.name[1], t) = {Given(c.v)}
    BY <2>10, <2>13, <2>16
  <2> QED
    BY <2>1, <2>4, <2>14, <2>15, <2>16 DEF ReadsAs
<1> QED
  BY <1>2, <1>3 DEF ReadBack

(* A message holds the fields that were put into it and no other, and every*)
(* reader of one gets the content last accepted for it, whatever additions,*)
(* updates, assignments, copies and merges there were (UpaPayload).        *)
THEOREM ReadAsWritten == PayloadSpec => []ReadBack
<1>1. PayloadSpec => []PayloadInv
  BY PayloadInvariance
<1>2. PayloadInv => ReadBack
  BY HeldReadBack
<1> QED
  BY <1>1, <1>2, PTL

-----------------------------------------------------------------------------
(* On the wire. *)
LEMMA SentOf ==
  ASSUME NEW v, NEW h, NEW w, w = Sent(v, h)
  PROVE  w.is = "value" /\ w.v = v /\ ~IsBlank(w) /\ w \notin {Refusal, Absent, Dropped}
<1>1. w = [is |-> "value", v |-> v, hint |-> h]
  BY DEF Sent
<1>2. Refusal.is = "refused" /\ Absent.is = "left out" /\ Dropped.is = "dropped"
  BY DEF Refusal, Absent, Dropped, NoValue
<1>3. w.is = "value" /\ w.v = v
  BY <1>1
<1> QED
  BY <1>2, <1>3 DEF IsBlank

(* A blank is a value of its own. *)
LEMMA OfBlank == IsBlank(Blank) /\ Blank \notin {Refusal, Absent, Dropped}
<1>1. Blank.is = "blank"
  BY DEF Blank, NoValue
<1>2. Refusal.is = "refused" /\ Absent.is = "left out" /\ Dropped.is = "dropped"
  BY DEF Refusal, Absent, Dropped, NoValue
<1> QED
  BY <1>1, <1>2 DEF IsBlank

(* A value of the feed. *)
FedAs(f, w) ==
  /\ f.rwf \in {"INT", "UINT", "ENUM"} => \E n \in Units(f.rwf) : w = Sent(<<2 * n>>, "whole")
  /\ f.rwf \in {"FLOAT", "DOUBLE"} => \E x \in Decimals : w = Sent(<<x>>, "fine")
  /\ f.rwf = "REAL" => \E x \in Decimals : /\ f.mf = "INTEGER" => Holds("I64", x)
                                           /\ w = Sent(<<x>>, "fine")
(* What a feed sends, if not blank, is a value of its RSSL type. *)
LEMMA FeedSends ==
  ASSUME NEW f, NEW w \in FeedValues(f), w # Blank
  PROVE  FedAs(f, w) /\ \E v, h : w = Sent(v, h)
<1>1. PICK S : FeedValues(f) = {Blank} \cup S /\
        S = CASE f.rwf \in {"INT", "UINT", "ENUM"} -> {Sent(<<2 * n>>, "whole") : n \in Units(f.rwf)}
              [] f.rwf \in {"FLOAT", "DOUBLE"} -> {Sent(<<x>>, "fine") : x \in Decimals}
              [] f.rwf = "REAL"     -> {Sent(<<x>>, "fine") :
                                          x \in {y \in Decimals : f.mf = "INTEGER" => Holds("I64", y)}}
              [] f.rwf = "DATE"     -> {Sent(<<d, None>>, "whole") : d \in 0 .. LastDay}
              [] f.rwf = "TIME"     -> {Sent(<<None, t>>, "whole") : t \in 0 .. DayLength - 1}
              [] f.rwf = "DATETIME" -> {Sent(v, "whole") : v \in (0 .. LastDay) \X (None .. DayLength - 1)}
              [] OTHER              -> {Sent(<<2>>, "whole")}
  BY Zenon DEF FeedValues
<1>2. w \in S
  BY <1>1
<1>3. CASE f.rwf \in {"INT", "UINT", "ENUM"}
  <2>1. S = {Sent(<<2 * n>>, "whole") : n \in Units(f.rwf)}
    BY <1>1, <1>3, Zenon
  <2> QED
    BY <1>2, <1>3, <2>1 DEF FedAs
<1>4. CASE f.rwf \in {"FLOAT", "DOUBLE"}
  <2>1. S = {Sent(<<x>>, "fine") : x \in Decimals}
    BY <1>1, <1>4, Zenon
  <2> QED
    BY <1>2, <1>4, <2>1 DEF FedAs
<1>5. CASE f.rwf = "REAL"
  <2>1. S = {Sent(<<x>>, "fine") : x \in {y \in Decimals : f.mf = "INTEGER" => Holds("I64", y)}}
    BY <1>1, <1>5, Zenon
  <2>2. \E x \in Decimals : (f.mf = "INTEGER" => Holds("I64", x)) /\ w = Sent(<<x>>, "fine")
    BY <1>2, <2>1
  <2> QED
    BY <1>5, <2>2 DEF FedAs
<1>6. CASE f.rwf \in {"DATE", "TIME", "DATETIME"}
  <2>1. f.rwf = "DATE" => S = {Sent(<<d, None>>, "whole") : d \in 0 .. LastDay}
    BY <1>1, Zenon
  <2>2. f.rwf = "TIME" => S = {Sent(<<None, t>>, "whole") : t \in 0 .. DayLength - 1}
    BY <1>1, Zenon
  <2>3. f.rwf = "DATETIME" => S = {Sent(v, "whole") : v \in (0 .. LastDay) \X (None .. DayLength - 1)}
    BY <1>1, Zenon
  <2>4. \E v, h : w = Sent(v, h)
    <3>1. CASE f.rwf = "DATE"
      BY <1>2, <2>1, <3>1, Zenon
    <3>2. CASE f.rwf = "TIME"
      BY <1>2, <2>2, <3>2, Zenon
    <3>3. CASE f.rwf = "DATETIME"
      <4>1. PICK v \in (0 .. LastDay) \X (None .. DayLength - 1) : w = Sent(v, "whole")
        BY <1>2, <2>3, <3>3
      <4> QED
        BY <4>1
    <3> QED
      BY <1>6, <3>1, <3>2, <3>3
  <2> QED
    BY <1>6, <2>4 DEF FedAs
<1>7. CASE f.rwf \notin {"INT", "UINT", "ENUM", "FLOAT", "DOUBLE", "REAL", "DATE", "TIME", "DATETIME"}
  <2>1. S = {Sent(<<2>>, "whole")}
    BY <1>1, <1>7, Zenon
  <2> QED
    BY <1>2, <1>7, <2>1 DEF FedAs
<1> QED
  BY <1>3, <1>4, <1>5, <1>6, <1>7

-----------------------------------------------------------------------------
(* The inductive invariant: a field on its way is one of the encoder's     *)
(* answers to what was published, or of the feed's; what was received is   *)
(* what the decoder adds for it.                                           *)

WayOut == \/ wire = NotEncoded
          \/ \E w \in EncodeField(field, published) :
               wire = IF w = Refusal \/ beside = "refused" THEN Dropped ELSE w
CodecInv ==
  /\ published \in Published \/ (published = FromFeed /\ wire \in FeedValues(field))
  /\ published # FromFeed => WayOut
  /\ decoded => /\ wire.is \in {"value", "blank"}
                /\ IF DecodeFieldEntry(field, wire) = {} THEN received = {}
                   ELSE \E c \in DecodeFieldEntry(field, wire) : received = {c}

(* What a field decodes to depends on the message and the options only. *)
LEMMA DecodedAlike ==
  ASSUME UNCHANGED <<field, precision, asString, wire>>
  PROVE  DecodeFieldEntry(field, wire)' = DecodeFieldEntry(field, wire)
<1>1. /\ AddDate(field.mama, wire)' = AddDate(field.mama, wire)
      /\ AddTime(field.mama, wire)' = AddTime(field.mama, wire)
  BY DEF AddDate, AddTime
<1>2. AddDateTime(field.mama, wire)' = AddDateTime(field.mama, wire)
  BY DEF AddDateTime
<1> QED
  BY <1>1, <1>2 DEF DecodeFieldEntry

(* The invariant of the codec holds in every reachable state. *)
LEMMA CodecInvariance == CodecSpec => []CodecInv
<1>1. CodecInit => CodecInv
  BY DEF CodecInit, CodecInv, WayOut
<1>2. CodecInv /\ [CodecNext]_codecVars => CodecInv'
  <2> SUFFICES ASSUME CodecInv, [CodecNext]_codecVars PROVE CodecInv'
    OBVIOUS
  <2>1. NotEncoded.is = "not encoded"
    BY DEF NotEncoded, NoValue
  <2>2. CASE Encode
    <3>1. /\ wire = NotEncoded /\ UNCHANGED <<field, published, precision, valid, beside, asString, decoded>>
          /\ \E w \in EncodeField(field, published) :
               wire' = IF w = Refusal \/ beside = "refused" THEN Dropped ELSE w
      BY <2>2 DEF Encode
    <3>2. ~decoded
      BY <2>1, <3>1 DEF CodecInv
    <3>3. EncodeField(field, published)' = EncodeField(field, published)
      BY <3>1 DEF EncodeField, EncodeReal, EncodePrice
    <3>4. WayOut'
      BY <3>1, <3>3 DEF WayOut
    <3>5. published \in Published
      <4>1. NotEncoded \notin FeedValues(field)
        <5>1. ASSUME NotEncoded \in FeedValues(field) PROVE FALSE
          <6>1. NotEncoded # Blank
            BY DEF NotEncoded, Blank, NoValue
          <6>2. \E v, h : NotEncoded = Sent(v, h)
            BY <5>1, <6>1, FeedSends
          <6> QED
            BY <2>1, <6>2, SentOf
        <5> QED
          BY <5>1
      <4> QED
        BY <3>1, <4>1 DEF CodecInv
    <3> QED
      BY <3>1, <3>2, <3>4, <3>5 DEF CodecInv
  <2>3. CASE Decode
    <3>1. /\ wire.is \in {"value", "blank"} /\ decoded'
          /\ UNCHANGED <<field, published, precision, valid, beside, asString, wire>>
          /\ IF DecodeFieldEntry(field, wire) = {} THEN received' = {}
             ELSE \E c \in DecodeFieldEntry(field, wire) : received' = {c}
      BY <2>3 DEF Decode
    <3>2. DecodeFieldEntry(field, wire)' = DecodeFieldEntry(field, wire)
      BY <3>1, DecodedAlike
    <3>3. EncodeField(field, published)' = EncodeField(field, published)
      BY <3>1 DEF EncodeField, EncodeReal, EncodePrice
    <3> QED
      BY <3>1, <3>2, <3>3 DEF CodecInv, WayOut
  <2>4. CASE UNCHANGED codecVars
    <3>1. UNCHANGED <<field, published, precision, valid, beside, asString, wire, decoded, received>>
      BY <2>4 DEF codecVars
    <3>2. DecodeFieldEntry(field, wire)' = DecodeFieldEntry(field, wire)
      BY <3>1, DecodedAlike
    <3>3. EncodeField(field, published)' = EncodeField(field, published)
      BY <3>1 DEF EncodeField, EncodeReal, EncodePrice
    <3> QED
      BY <3>1, <3>2, <3>3 DEF CodecInv, WayOut
  <2> QED
    BY <2>2, <2>3, <2>4 DEF CodecNext
<1> QED
  BY <1>1, <1>2, PTL DEF CodecSpec

-----------------------------------------------------------------------------
(* The types.                                                              *)

(* The four MAMA types of the field map that stand for others. *)
LEMMA MamaTypes ==
  ASSUME NEW m
  PROVE  /\ m = "ENUM_AS_STRING" => ToMamaFieldType(m) = "STRING"
         /\ m = "REAL_AS_F32" => ToMamaFieldType(m) = "F32"
         /\ m \in {"DATE_AS_TIME", "TIME_AS_TIME"} => ToMamaFieldType(m) = "TIME"
         /\ m \notin {"ENUM_AS_STRING", "REAL_AS_F32", "DATE_AS_TIME", "TIME_AS_TIME"} =>
              ToMamaFieldType(m) = m
<1>1. m = "ENUM_AS_STRING" => ToMamaFieldType(m) = "STRING"
  BY Zenon DEF ToMamaFieldType
<1>2. m = "REAL_AS_F32" => ToMamaFieldType(m) = "F32"
  BY Zenon DEF ToMamaFieldType
<1>3. m \in {"DATE_AS_TIME", "TIME_AS_TIME"} => ToMamaFieldType(m) = "TIME"
  BY Zenon DEF ToMamaFieldType
<1>4. m \notin {"ENUM_AS_STRING", "REAL_AS_F32", "DATE_AS_TIME", "TIME_AS_TIME"} => ToMamaFieldType(m) = m
  BY Zenon DEF ToMamaFieldType
<1> QED
  BY <1>1, <1>2, <1>3, <1>4

(* A field that holds numbers is of an integer type, or of one with fractions. *)
LEMMA NumericType ==
  ASSUME NEW m, ToMamaFieldType(m) \in Numeric
  PROVE  \/ m \in Ints /\ ToMamaFieldType(m) = m
         \/ m \notin Ints /\ ToMamaFieldType(m) \in Floats \cup {"PRICE"}
            /\ m \notin TextTypes /\ m \notin {"BOOL", "CHAR", "TIME"}
<1>1. CASE m \in {"ENUM_AS_STRING", "REAL_AS_F32", "DATE_AS_TIME", "TIME_AS_TIME"}
  BY <1>1, MamaTypes DEF Numeric, Ints, Floats, TextTypes
<1>2. CASE m \notin {"ENUM_AS_STRING", "REAL_AS_F32", "DATE_AS_TIME", "TIME_AS_TIME"}
  <2>1. ToMamaFieldType(m) = m
    BY <1>2, MamaTypes
  <2> QED
    BY <2>1 DEF Numeric, Ints, Floats, TextTypes
<1> QED
  BY <1>1, <1>2

(* Fields that take text become strings. *)
LEMMA TextType ==
  ASSUME NEW m \in TextTypes
  PROVE  ToMamaFieldType(m) = "STRING"
BY MamaTypes DEF TextTypes

-----------------------------------------------------------------------------
(* Numbers.                                                                *)

(* An integer that its type holds is added as it is. *)
LEMMA UnitsAdded ==
  ASSUME NEW m, NEW n \in Int,
         m \in TextTypes \/ (ToMamaFieldType(m) \in Numeric /\ Holds(ToMamaFieldType(m), 2 * n))
  PROVE  AddRsslIntToMsg(m, n) = {Content(ToMamaFieldType(m), <<2 * n>>)}
<1>1. PICK type : type = ToMamaFieldType(m)
  OBVIOUS
<1>2. CASE m \in TextTypes
  <2>1. /\ m # "BOOL" /\ m \notin Ints \cup {"CHAR"} /\ m # "TIME"
        /\ type = "STRING" /\ type \notin Floats \cup {"PRICE"}
    BY <1>1, <1>2, TextType DEF TextTypes, Ints, Floats
  <2>2. AddRsslIntToMsg(m, n) = {Content(type, NumberText(n))}
    BY <1>1, <1>2, <2>1, Zenon DEF AddRsslIntToMsg
  <2> QED
    BY <1>1, <2>2 DEF NumberText
<1>3. CASE type \in Numeric /\ m \in Ints
  <2>1. type = m
    BY <1>1, <1>3, NumericType
  <2>2. /\ m \notin TextTypes /\ m # "BOOL" /\ m \in Ints \cup {"CHAR"} /\ m # "TIME"
        /\ type \notin Floats \cup {"PRICE"}
    BY <1>3, <2>1 DEF TextTypes, Ints, Floats
  <2>3. AddRsslIntToMsg(m, n) = {Content(type, <<2 * Wrapped(n, m)>>)}
    BY <1>1, <2>2, Zenon DEF AddRsslIntToMsg
  <2>4. Fits(n, m)
    <3>1. Fits((2 * n) \div 2, m)
      BY <1>1, <2>1, <2>2 DEF Holds
    <3>2. (2 * n) \div 2 = n
      OBVIOUS
    <3> QED
      BY <3>1, <3>2
  <2>5. Wrapped(n, m) = n
    BY <1>3, <2>4, WrapBack
  <2> QED
    BY <1>1, <2>3, <2>5
<1>4. CASE type \in Numeric /\ m \notin Ints
  <2>1. /\ m \notin TextTypes /\ m # "BOOL" /\ m \notin Ints \cup {"CHAR"} /\ m # "TIME"
        /\ type \in Floats \cup {"PRICE"}
    BY <1>1, <1>4, NumericType
  <2>2. AddRsslIntToMsg(m, n) = {Content(type, <<2 * n>>)}
    BY <1>1, <2>1, Zenon DEF AddRsslIntToMsg
  <2> QED
    BY <1>1, <2>2
<1> QED
  BY <1>1, <1>2, <1>3, <1>4

(* A number that its type holds is added as it is, if that is no 8-bit type. *)
LEMMA FineAdded ==
  ASSUME NEW m, NEW x \in Int,
         \/ m \in TextTypes
         \/ ToMamaFieldType(m) \in Numeric \ {"I8", "U8"} /\ Holds(ToMamaFieldType(m), x)
  PROVE  AddRsslFloatToMsg(m, x) = {Content(ToMamaFieldType(m), <<x>>)}
<1>1. PICK type : type = ToMamaFieldType(m)
  OBVIOUS
<1>2. CASE type \in Floats \cup {"PRICE", "STRING"}
  <2>1. m \notin Ints \ {"I8", "U8"}
    <3>1. CASE m \in TextTypes
      BY <3>1 DEF TextTypes, Ints
    <3>2. CASE type \in Numeric
      <4>1. m \in Ints => type \in Ints
        BY <1>1, <3>2, NumericType
      <4> QED
        BY <1>2, <4>1 DEF Ints, Floats
    <3> QED
      BY <1>1, <3>1, <3>2
  <2>2. AddRsslFloatToMsg(m, x) = {Content(type, <<x>>)}
    BY <1>1, <1>2, <2>1, Zenon DEF AddRsslFloatToMsg
  <2> QED
    BY <1>1, <2>2
<1>3. CASE type \notin Floats \cup {"PRICE", "STRING"}
  <2>1. type \in Numeric /\ m \in Ints \ {"I8", "U8"} /\ type = m /\ Holds(m, x)
    <3>1. m \notin TextTypes
      BY <1>1, <1>3, TextType
    <3>2. type \in Numeric \ {"I8", "U8"} /\ Holds(type, x)
      BY <1>1, <3>1
    <3>3. m \in Ints /\ type = m
      BY <1>1, <1>3, <3>2, NumericType
    <3> QED
      BY <3>2, <3>3
  <2>2. AddRsslFloatToMsg(m, x) = {Content(m, a.v) : a \in Cast(Content("F64", <<x>>), m)}
    BY <1>1, <1>3, <2>1, Zenon DEF AddRsslFloatToMsg
  <2>3. PICK n \in Int : x = 2 * n /\ Fits(n, m)
    <3>1. m \notin Floats \cup {"PRICE"}
      BY <2>1 DEF Ints, Floats
    <3>2. x % 2 = 0 /\ Fits(x \div 2, m)
      BY <2>1, <3>1 DEF Holds
    <3>3. x = 2 * (x \div 2) /\ x \div 2 \in Int
      BY <3>2
    <3> QED
      BY <3>2, <3>3
  <2>4. PICK f : f = Content("F64", <<x>>)
    OBVIOUS
  <2>5. f.v = <<x>>
    BY <2>4 DEF Content
  <2>6. Cast(f, m) = {Given(<<x>>)}
    BY <2>1, <2>3, <2>5, CastBack
  <2>7. Given(<<x>>).v = <<x>>
    BY DEF Given
  <2> QED
    BY <1>1, <2>1, <2>2, <2>4, <2>6, <2>7
<1> QED
  BY <1>2, <1>3

(* A numeric field is decoded to its number. *)
LEMMA NumberDecoded ==
  ASSUME NEW f, f.rwf \in NumberFields, NEW x \in Int, MamaHolds(f, x),
         NEW w, Number(w) = x,
         f.rwf = "REAL" /\ f.mf \notin {"PRICE", "INTEGER"} => ~IsBlank(w) /\ w.v = <<x>>
  PROVE  DecodeFieldEntry(f, w) = {Content(ToMamaFieldType(f.mama), <<x>>)}
<1>1. PICK m, type : m = f.mama /\ type = ToMamaFieldType(m)
  OBVIOUS
<1>2. CASE AsUnits(f)
  <2>1. PICK n \in Int : x = 2 * n
    <3>1. x % 2 = 0
      BY <1>2 DEF MamaHolds
    <3>2. x = 2 * (x \div 2) /\ x \div 2 \in Int
      BY <3>1
    <3> QED
      BY <3>2
  <2>2. Truncated(x) = n
    BY <2>1, TruncatedTwice
  <2>3. m \in TextTypes \/ (type \in Numeric /\ Holds(type, 2 * n))
    BY <1>1, <1>2, <2>1 DEF MamaHolds
  <2>4. AddRsslIntToMsg(m, n) = {Content(type, <<x>>)}
    BY <1>1, <2>1, <2>3, UnitsAdded
  <2>5. f.rwf = "INT" => DecodeFieldEntry(f, w) = AddRsslIntToMsg(m, Truncated(Number(w)))
    BY <1>1, Zenon DEF DecodeFieldEntry
  <2>6. f.rwf = "UINT" => DecodeFieldEntry(f, w) = AddRsslUintToMsg(m, Truncated(Number(w)))
    BY <1>1, Zenon DEF DecodeFieldEntry
  <2>7. f.rwf = "REAL" => DecodeFieldEntry(f, w) = DecodeReal(f, w)
    BY Zenon DEF DecodeFieldEntry
  <2>8. f.mf = "INTEGER" => DecodeReal(f, w) = AddRsslIntToMsg(m, Truncated(Number(w)))
    BY <1>1, Zenon DEF DecodeReal
  <2> QED
    BY <1>1, <1>2, <2>2, <2>4, <2>5, <2>6, <2>7, <2>8 DEF AsUnits, AddRsslUintToMsg
<1>3. CASE ~AsUnits(f)
  <2>1. f.rwf \in {"FLOAT", "DOUBLE", "REAL"} /\ ~(f.rwf = "REAL" /\ f.mf = "INTEGER")
    BY <1>3 DEF AsUnits, NumberFields
  <2>2. \/ m \in TextTypes
        \/ /\ f.rwf = "REAL" => f.mf \in {"PRICE", "INTEGER"}
           /\ type \in Numeric \ {"I8", "U8"} /\ Holds(type, x)
    BY <1>1, <1>3 DEF MamaHolds
  <2>3. AddRsslFloatToMsg(m, x) = {Content(type, <<x>>)}
    BY <1>1, <2>2, FineAdded
  <2>4. f.rwf = "FLOAT" => DecodeFieldEntry(f, w) = AddRsslFloatToMsg(m, Number(w))
    BY <1>1, Zenon DEF DecodeFieldEntry
  <2>5. f.rwf = "DOUBLE" => DecodeFieldEntry(f, w) = AddRsslDoubleToMsg(m, Number(w))
    BY <1>1, Zenon DEF DecodeFieldEntry
  <2>6. f.rwf = "REAL" => DecodeFieldEntry(f, w) = DecodeReal(f, w)
    BY Zenon DEF DecodeFieldEntry
  <2>7. f.mf = "PRICE" => DecodeReal(f, w) = AddRsslDoubleToMsg(m, Number(w))
    BY <1>1, Zenon DEF DecodeReal
  <2>8. f.mf \notin {"PRICE", "INTEGER"} =>
          DecodeReal(f, w) = AddString(m, IF IsBlank(w) THEN EmptyText ELSE w.v)
    BY <1>1, Zenon DEF DecodeReal
  <2>9. ASSUME f.rwf = "REAL", f.mf \notin {"PRICE", "INTEGER"}
        PROVE  DecodeFieldEntry(f, w) = {Content(type, <<x>>)}
    <3>1. m \in TextTypes
      BY <2>2, <2>9
    <3>2. type = "STRING"
      BY <1>1, <3>1, TextType
    <3> QED
      BY <2>6, <2>8, <2>9, <3>1, <3>2 DEF AddString
  <2> QED
    BY <1>1, <2>1, <2>3, <2>4, <2>5, <2>6, <2>7, <2>9 DEF AddRsslDoubleToMsg
<1> QED
  BY <1>2, <1>3

(* A numeric field is encoded with its number. *)
LEMMA NumberEncoded ==
  ASSUME NEW f, f.rwf \in NumberFields, NEW c, IsContent(c), c.type \in Numeric, WireHolds(f, c),
         NEW w \in EncodeField(f, c)
  PROVE  \E h : w = Sent(c.v, h)
<1>1. PICK x \in Int : c.v = <<x>>
  <2>1. \A u : Lowest(u) .. Highest(u) \subseteq Int
    OBVIOUS
  <2>2. CASE c.type \in Ints
    BY <2>1, <2>2 DEF IsContent
  <2>3. CASE c.type \in Floats \cup {"PRICE"}
    BY <2>3 DEF IsContent
  <2> QED
    BY <2>2, <2>3 DEF Numeric
<1>2. c.v[1] = x
  BY <1>1
<1>3. c.type # "TIME"
  BY DEF Numeric, Ints, Floats
<1>4. ASSUME NEW t \in {"I64", "U64"}, Holds(t, x)
      PROVE  Cast(c, t) = {Given(c.v)}
  <2>1. t \in Ints /\ t \notin Floats \cup {"PRICE"}
    BY DEF Ints, Floats
  <2>2. x % 2 = 0 /\ Fits(x \div 2, t)
    BY <1>4, <2>1 DEF Holds
  <2>3. x = 2 * (x \div 2) /\ x \div 2 \in Int
    BY <2>2
  <2> QED
    BY <1>1, <2>1, <2>2, <2>3, CastBack
<1>5. Given(c.v).ok /\ Given(c.v).v = c.v
  BY DEF Given
<1>6. Each({Given(c.v)}, AsInteger) = {Sent(c.v, "whole")}
  BY <1>5 DEF Each, AsInteger
<1>7. Each({Given(c.v)}, AsFine) = {Sent(c.v, "fine")}
  BY <1>5 DEF Each, AsFine
<1>8. GetFloat(c) = {Given(c.v)}
  BY DEF GetFloat
<1>9. Holds("I64", x) => GetI64(c) = {Given(c.v)}
  BY <1>4 DEF GetI64, ToInteger
<1>10. Holds("U64", x) => GetU64(c) = {Given(c.v)}
  BY <1>3, <1>4 DEF GetU64, ToInteger
<1>11. CASE f.rwf = "INT"
  <2>1. EncodeField(f, c) = Each(GetI64(c), AsInteger)
    BY <1>11, Zenon DEF EncodeField
  <2>2. WireHolds(f, c) = Holds("I64", c.v[1])
    BY <1>11, Zenon DEF WireHolds
  <2> QED
    BY <1>2, <1>6, <1>9, <2>1, <2>2
<1>12. CASE f.rwf = "UINT"
  <2>1. EncodeField(f, c) = Each(GetU64(c), AsInteger)
    BY <1>12, Zenon DEF EncodeField
  <2>2. WireHolds(f, c) = Holds("U64", c.v[1])
    BY <1>12, Zenon DEF WireHolds
  <2> QED
    BY <1>2, <1>6, <1>10, <2>1, <2>2
<1>13. CASE f.rwf \in {"FLOAT", "DOUBLE"}
  <2>1. EncodeField(f, c) = Each(GetFloat(c), AsFine)
    BY <1>13, Zenon DEF EncodeField
  <2> QED
    BY <1>7, <1>8, <2>1
<1>14. CASE f.rwf = "REAL"
  <2>1. EncodeField(f, c) = EncodeReal(c)
    BY <1>14, Zenon DEF EncodeField
  <2>2. WireHolds(f, c) = CASE c.type = "PRICE" -> valid /\ (c.v[1] % 2 = 0 \/ HintOf(precision) = "fine")
                            [] c.type \in Ints  -> Holds("I64", c.v[1])
                            [] OTHER            -> TRUE
    BY <1>14, Zenon DEF WireHolds
  <2>3. CASE c.type = "PRICE"
    <3>1. c.type \notin Ints \cup Floats
      BY <2>3 DEF Ints, Floats
    <3>2. EncodeReal(c) = EncodePrice(c)
      BY <2>3, <3>1, Zenon DEF EncodeReal
    <3>3. valid /\ (c.v[1] % 2 = 0 \/ HintOf(precision) = "fine")
      BY <2>2, <2>3, <3>1, Zenon
    <3>4. PICK h : h = HintOf(precision)
      OBVIOUS
    <3>5. x % 2 = 0 \/ h # "whole"
      BY <1>2, <3>3, <3>4
    <3>6. Rounded(c.v, h) = {c.v}
      BY <1>2, <3>5 DEF Rounded
    <3>7. EncodePrice(c) = {Sent(c.v, h)}
      BY <3>3, <3>4, <3>6 DEF EncodePrice
    <3> QED
      BY <2>1, <3>2, <3>7
  <2>4. CASE c.type \in Ints
    <3>1. c.type # "PRICE" /\ c.type \notin Floats
      BY <2>4 DEF Ints, Floats
    <3>2. EncodeReal(c) = Each(GetI64(c), AsInteger)
      BY <2>4, <3>1, Zenon DEF EncodeReal
    <3>3. Holds("I64", c.v[1])
      BY <2>2, <2>4, <3>1, Zenon
    <3> QED
      BY <1>2, <1>6, <1>9, <2>1, <3>2, <3>3
  <2>5. CASE c.type \in Floats
    <3>1. c.type # "PRICE" /\ c.type \notin Ints
      BY <2>5 DEF Ints, Floats
    <3>2. EncodeReal(c) = Each(GetFloat(c), AsFine)
      BY <2>5, <3>1, Zenon DEF EncodeReal
    <3> QED
      BY <1>7, <1>8, <2>1, <3>2
  <2> QED
    BY <2>3, <2>4, <2>5 DEF Numeric
<1> QED
  BY <1>11, <1>12, <1>13, <1>14 DEF NumberFields

-----------------------------------------------------------------------------
(* Texts, dates and times.                                                 *)

(* An enumerated value of the table comes through. *)
LEMMA EnumCarried ==
  ASSUME NEW f, f.rwf = "ENUM", f.mama \in TextTypes, NEW c, IsContent(c),
         \/ c.type = "STRING" /\ FoundIn(c.v) # {}
         \/ c.type \in Ints /\ Truncated(c.v[1]) \in EnumTable,
         NEW w \in EncodeField(f, c)
  PROVE  /\ \E v, h : w = Sent(v, h)
         /\ DecodeFieldEntry(f, w) = {Expected(f, c)}
<1>1. EncodeField(f, c) = EncodeEnum(c)
  BY Zenon DEF EncodeField
<1>2. \A n \in EnumTable : n \in Int /\ Fits(n, "U16")
  <2>1. Lowest("U16") = 0
    BY DEF Lowest, Unsigned
  <2>2. PICK high : high = Highest("U16")
    OBVIOUS
  <2>3. \A n \in EnumTable : n \in Int /\ 0 <= n /\ n <= high
    BY <2>2, CodecAssumption
  <2> QED
    BY <2>1, <2>2, <2>3 DEF Fits
<1>3. PICK n \in EnumTable :
        /\ w = Sent(<<2 * n>>, "whole")
        /\ c.type = "STRING" => c.v = Display(n)
        /\ c.type # "STRING" => Truncated(c.v[1]) = n
  <2>1. CASE c.type = "STRING"
    <3>1. c.type \notin Ints
      BY <2>1 DEF Ints
    <3>2. EncodeEnum(c) = {Sent(<<2 * n>>, "whole") :
                             n \in IF FoundIn(c.v) # {} THEN FoundIn(c.v) ELSE Atoi(c.v)}
      BY <2>1, <3>1, Zenon DEF EncodeEnum
    <3>3. FoundIn(c.v) # {}
      BY <2>1, <3>1
    <3>4. PICK n \in FoundIn(c.v) : w = Sent(<<2 * n>>, "whole")
      BY <1>1, <3>2, <3>3
    <3> QED
      BY <2>1, <3>4 DEF FoundIn
  <2>2. CASE c.type # "STRING"
    <3>1. c.type \in Ints /\ Truncated(c.v[1]) \in EnumTable
      BY <2>2
    <3>2. EncodeEnum(c) =
            Each(Get16(c, "U16"),
                 LAMBDA v : IF Truncated(v[1]) \in EnumTable THEN AsInteger(v) ELSE Absent)
      BY <2>2, <3>1, Zenon DEF EncodeEnum
    <3>3. PICK m \in Int : c.v = <<2 * m>>
      <4>1. \A u : Lowest(u) .. Highest(u) \subseteq Int
        OBVIOUS
      <4> QED
        BY <3>1, <4>1 DEF IsContent
    <3>4. c.v[1] = 2 * m /\ Truncated(2 * m) = m
      BY <3>3, TruncatedTwice
    <3>5. m \in EnumTable /\ Fits(m, "U16")
      BY <1>2, <3>1, <3>4
    <3>6. Cast(c, "U16") = {Given(c.v)}
      BY <3>3, <3>5, CastBack DEF Ints
    <3>7. Get16(c, "U16") = {Given(c.v)}
      BY <3>1, <3>6 DEF Get16, ToInteger, Numeric
    <3>8. Given(c.v).ok /\ Given(c.v).v = c.v
      BY DEF Given
    <3>9. EncodeEnum(c) = {AsInteger(c.v)}
      BY <3>1, <3>2, <3>7, <3>8 DEF Each
    <3> QED
      BY <1>1, <2>2, <3>3, <3>4, <3>5, <3>9 DEF AsInteger
  <2> QED
    BY <2>1, <2>2
<1>4. w.v = <<2 * n>> /\ ~IsBlank(w)
  BY <1>3, SentOf
<1>5. DecodeFieldEntry(f, w) =
        AddString(f.mama, IF IsBlank(w) THEN NumberText(0) ELSE EnumText(Truncated(w.v[1])))
  BY Zenon DEF DecodeFieldEntry
<1>6. Truncated(w.v[1]) = n
  BY <1>2, <1>4, TruncatedTwice
<1>7. DecodeFieldEntry(f, w) = {Content("STRING", Display(n))}
  BY <1>4, <1>5, <1>6 DEF AddString, EnumText
<1>8. Expected(f, c) = Content("STRING", Display(n))
  <2>1. f.rwf \notin NumberFields
    BY DEF NumberFields
  <2>2. CASE c.type = "STRING"
    <3>1. Expected(f, c) = c
      BY <2>1, <2>2, Zenon DEF Expected
    <3> QED
      BY <1>3, <2>2, <3>1 DEF IsContent
  <2>3. CASE c.type # "STRING"
    <3>1. Expected(f, c) = Content("STRING", Display(Truncated(c.v[1])))
      BY <2>1, <2>3, Zenon DEF Expected
    <3> QED
      BY <1>3, <2>3, <3>1
  <2> QED
    BY <2>2, <2>3
<1> QED
  BY <1>3, <1>7, <1>8

(* A text comes through. *)
LEMMA TextCarried ==
  ASSUME NEW f, f.rwf = "ASCII", NEW c, IsContent(c), c.type = "STRING", NEW w \in EncodeField(f, c)
  PROVE  /\ \E v, h : w = Sent(v, h)
         /\ DecodeFieldEntry(f, w) = {Expected(f, c)}
<1>1. EncodeField(f, c) = Each(GetString(c), AsInteger)
  BY Zenon DEF EncodeField
<1>2. GetString(c) = {Given(c.v)} /\ Given(c.v).ok /\ Given(c.v).v = c.v
  BY DEF GetString, GetExactly, Given
<1>3. w = Sent(c.v, "whole")
  BY <1>1, <1>2 DEF Each, AsInteger
<1>4. w.v = c.v /\ ~IsBlank(w)
  BY <1>3, SentOf
<1>5. DecodeFieldEntry(f, w) = {Content("STRING", IF IsBlank(w) THEN EmptyText ELSE w.v)}
  BY Zenon DEF DecodeFieldEntry
<1>6. f.rwf \notin NumberFields
  BY DEF NumberFields
<1>7. Expected(f, c) = c
  BY <1>6, Zenon DEF Expected
<1> QED
  BY <1>3, <1>4, <1>5, <1>7 DEF IsContent

(* The day of a date comes through, with or without a time. *)
LEMMA DateCarried ==
  ASSUME NEW f, f.rwf = "DATE", NEW c, c.type = "TIME", ~asString, ToMamaFieldType(f.mama) = "TIME",
         NEW w \in EncodeField(f, c)
  PROVE  /\ w = Blank \/ \E v, h : w = Sent(v, h)
         /\ DecodeFieldEntry(f, w) = {Expected(f, c)}
<1>1. EncodeField(f, c) = Each(GetDateTime(c), EncodeDate)
  BY Zenon DEF EncodeField
<1>2. GetDateTime(c) = {Given(c.v)}
  BY Zenon DEF GetDateTime
<1>3. Given(c.v).ok /\ Given(c.v).v = c.v
  BY DEF Given
<1>4. w = EncodeDate(c.v)
  BY <1>1, <1>2, <1>3 DEF Each
<1>5. DecodeFieldEntry(f, w) = AddDate(f.mama, w)
  BY Zenon DEF DecodeFieldEntry
<1>6. f.mama \in {"TIME", "DATE_AS_TIME", "TIME_AS_TIME"} /\ f.mama \notin TextTypes
  <2>1. f.mama \in {"TIME", "DATE_AS_TIME", "TIME_AS_TIME"}
    BY MamaTypes
  <2> QED
    BY <2>1 DEF TextTypes
<1>7. AddDate(f.mama, w) = {Content("TIME", IF IsBlank(w) THEN <<None, None>> ELSE w.v)}
  BY <1>6, Zenon DEF AddDate
<1>8. f.rwf \notin NumberFields
  BY DEF NumberFields
<1>9. Expected(f, c) = Content("TIME", <<c.v[1], None>>)
  BY <1>8, Zenon DEF Expected
<1>10. CASE c.v[1] = None
  <2>1. w = Blank
    BY <1>4, <1>10 DEF EncodeDate
  <2> QED
    BY <1>5, <1>7, <1>9, <1>10, <2>1, OfBlank
<1>11. CASE c.v[1] # None
  <2>1. w = Sent(<<c.v[1], None>>, "whole")
    BY <1>4, <1>11 DEF EncodeDate
  <2>2. w.v = <<c.v[1], None>> /\ ~IsBlank(w)
    BY <2>1, SentOf
  <2> QED
    BY <1>5, <1>7, <1>9, <2>1, <2>2
<1> QED
  BY <1>10, <1>11

(* The time of a day comes through. *)
LEMMA TimeCarried ==
  ASSUME NEW f, f.rwf = "TIME", NEW c, c.type = "TIME", ~asString,
         f.mama \in {"TIME", "TIME_AS_TIME"}, NEW w \in EncodeField(f, c)
  PROVE  /\ w = Blank \/ \E v, h : w = Sent(v, h)
         /\ DecodeFieldEntry(f, w) = {Expected(f, c)}
<1>1. EncodeField(f, c) = Each(GetDateTime(c), EncodeTime)
  BY Zenon DEF EncodeField
<1>2. GetDateTime(c) = {Given(c.v)}
  BY Zenon DEF GetDateTime
<1>3. Given(c.v).ok /\ Given(c.v).v = c.v
  BY DEF Given
<1>4. w = EncodeTime(c.v)
  BY <1>1, <1>2, <1>3 DEF Each
<1>5. DecodeFieldEntry(f, w) = AddTime(f.mama, w)
  BY Zenon DEF DecodeFieldEntry
<1>6. f.mama \notin TextTypes
  BY DEF TextTypes
<1>7. AddTime(f.mama, w) = {Content("TIME", IF IsBlank(w) THEN <<None, None>> ELSE w.v)}
  BY <1>6, Zenon DEF AddTime
<1>8. f.rwf \notin NumberFields
  BY DEF NumberFields
<1>9. Expected(f, c) = Content("TIME", <<None, c.v[2]>>)
  BY <1>8, Zenon DEF Expected
<1>10. CASE c.v[2] = None
  <2>1. w = Blank
    BY <1>4, <1>10 DEF EncodeTime
  <2> QED
    BY <1>5, <1>7, <1>9, <1>10, <2>1, OfBlank
<1>11. CASE c.v[2] # None
  <2>1. w = Sent(<<None, c.v[2]>>, "whole")
    BY <1>4, <1>11 DEF EncodeTime
  <2>2. w.v = <<None, c.v[2]>> /\ ~IsBlank(w)
    BY <2>1, SentOf
  <2> QED
    BY <1>5, <1>7, <1>9, <2>1, <2>2
<1> QED
  BY <1>10, <1>11

(* What the wire and the field map can both carry arrives. *)
LEMMA CarriedArrives ==
  ASSUME NEW f, NEW c, IsContent(c), Carried(f, c), NEW w \in EncodeField(f, c)
  PROVE  /\ w \notin {Refusal, Absent, Dropped}
         /\ DecodeFieldEntry(f, w) = {Expected(f, c)}
<1>1. CASE f.rwf \in NumberFields
  <2>0. f.rwf \notin {"ENUM", "ASCII", "DATE", "TIME"}
    BY <1>1 DEF NumberFields
  <2>1. c.type \in Numeric /\ WireHolds(f, c) /\ MamaHolds(f, c.v[1])
    <3>1. Carried(f, c) = (c.type \in Numeric /\ WireHolds(f, c) /\ MamaHolds(f, c.v[1]))
      BY <1>1, <2>0, Zenon DEF Carried
    <3> QED
      BY <3>1
  <2>2. PICK h : w = Sent(c.v, h)
    BY <1>1, <2>1, NumberEncoded
  <2>3. PICK x \in Int : c.v = <<x>>
    <3>1. \A u : Lowest(u) .. Highest(u) \subseteq Int
      OBVIOUS
    <3>2. CASE c.type \in Ints
      BY <3>1, <3>2 DEF IsContent
    <3>3. CASE c.type \in Floats \cup {"PRICE"}
      BY <3>3 DEF IsContent
    <3> QED
      BY <2>1, <3>2, <3>3 DEF Numeric
  <2>4. w.v = <<x>> /\ ~IsBlank(w) /\ w \notin {Refusal, Absent, Dropped}
    BY <2>2, <2>3, SentOf
  <2>5. Number(w) = x /\ c.v[1] = x
    BY <2>3, <2>4 DEF Number
  <2>6. DecodeFieldEntry(f, w) = {Content(ToMamaFieldType(f.mama), <<x>>)}
    BY <1>1, <2>1, <2>4, <2>5, NumberDecoded
  <2>7. Expected(f, c) = Content(ToMamaFieldType(f.mama), c.v)
    BY <1>1, <2>0, Zenon DEF Expected
  <2> QED
    BY <2>3, <2>4, <2>6, <2>7
<1>2. CASE f.rwf \notin NumberFields
  <2>1. f.rwf = "ENUM" =>
          Carried(f, c) = (/\ f.mama \in TextTypes
                           /\ \/ c.type = "STRING" /\ FoundIn(c.v) # {}
                              \/ c.type \in Ints /\ Truncated(c.v[1]) \in EnumTable)
    BY <1>2, Zenon DEF Carried
  <2>2. f.rwf = "ASCII" => Carried(f, c) = (c.type = "STRING")
    BY <1>2, Zenon DEF Carried
  <2>3. f.rwf = "DATE" => Carried(f, c) = (c.type = "TIME" /\ ~asString /\ ToMamaFieldType(f.mama) = "TIME")
    BY <1>2, Zenon DEF Carried
  <2>4. f.rwf = "TIME" => Carried(f, c) = (c.type = "TIME" /\ ~asString /\ f.mama \in {"TIME", "TIME_AS_TIME"})
    BY <1>2, Zenon DEF Carried
  <2>5. f.rwf \notin {"ENUM", "ASCII", "DATE", "TIME"} => Carried(f, c) = FALSE
    BY <1>2, Zenon DEF Carried
  <2>6. CASE f.rwf = "ENUM"
    <3>1. (\E v, h : w = Sent(v, h)) /\ DecodeFieldEntry(f, w) = {Expected(f, c)}
      BY <2>1, <2>6, EnumCarried
    <3> QED
      BY <3>1, SentOf
  <2>7. CASE f.rwf = "ASCII"
    <3>1. (\E v, h : w = Sent(v, h)) /\ DecodeFieldEntry(f, w) = {Expected(f, c)}
      BY <2>2, <2>7, TextCarried
    <3> QED
      BY <3>1, SentOf
  <2>8. CASE f.rwf = "DATE"
    <3>1. (w = Blank \/ \E v, h : w = Sent(v, h)) /\ DecodeFieldEntry(f, w) = {Expected(f, c)}
      BY <2>3, <2>8, DateCarried
    <3> QED
      BY <3>1, SentOf, OfBlank
  <2>9. CASE f.rwf = "TIME"
    <3>1. (w = Blank \/ \E v, h : w = Sent(v, h)) /\ DecodeFieldEntry(f, w) = {Expected(f, c)}
      BY <2>4, <2>9, TimeCarried
    <3> QED
      BY <3>1, SentOf, OfBlank
  <2> QED
    BY <2>5, <2>6, <2>7, <2>8, <2>9
<1> QED
  BY <1>1, <1>2

-----------------------------------------------------------------------------
(* What the feed sends.                                                    *)

(* The natural type of each numeric RSSL type. *)
LEMMA NaturalType ==
  ASSUME NEW rwf, NEW mf
  PROVE  /\ rwf = "INT" => UpaToMamaFieldType(rwf, mf) = "I64"
         /\ rwf = "UINT" => UpaToMamaFieldType(rwf, mf) = "U64"
         /\ rwf = "FLOAT" => UpaToMamaFieldType(rwf, mf) = "F32"
         /\ rwf = "DOUBLE" => UpaToMamaFieldType(rwf, mf) = "F64"
         /\ rwf = "REAL" /\ mf = "PRICE" => UpaToMamaFieldType(rwf, mf) = "PRICE"
         /\ rwf = "REAL" /\ mf = "INTEGER" => UpaToMamaFieldType(rwf, mf) = "I64"
         /\ rwf = "REAL" /\ mf \notin {"PRICE", "INTEGER"} => UpaToMamaFieldType(rwf, mf) = "STRING"
         /\ rwf = "ENUM" => UpaToMamaFieldType(rwf, mf) = "ENUM_AS_STRING"
         /\ rwf = "DATE" => UpaToMamaFieldType(rwf, mf) = "DATE_AS_TIME"
         /\ rwf = "TIME" => UpaToMamaFieldType(rwf, mf) = "TIME_AS_TIME"
         /\ rwf = "DATETIME" => UpaToMamaFieldType(rwf, mf) = "TIME"
         /\ rwf = "ASCII" => UpaToMamaFieldType(rwf, mf) = "STRING"
         /\ rwf \notin NumberFields \cup {"ENUM", "DATE", "TIME", "DATETIME", "ASCII"} =>
              UpaToMamaFieldType(rwf, mf) \in {"OPAQUE", "UNKNOWN"}
<1>1. rwf = "INT" => UpaToMamaFieldType(rwf, mf) = "I64"
  BY Zenon DEF UpaToMamaFieldType
<1>2. rwf = "UINT" => UpaToMamaFieldType(rwf, mf) = "U64"
  BY Zenon DEF UpaToMamaFieldType
<1>3. rwf = "FLOAT" => UpaToMamaFieldType(rwf, mf) = "F32"
  BY Zenon DEF UpaToMamaFieldType
<1>4. rwf = "DOUBLE" => UpaToMamaFieldType(rwf, mf) = "F64"
  BY Zenon DEF UpaToMamaFieldType
<1>5. rwf = "REAL" => UpaToMamaFieldType(rwf, mf) = CASE mf = "PRICE"   -> "PRICE"
                                                      [] mf = "INTEGER" -> "I64"
                                                      [] OTHER          -> "STRING"
  BY Zenon DEF UpaToMamaFieldType
<1>6. rwf = "REAL" /\ mf = "PRICE" => UpaToMamaFieldType(rwf, mf) = "PRICE"
  BY <1>5, Zenon
<1>7. rwf = "REAL" /\ mf = "INTEGER" => UpaToMamaFieldType(rwf, mf) = "I64"
  BY <1>5, Zenon
<1>8. rwf = "REAL" /\ mf \notin {"PRICE", "INTEGER"} => UpaToMamaFieldType(rwf, mf) = "STRING"
  BY <1>5, Zenon
<1>9. rwf = "ENUM" => UpaToMamaFieldType(rwf, mf) = "ENUM_AS_STRING"
  BY Zenon DEF UpaToMamaFieldType
<1>10. rwf = "DATE" => UpaToMamaFieldType(rwf, mf) = "DATE_AS_TIME"
  BY Zenon DEF UpaToMamaFieldType
<1>11. rwf = "TIME" => UpaToMamaFieldType(rwf, mf) = "TIME_AS_TIME"
  BY Zenon DEF UpaToMamaFieldType
<1>12. rwf = "DATETIME" => UpaToMamaFieldType(rwf, mf) = "TIME"
  BY Zenon DEF UpaToMamaFieldType
<1>13. rwf = "ASCII" => UpaToMamaFieldType(rwf, mf) = "STRING"
  BY Zenon DEF UpaToMamaFieldType
<1>14. rwf = "BUFFER" => UpaToMamaFieldType(rwf, mf) = "OPAQUE"
  BY Zenon DEF UpaToMamaFieldType
<1>15. rwf \notin {"BUFFER", "INT", "UINT", "FLOAT", "DOUBLE", "REAL", "ENUM", "DATE", "TIME", "DATETIME", "ASCII"} =>
         UpaToMamaFieldType(rwf, mf) = "UNKNOWN"
  BY Zenon DEF UpaToMamaFieldType
<1> QED
  BY <1>1, <1>2, <1>3, <1>4, <1>6, <1>7, <1>8, <1>9, <1>10, <1>11, <1>12, <1>13, <1>14, <1>15
     DEF NumberFields

(* A number of the feed arrives in the natural type of its field. *)
LEMMA FedNumber ==
  ASSUME NEW f, f.rwf \in NumberFields, ~(f.rwf = "REAL" /\ f.mf \notin {"PRICE", "INTEGER"}),
         f.mama = UpaToMamaFieldType(f.rwf, f.mf), NEW w \in FeedValues(f)
  PROVE  DecodeFieldEntry(f, w) = {FeedExpected(f, w)}
<1>1. PICK m, type : m = f.mama /\ type = ToMamaFieldType(m)
  OBVIOUS
<1>2. /\ AsUnits(f) <=> (f.rwf \in {"INT", "UINT"} \/ (f.rwf = "REAL" /\ f.mf = "INTEGER"))
      /\ f.rwf = "REAL" => f.mf \in {"PRICE", "INTEGER"}
  BY DEF AsUnits
<1>3. /\ AsUnits(f) => m = (IF f.rwf = "UINT" THEN "U64" ELSE "I64")
      /\ ~AsUnits(f) => m \in Floats \cup {"PRICE"}
  BY <1>1, <1>2, NaturalType DEF NumberFields, Floats
<1>4. type = m /\ m \notin TextTypes /\ m # "TIME"
  BY <1>1, <1>3, MamaTypes DEF Floats, TextTypes
<1>5. PICK x \in Int : /\ Number(w) = x /\ (~IsBlank(w) => w.v = <<x>>)
                       /\ IsBlank(w) => x = 0
                       /\ AsUnits(f) => Holds(m, x) /\ x % 2 = 0
  <2>1. CASE w = Blank
    <3>1. IsBlank(w) /\ Number(w) = 0
      BY <2>1, OfBlank DEF Number
    <3>2. AsUnits(f) => Holds(m, 0) /\ 0 % 2 = 0
      <4>1. ASSUME NEW t \in {"I64", "U64"} PROVE Fits(0, t)
        <5>1. PICK s \in Nat \ {0} : s = Spans[64]
          BY ValuesAssumption
        <5>2. Span(t) = s
          BY <5>1, Zenon DEF Span
        <5>3. s \div 2 \in Nat /\ s \div 2 < s
          OBVIOUS
        <5> QED
          BY <5>2, <5>3 DEF Fits, Lowest, Highest
      <4>2. 0 % 2 = 0 /\ 0 \div 2 = 0
        OBVIOUS
      <4>3. AsUnits(f) => m \in {"I64", "U64"} /\ m \notin Floats \cup {"PRICE"}
        BY <1>3 DEF Floats
      <4> QED
        BY <4>1, <4>2, <4>3 DEF Holds
    <3> QED
      BY <3>1, <3>2
  <2>2. CASE w # Blank
    <3>1. FedAs(f, w)
      BY <2>2, FeedSends
    <3>2. CASE f.rwf \in {"INT", "UINT"}
      <4>1. PICK n \in Units(f.rwf) : w = Sent(<<2 * n>>, "whole")
        BY <3>1, <3>2 DEF FedAs
      <4>2. Units(f.rwf) = Lowest(m) .. Highest(m)
        <5>1. CASE f.rwf = "INT"
          <6>1. Units(f.rwf) = Lowest("I64") .. Highest("I64")
            BY <5>1, Zenon DEF Units
          <6> QED
            BY <1>2, <1>3, <5>1, <6>1
        <5>2. CASE f.rwf = "UINT"
          <6>1. Units(f.rwf) = 0 .. Highest("U64")
            BY <5>2, Zenon DEF Units
          <6>2. Lowest("U64") = 0
            BY DEF Lowest, Unsigned
          <6> QED
            BY <1>2, <1>3, <5>2, <6>1, <6>2
        <5> QED
          BY <3>2, <5>1, <5>2
      <4>3. PICK low, high : low = Lowest(m) /\ high = Highest(m)
        OBVIOUS
      <4>4. n \in Int /\ low <= n /\ n <= high
        BY <4>2, <4>3
      <4>5. Fits(n, m) /\ (2 * n) % 2 = 0 /\ (2 * n) \div 2 = n /\ 2 * n \in Int
        BY <4>3, <4>4 DEF Fits
      <4>6. Holds(m, 2 * n)
        BY <4>5 DEF Holds
      <4>7. w.v = <<2 * n>> /\ ~IsBlank(w)
        BY <4>1, SentOf
      <4> QED
        BY <4>5, <4>6, <4>7 DEF Number
    <3>3. CASE f.rwf \in {"FLOAT", "DOUBLE"}
      <4>1. PICK x \in Decimals : w = Sent(<<x>>, "fine")
        BY <3>1, <3>3 DEF FedAs
      <4>2. w.v = <<x>> /\ ~IsBlank(w) /\ x \in Int
        BY <4>1, SentOf, CodecAssumption
      <4> QED
        BY <1>2, <3>3, <4>2 DEF Number
    <3>4. CASE f.rwf = "REAL"
      <4>1. PICK x \in Decimals : (f.mf = "INTEGER" => Holds("I64", x)) /\ w = Sent(<<x>>, "fine")
        BY <3>1, <3>4 DEF FedAs
      <4>2. w.v = <<x>> /\ ~IsBlank(w) /\ x \in Int
        BY <4>1, SentOf, CodecAssumption
      <4>3. Holds("I64", x) => x % 2 = 0
        BY DEF Holds, Floats
      <4> QED
        BY <1>2, <1>3, <3>4, <4>1, <4>2, <4>3 DEF Number
    <3> QED
      BY <3>2, <3>3, <3>4 DEF NumberFields
  <2> QED
    BY <2>1, <2>2
<1>6. type \in Numeric \ (IF AsUnits(f) THEN {} ELSE {"I8", "U8"})
  BY <1>3, <1>4 DEF Numeric, Ints, Floats
<1>7. Holds(type, x)
  BY <1>3, <1>4, <1>5 DEF Holds
<1>8. MamaHolds(f, x)
  BY <1>1, <1>2, <1>5, <1>6, <1>7 DEF MamaHolds
<1>9. DecodeFieldEntry(f, w) = {Content(type, <<x>>)}
  BY <1>1, <1>2, <1>5, <1>8, NumberDecoded
<1>10. type \in Numeric /\ type # "TIME" /\ f.rwf # "ENUM"
  BY <1>4, <1>6 DEF NumberFields
<1>11. BlankOf(type) = <<0>>
  BY <1>10, Zenon DEF BlankOf
<1> QED
  BY <1>1, <1>5, <1>9, <1>10, <1>11 DEF FeedExpected

(* So does what is no number. *)
LEMMA FedOther ==
  ASSUME NEW f, f.mama = UpaToMamaFieldType(f.rwf, f.mf), ~asString, NEW w \in FeedValues(f),
         f.rwf = "DATETIME" /\ ~IsBlank(w) => w.v[2] # None,
         \/ f.rwf \in {"ENUM", "DATE", "TIME", "DATETIME", "ASCII"}
         \/ f.rwf = "REAL" /\ f.mf \notin {"PRICE", "INTEGER"}
  PROVE  DecodeFieldEntry(f, w) = {FeedExpected(f, w)}
<1>1. PICK m, type : m = f.mama /\ type = ToMamaFieldType(m)
  OBVIOUS
<1>2. f.rwf \in {"ENUM", "REAL", "ASCII"} => type = "STRING" /\ (f.rwf # "ASCII" => m \in TextTypes)
  BY <1>1, NaturalType, MamaTypes DEF TextTypes
<1>3. f.rwf \in {"DATE", "TIME", "DATETIME"} => type = "TIME" /\ m \notin TextTypes
  BY <1>1, NaturalType, MamaTypes DEF TextTypes
<1>4. BlankOf("STRING") = EmptyText
  <2>1. "STRING" \notin Numeric
    BY DEF Numeric, Ints, Floats
  <2> QED
    BY <2>1, Zenon DEF BlankOf
<1>5. BlankOf("TIME") = <<None, None>>
  <2>1. "TIME" \notin Numeric
    BY DEF Numeric, Ints, Floats
  <2> QED
    BY <2>1, Zenon DEF BlankOf
<1>6. f.rwf # "ENUM" => FeedExpected(f, w) = Content(type, IF IsBlank(w) THEN BlankOf(type) ELSE w.v)
  BY <1>1 DEF FeedExpected
<1>7. CASE f.rwf = "ENUM"
  <2>1. DecodeFieldEntry(f, w) =
          AddString(m, IF IsBlank(w) THEN NumberText(0) ELSE EnumText(Truncated(w.v[1])))
    BY <1>1, <1>7, Zenon DEF DecodeFieldEntry
  <2> QED
    BY <1>1, <1>2, <1>7, <2>1 DEF AddString, FeedExpected, EnumShown
<1>8. CASE f.rwf = "REAL"
  <2>1. DecodeFieldEntry(f, w) = DecodeReal(f, w)
    BY <1>8, Zenon DEF DecodeFieldEntry
  <2>2. f.mf \notin {"PRICE", "INTEGER"}
    BY <1>8
  <2>3. DecodeReal(f, w) = AddString(m, IF IsBlank(w) THEN EmptyText ELSE w.v)
    BY <1>1, <2>2, Zenon DEF DecodeReal
  <2> QED
    BY <1>2, <1>4, <1>6, <1>8, <2>1, <2>3 DEF AddString
<1>9. CASE f.rwf = "ASCII"
  <2>1. DecodeFieldEntry(f, w) = {Content("STRING", IF IsBlank(w) THEN EmptyText ELSE w.v)}
    BY <1>9, Zenon DEF DecodeFieldEntry
  <2> QED
    BY <1>2, <1>4, <1>6, <1>9, <2>1
<1>10. CASE f.rwf = "DATE"
  <2>1. DecodeFieldEntry(f, w) = AddDate(m, w)
    BY <1>1, <1>10, Zenon DEF DecodeFieldEntry
  <2>2. m \in {"TIME", "DATE_AS_TIME", "TIME_AS_TIME"}
    BY <1>1, <1>10, NaturalType
  <2>3. AddDate(m, w) = {Content("TIME", IF IsBlank(w) THEN <<None, None>> ELSE w.v)}
    BY <1>3, <1>10, <2>2, Zenon DEF AddDate
  <2> QED
    BY <1>3, <1>5, <1>6, <1>10, <2>1, <2>3
<1>11. CASE f.rwf = "TIME"
  <2>1. DecodeFieldEntry(f, w) = AddTime(m, w)
    BY <1>1, <1>11, Zenon DEF DecodeFieldEntry
  <2>2. m \in {"TIME", "TIME_AS_TIME"}
    BY <1>1, <1>11, NaturalType
  <2>3. AddTime(m, w) = {Content("TIME", IF IsBlank(w) THEN <<None, None>> ELSE w.v)}
    BY <1>3, <1>11, <2>2, Zenon DEF AddTime
  <2> QED
    BY <1>3, <1>5, <1>6, <1>11, <2>1, <2>3
<1>12. CASE f.rwf = "DATETIME"
  <2>1. DecodeFieldEntry(f, w) = AddDateTime(m, w)
    BY <1>1, <1>12, Zenon DEF DecodeFieldEntry
  <2>2. m \in {"TIME", "DATE_AS_TIME"}
    BY <1>1, <1>12, NaturalType
  <2>3. CASE IsBlank(w)
    <3>1. AddDateTime(m, w) = {Content("TIME", <<None, None>>)}
      BY <1>3, <1>12, <2>2, <2>3, ZenonT(60) DEF AddDateTime
    <3> QED
      BY <1>3, <1>5, <1>6, <1>12, <2>1, <2>3, <3>1
  <2>4. CASE ~IsBlank(w)
    <3>1. w.v[2] # None
      BY <1>12, <2>4
    <3>2. AddDateTime(m, w) = {Content("TIME", w.v)}
      BY <1>3, <1>12, <2>2, <2>4, <3>1, ZenonT(60) DEF AddDateTime
    <3> QED
      BY <1>3, <1>6, <1>12, <2>1, <2>4, <3>2
  <2> QED
    BY <2>3, <2>4
<1> QED
  BY <1>7, <1>8, <1>9, <1>10, <1>11, <1>12

(* The invariant gives what is promised of values. *)
LEMMA ArrivesThen == CodecInv => ValueArrives
<1> SUFFICES ASSUME CodecInv PROVE ValueArrives
  OBVIOUS
<1>1. ASSUME published # FromFeed, Carried(field, published), wire # NotEncoded
      PROVE  /\ wire = Dropped <=> beside = "refused"
             /\ decoded => received = {Expected(field, published)}
             /\ wire # Absent
  <2>1. published \in Published /\ IsContent(published)
    BY <1>1, CodecAssumption DEF CodecInv
  <2>2. PICK w \in EncodeField(field, published) :
          wire = IF w = Refusal \/ beside = "refused" THEN Dropped ELSE w
    BY <1>1 DEF CodecInv, WayOut
  <2>3. /\ w \notin {Refusal, Absent, Dropped}
        /\ DecodeFieldEntry(field, w) = {Expected(field, published)}
    BY <1>1, <2>1, CarriedArrives
  <2>4. Dropped.is = "dropped" /\ Absent.is = "left out"
    BY DEF Dropped, Absent, NoValue
  <2>5. ASSUME decoded PROVE received = {Expected(field, published)}
    <3>1. /\ wire.is \in {"value", "blank"}
          /\ IF DecodeFieldEntry(field, wire) = {} THEN received = {}
             ELSE \E c \in DecodeFieldEntry(field, wire) : received = {c}
      BY <2>5 DEF CodecInv
    <3>2. wire = w
      BY <2>2, <2>4, <3>1
    <3> QED
      BY <2>3, <3>1, <3>2
  <2> QED
    BY <2>2, <2>3, <2>4, <2>5
<1>2. ASSUME published = FromFeed, field.mama = UpaToMamaFieldType(field.rwf, field.mf),
             field.mama \notin {"OPAQUE", "UNKNOWN"}, ~asString, decoded,
             field.rwf = "DATETIME" /\ ~IsBlank(wire) => wire.v[2] # None
      PROVE  received = {FeedExpected(field, wire)}
  <2>1. wire \in FeedValues(field)
    <3>1. published \notin Published
      <4>1. published.type = "UNKNOWN"
        BY <1>2 DEF FromFeed, Content
      <4>2. "UNKNOWN" \notin Kinds
        BY DEF Kinds, Numeric, Ints, Floats
      <4> QED
        BY <4>1, <4>2, CodecAssumption DEF IsContent
    <3> QED
      BY <3>1 DEF CodecInv
  <2>2. DecodeFieldEntry(field, wire) = {FeedExpected(field, wire)}
    <3>1. field.rwf \in NumberFields \cup {"ENUM", "DATE", "TIME", "DATETIME", "ASCII"}
      BY <1>2, NaturalType
    <3>2. CASE \/ field.rwf \in {"ENUM", "DATE", "TIME", "DATETIME", "ASCII"}
               \/ field.rwf = "REAL" /\ field.mf \notin {"PRICE", "INTEGER"}
      BY <1>2, <2>1, <3>2, FedOther
    <3>3. CASE field.rwf \in NumberFields /\ ~(field.rwf = "REAL" /\ field.mf \notin {"PRICE", "INTEGER"})
      BY <1>2, <2>1, <3>3, FedNumber
    <3> QED
      BY <3>1, <3>2, <3>3
  <2> QED
    BY <1>2, <2>2 DEF CodecInv
<1> QED
  BY <1>1, <1>2 DEF ValueArrives

(* A value that both types of its field can hold is encoded, sent and      *)
(* decoded unchanged, and what the feed sends arrives in the natural type  *)
(* of its field, for integer types of every width (UPAFieldEncoder,        *)
(* UPAFieldDecoder).                                                       *)
THEOREM ArrivesUnchanged == CodecSpec => []ValueArrives
<1>1. CodecSpec => []CodecInv
  BY CodecInvariance
<1>2. CodecInv => ValueArrives
  BY ArrivesThen
<1> QED
  BY <1>1, <1>2, PTL

-----------------------------------------------------------------------------
(* What a client makes of the level messages, one after the other.         *)

PriceLevels == PointSides \X PointPrices
LevelBooks == UNION {[S -> PointSizes] : S \in SUBSET PriceLevels}
Changes == {e \in [act : {"A", "U", "D"}, side : PointSides, price : PointPrices,
                   size : PointSizes \cup {0}] :
              e.act # "D" => e.size \in PointSizes}

(* What it is to be a book of price levels. *)
LEMMA LevelBook ==
  ASSUME NEW b
  PROVE  b \in LevelBooks <=> /\ b = [x \in DOMAIN b |-> b[x]]
                              /\ DOMAIN b \subseteq PriceLevels
                              /\ \A x \in DOMAIN b : b[x] \in PointSizes
<1>1. ASSUME b \in LevelBooks
      PROVE  /\ b = [x \in DOMAIN b |-> b[x]]
             /\ DOMAIN b \subseteq PriceLevels
             /\ \A x \in DOMAIN b : b[x] \in PointSizes
  <2>1. PICK S \in SUBSET PriceLevels : b \in [S -> PointSizes]
    BY <1>1 DEF LevelBooks
  <2> QED
    BY <2>1
<1>2. ASSUME b = [x \in DOMAIN b |-> b[x]], DOMAIN b \in SUBSET PriceLevels,
             \A x \in DOMAIN b : b[x] \in PointSizes
      PROVE  b \in LevelBooks
  <2>1. b \in [DOMAIN b -> PointSizes]
    BY <1>2
  <2> QED
    BY <1>2, <2>1 DEF LevelBooks
<1> QED
  BY <1>1, <1>2

(* A change is at its own level and leaves the others. *)
LEMMA LevelToldOf ==
  ASSUME NEW b \in LevelBooks, NEW e \in Changes
  PROVE  /\ LevelTold(b, e) \in LevelBooks
         /\ e.act = "D" => /\ DOMAIN LevelTold(b, e) = DOMAIN b \ {Where(e)}
                           /\ \A k \in DOMAIN b \ {Where(e)} : LevelTold(b, e)[k] = b[k]
         /\ e.act # "D" => /\ DOMAIN LevelTold(b, e) = DOMAIN b \cup {Where(e)}
                           /\ LevelTold(b, e)[Where(e)] = e.size
                           /\ \A k \in DOMAIN b \ {Where(e)} : LevelTold(b, e)[k] = b[k]
<1>1. PICK t, w : t = LevelTold(b, e) /\ w = Where(e)
  OBVIOUS
<1>2. w \in PriceLevels /\ (e.act # "D" => e.size \in PointSizes)
  BY <1>1 DEF Changes, Where, PriceLevels
<1>3. /\ b = [x \in DOMAIN b |-> b[x]] /\ DOMAIN b \subseteq PriceLevels
      /\ \A x \in DOMAIN b : b[x] \in PointSizes
  BY LevelBook
<1>4. CASE e.act = "D"
  <2>1. t = [k \in DOMAIN b \ {w} |-> b[k]]
    BY <1>1, <1>4 DEF LevelTold, Without
  <2>2. t = [x \in DOMAIN t |-> t[x]] /\ DOMAIN t = DOMAIN b \ {w}
    BY <2>1
  <2>3. t \in LevelBooks
    BY <1>3, <2>1, <2>2, LevelBook
  <2> QED
    BY <1>1, <1>4, <2>1, <2>3
<1>5. CASE e.act # "D"
  <2>1. t = [x \in DOMAIN b \cup {w} |-> IF x = w THEN e.size ELSE b[x]]
    BY <1>1, <1>5 DEF LevelTold, With
  <2>2. t = [x \in DOMAIN t |-> t[x]] /\ DOMAIN t = DOMAIN b \cup {w}
    BY <2>1
  <2>3. t \in LevelBooks
    BY <1>2, <1>3, <1>5, <2>1, <2>2, LevelBook
  <2> QED
    BY <1>1, <1>5, <2>1, <2>3
<1> QED
  BY <1>4, <1>5

Applied(g, es) == \A i \in 1 .. Len(es) : g[i] = LevelTold(g[i - 1], es[i])

(* The changes of a message are applied one after the other. *)
LEMMA MessageApplied ==
  ASSUME NEW b \in LevelBooks, NEW es \in Seq(Changes)
  PROVE  \E g \in [0 .. Len(es) -> LevelBooks] :
           g[0] = b /\ Applied(g, es) /\ BuildPriceMessage(b, es) = g[Len(es)]
<1>1. PICK n \in Nat : n = Len(es)
  OBVIOUS
<1>2. \A i \in 1 .. n : es[i] \in Changes
  BY <1>1
<1>3. PICK step : step = [x \in (1 .. n) \X LevelBooks |-> LevelTold(x[2], es[x[1]])]
  OBVIOUS
<1>4. step \in Steps(n, LevelBooks)
  BY <1>2, <1>3, LevelToldOf DEF Steps
<1>5. PICK g \in [0 .. n -> LevelBooks] :
        g[0] = b /\ \A i \in 1 .. n : g[i] = step[<<i, g[i - 1]>>]
  <2>1. PICK h : Run(h, n, LevelBooks, b, step)
    BY <1>1, <1>4, StepsExist
  <2> QED
    BY <2>1 DEF Run
<1>6. \A i \in 1 .. n : g[i - 1] \in LevelBooks /\ g[i] = LevelTold(g[i - 1], es[i])
  <2> TAKE i \in 1 .. n
  <2>1. g[i - 1] \in LevelBooks
    BY <1>5
  <2>2. PICK x : x = <<i, g[i - 1]>>
    OBVIOUS
  <2>3. x \in (1 .. n) \X LevelBooks /\ x[1] = i /\ x[2] = g[i - 1]
    BY <2>1, <2>2
  <2>4. step[x] = LevelTold(x[2], es[x[1]])
    BY <1>3, <2>3
  <2> QED
    BY <1>5, <2>1, <2>2, <2>3, <2>4
<1>7. g = [i \in 0 .. n |-> IF i = 0 THEN b ELSE LevelTold(g[i - 1], es[i])]
  <2>1. \A i \in 0 .. n : g[i] = IF i = 0 THEN b ELSE LevelTold(g[i - 1], es[i])
    BY <1>5, <1>6
  <2> QED
    BY <1>5, <2>1
<1>8. PICK h : /\ h = [i \in 0 .. n |-> IF i = 0 THEN b ELSE LevelTold(h[i - 1], es[i])]
               /\ BuildPriceMessage(b, es) = h[n]
  BY <1>1, <1>7 DEF BuildPriceMessage
<1>9. /\ h[0] = b
      /\ \A i \in 1 .. n : h[i] = LevelTold(h[i - 1], es[i])
  BY <1>8
<1>10. \A i \in 0 .. n : g[i] = h[i]
  <2> DEFINE S == {i \in 0 .. n : g[i] = h[i]}
  <2>1. 0 \in S
    BY <1>5, <1>9
  <2>2. ASSUME NEW i \in 0 .. n - 1, i \in S
        PROVE  i + 1 \in S
    <3>1. i + 1 \in 1 .. n /\ (i + 1) - 1 = i /\ g[i] = h[i]
      BY <2>2
    <3>2. g[i + 1] = LevelTold(g[i], es[i + 1]) /\ h[i + 1] = LevelTold(h[i], es[i + 1])
      BY <1>6, <1>9, <3>1
    <3> QED
      BY <3>1, <3>2
  <2> HIDE DEF S
  <2>3. \A i \in 0 .. n : i \in S
    BY <2>1, <2>2, UpTo
  <2> QED
    BY <2>3 DEF S
<1>11. BuildPriceMessage(b, es) = g[n]
  BY <1>8, <1>10
<1> QED
  BY <1>1, <1>5, <1>6, <1>11 DEF Applied

(* A message without changes leaves the book. *)
LEMMA EmptyMessage ==
  ASSUME NEW b \in LevelBooks
  PROVE  BuildPriceMessage(b, << >>) = b
<1>1. PICK es : es = << >>
  OBVIOUS
<1>2. es \in Seq(Changes) /\ Len(es) = 0
  BY <1>1
<1>3. \E g \in [0 .. Len(es) -> LevelBooks] :
        g[0] = b /\ Applied(g, es) /\ BuildPriceMessage(b, es) = g[Len(es)]
  BY <1>2, MessageApplied
<1> QED
  BY ONLY <1>1, <1>2, <1>3

(* One more change is applied to what the others made. *)
LEMMA LongerMessage ==
  ASSUME NEW b \in LevelBooks, NEW es \in Seq(Changes), NEW e \in Changes
  PROVE  /\ BuildPriceMessage(b, es) \in LevelBooks
         /\ BuildPriceMessage(b, Append(es, e)) = LevelTold(BuildPriceMessage(b, es), e)
<1>1. PICK n, more : n = Len(es) /\ more = Append(es, e)
  OBVIOUS
<1>2. /\ n \in Nat /\ more \in Seq(Changes) /\ Len(more) = n + 1 /\ more[n + 1] = e
      /\ \A i \in 1 .. n : more[i] = es[i]
  BY <1>1
<1>3. PICK g \in [0 .. n -> LevelBooks] :
        g[0] = b /\ Applied(g, es) /\ BuildPriceMessage(b, es) = g[n]
  BY <1>1, MessageApplied
<1>4. PICK h \in [0 .. n + 1 -> LevelBooks] :
        h[0] = b /\ Applied(h, more) /\ BuildPriceMessage(b, more) = h[n + 1]
  <2>1. \E h \in [0 .. Len(more) -> LevelBooks] :
           h[0] = b /\ Applied(h, more) /\ BuildPriceMessage(b, more) = h[Len(more)]
    BY <1>2, MessageApplied
  <2>2. Len(more) = n + 1
    BY <1>2
  <2> QED
    BY <2>1, <2>2
<1>5. /\ \A i \in 1 .. n : g[i] = LevelTold(g[i - 1], es[i])
      /\ \A i \in 1 .. n + 1 : h[i] = LevelTold(h[i - 1], more[i])
  BY <1>1, <1>2, <1>3, <1>4 DEF Applied
<1>6. \A i \in 0 .. n : g[i] = h[i]
  <2> DEFINE S == {i \in 0 .. n : g[i] = h[i]}
  <2>1. 0 \in S
    BY <1>2, <1>3, <1>4
  <2>2. ASSUME NEW i \in 0 .. n - 1, i \in S
        PROVE  i + 1 \in S
    <3>1. /\ i + 1 \in 1 .. n /\ i + 1 \in 1 .. n + 1 /\ (i + 1) - 1 = i
          /\ g[i] = h[i] /\ more[i + 1] = es[i + 1]
      <4>1. i + 1 \in 1 .. n /\ i + 1 \in 1 .. n + 1 /\ (i + 1) - 1 = i
        BY ONLY <1>2, i \in 0 .. n - 1
      <4> QED
        BY <1>2, <2>2, <4>1
    <3>2. g[i + 1] = LevelTold(g[i], es[i + 1]) /\ h[i + 1] = LevelTold(h[i], more[i + 1])
      BY <1>5, <3>1
    <3> QED
      BY <3>1, <3>2
  <2> HIDE DEF S
  <2>3. \A i \in 0 .. n : i \in S
    BY <1>2, <2>1, <2>2, UpTo
  <2> QED
    BY <2>3 DEF S
<1>7. h[n + 1] = LevelTold(h[n], e)
  <2>1. n + 1 \in 1 .. n + 1 /\ (n + 1) - 1 = n
    BY <1>2
  <2> QED
    BY <1>2, <1>5, <2>1
<1>8. g[n] = h[n] /\ g[n] \in LevelBooks
  BY <1>2, <1>6
<1> QED
  BY <1>1, <1>3, <1>4, <1>7, <1>8

-----------------------------------------------------------------------------
(* The client's book so far and the points of the feed: a level is in the  *)
(* book when a point is there, with the size of the point of this message  *)
(* that is there, or else of the only one that is.  A level the changes    *)
(* mention and a point of this message does not hold is left, and points   *)
(* that are not of this message keep apart.                                *)

Mentioned(es) == {Where(es[i]) : i \in DOMAIN es}

PointsApart(F, T) == \A j, k \in DOMAIN F \ T : Where(F[j]) = Where(F[k]) => j = k
LevelsHeld(F, B) == DOMAIN B = {Where(F[k]) : k \in DOMAIN F}
SizesRight(F, T, B) ==
  \A k \in DOMAIN F :
    (\A j \in DOMAIN F \cap T : Where(F[j]) = Where(F[k]) => j = k)
      => B[Where(F[k])] = F[k].size
TouchedMentioned(F, T, M) == \A k \in DOMAIN F \cap T : Where(F[k]) \in M
MentionedTouched(F, T, M) ==
  \A k \in DOMAIN F \ T :
    Where(F[k]) \in M => \E j \in DOMAIN F \cap T : Where(F[j]) = Where(F[k])

Agree(F, T, M, B) == /\ PointsApart(F, T) /\ LevelsHeld(F, B) /\ SizesRight(F, T, B)
                     /\ TouchedMentioned(F, T, M) /\ MentionedTouched(F, T, M)

PointsOk == /\ DOMAIN feedPoints \subseteq PointKeys
            /\ \A k \in DOMAIN feedPoints :
                 feedPoints[k] \in [side : PointSides, price : PointPrices, size : PointSizes]
PriceTypes == /\ entries \in Seq(Changes) /\ clientLevels \in LevelBooks
              /\ touched \in Seq(PointKeys) /\ priceMessages \in Nat
              /\ priceMsg \in {"none", "refresh", "update"}
Remembered == /\ DOMAIN ppMap = DOMAIN feedPoints
              /\ \A k \in DOMAIN feedPoints :
                   ppMap[k] = PointAt(feedPoints[k].side, feedPoints[k].price)
NotBegun == priceMessages = 0 => DOMAIN feedPoints = {} /\ priceMsg = "none"
Base == IF priceMsg = "refresh" THEN << >> ELSE clientLevels
BookBetween == priceMsg = "none" => Agree(feedPoints, {}, {}, clientLevels)
BookWithin == priceMsg # "none" =>
  Agree(feedPoints, ToSet(touched), Mentioned(entries), BuildPriceMessage(Base, entries))

PriceInv == regular => /\ PointsOk /\ PriceTypes /\ Remembered /\ NotBegun
                       /\ BookBetween /\ BookWithin

(* A point of this message is put at a level, where it was or is new. *)
LEMMA PointPut ==
  ASSUME NEW F, NEW T, NEW M, NEW B, NEW G, NEW C, NEW key, Agree(F, T, M, B),
         DOMAIN G = DOMAIN F \cup {key},
         \A k \in DOMAIN F \ {key} : G[k] = F[k],
         key \in DOMAIN F => key \notin T /\ Where(G[key]) = Where(F[key]),
         DOMAIN C = DOMAIN B \cup {Where(G[key])}, C[Where(G[key])] = G[key].size,
         \A x \in DOMAIN B \ {Where(G[key])} : C[x] = B[x]
  PROVE  Agree(G, T \cup {key}, M \cup {Where(G[key])}, C)
<1>1. PointsApart(G, T \cup {key})
  BY DEF Agree, PointsApart
<1>2. LevelsHeld(G, C)
  BY DEF Agree, LevelsHeld
<1>3. SizesRight(G, T \cup {key}, C)
  <2> SUFFICES ASSUME NEW k \in DOMAIN G,
                      \A j \in DOMAIN G \cap (T \cup {key}) : Where(G[j]) = Where(G[k]) => j = k
               PROVE  C[Where(G[k])] = G[k].size
    BY DEF SizesRight
  <2>1. CASE k = key
    BY <2>1
  <2>2. CASE k # key
    <3>1. Where(G[k]) # Where(G[key]) /\ k \in DOMAIN F /\ G[k] = F[k]
      BY <2>2
    <3>2. \A j \in DOMAIN F \cap T : Where(F[j]) = Where(F[k]) => j = k
      BY <3>1
    <3>3. Where(F[k]) \in DOMAIN B
      BY <3>1 DEF Agree, LevelsHeld
    <3> QED
      BY <3>1, <3>2, <3>3 DEF Agree, SizesRight
  <2> QED
    BY <2>1, <2>2
<1>4. TouchedMentioned(G, T \cup {key}, M \cup {Where(G[key])})
  BY DEF Agree, TouchedMentioned
<1>5. MentionedTouched(G, T \cup {key}, M \cup {Where(G[key])})
  <2> SUFFICES ASSUME NEW k \in DOMAIN G \ (T \cup {key}), Where(G[k]) \in M \cup {Where(G[key])}
               PROVE  \E j \in DOMAIN G \cap (T \cup {key}) : Where(G[j]) = Where(G[k])
    BY DEF MentionedTouched
  <2>1. CASE Where(G[k]) = Where(G[key])
    BY <2>1
  <2>2. CASE Where(G[k]) # Where(G[key])
    <3>1. k \in DOMAIN F \ T /\ G[k] = F[k] /\ Where(F[k]) \in M
      BY <2>2
    <3>2. PICK j \in DOMAIN F \cap T : Where(F[j]) = Where(F[k])
      BY <3>1 DEF Agree, MentionedTouched
    <3> QED
      BY <3>1, <3>2
  <2> QED
    BY <2>1, <2>2
<1> QED
  BY <1>1, <1>2, <1>3, <1>4, <1>5 DEF Agree

(* A point leaves a level that no point of this message holds: nobody does. *)
LEMMA PointGone ==
  ASSUME NEW F, NEW T, NEW M, NEW B, NEW G, NEW C, NEW key \in DOMAIN F, Agree(F, T, M, B),
         key \notin T, DOMAIN G = DOMAIN F \ {key}, \A k \in DOMAIN G : G[k] = F[k],
         \A j \in DOMAIN F \cap T : Where(F[j]) # Where(F[key]),
         DOMAIN C = DOMAIN B \ {Where(F[key])},
         \A x \in DOMAIN C : C[x] = B[x]
  PROVE  Agree(G, T \cup {key}, M \cup {Where(F[key])}, C)
<1>0. \A k \in DOMAIN G : Where(G[k]) # Where(F[key])
  BY DEF Agree, PointsApart
<1>1. PointsApart(G, T \cup {key})
  BY DEF Agree, PointsApart
<1>2. LevelsHeld(G, C)
  BY <1>0 DEF Agree, LevelsHeld
<1>3. SizesRight(G, T \cup {key}, C)
  BY <1>0, <1>2 DEF Agree, SizesRight, LevelsHeld
<1>4. TouchedMentioned(G, T \cup {key}, M \cup {Where(F[key])})
  BY DEF Agree, TouchedMentioned
<1>5. MentionedTouched(G, T \cup {key}, M \cup {Where(F[key])})
  <2> SUFFICES ASSUME NEW k \in DOMAIN G \ (T \cup {key}), Where(G[k]) \in M \cup {Where(F[key])}
               PROVE  \E j \in DOMAIN G \cap (T \cup {key}) : Where(G[j]) = Where(G[k])
    BY DEF MentionedTouched
  <2>1. k \in DOMAIN F \ T /\ G[k] = F[k] /\ Where(F[k]) \in M
    BY <1>0
  <2>2. PICK j \in DOMAIN F \cap T : Where(F[j]) = Where(F[k])
    BY <2>1 DEF Agree, MentionedTouched
  <2> QED
    BY <2>1, <2>2
<1> QED
  BY <1>1, <1>2, <1>3, <1>4, <1>5 DEF Agree

(* A point leaves a level that the changes mention: another is there. *)
LEMMA PointLeaves ==
  ASSUME NEW F, NEW T, NEW M, NEW B, NEW G, NEW key \in DOMAIN F, Agree(F, T, M, B),
         key \notin T, DOMAIN G = DOMAIN F \ {key}, \A k \in DOMAIN G : G[k] = F[k],
         Where(F[key]) \in M
  PROVE  Agree(G, T \cup {key}, M, B)
<1>0. PICK j \in DOMAIN F \cap T : Where(F[j]) = Where(F[key])
  BY DEF Agree, MentionedTouched
<1>1. PointsApart(G, T \cup {key})
  BY DEF Agree, PointsApart
<1>2. LevelsHeld(G, B)
  BY <1>0 DEF Agree, LevelsHeld
<1>3. SizesRight(G, T \cup {key}, B)
  BY <1>0 DEF Agree, SizesRight
<1>4. TouchedMentioned(G, T \cup {key}, M)
  BY DEF Agree, TouchedMentioned
<1>5. MentionedTouched(G, T \cup {key}, M)
  <2> SUFFICES ASSUME NEW k \in DOMAIN G \ (T \cup {key}), Where(G[k]) \in M
               PROVE  \E i \in DOMAIN G \cap (T \cup {key}) : Where(G[i]) = Where(G[k])
    BY DEF MentionedTouched
  <2>1. k \in DOMAIN F \ T /\ G[k] = F[k] /\ Where(F[k]) \in M
    OBVIOUS
  <2>2. PICK i \in DOMAIN F \cap T : Where(F[i]) = Where(F[k])
    BY <2>1 DEF Agree, MentionedTouched
  <2> QED
    BY <2>1, <2>2
<1> QED
  BY <1>1, <1>2, <1>3, <1>4, <1>5 DEF Agree

-----------------------------------------------------------------------------
(* The levels a message mentions, with one more entry. *)
LEMMA EntryAppended ==
  ASSUME NEW es \in Seq(Changes), NEW e \in Changes
  PROVE  Append(es, e) \in Seq(Changes) /\ Mentioned(Append(es, e)) = Mentioned(es) \cup {Where(e)}
<1>1. /\ DOMAIN Append(es, e) = DOMAIN es \cup {Len(es) + 1}
      /\ Append(es, e)[Len(es) + 1] = e
      /\ \A i \in DOMAIN es : Append(es, e)[i] = es[i]
  OBVIOUS
<1> QED
  BY <1>1 DEF Mentioned

(* The points a message has named, with one more. *)
LEMMA KeyAppended ==
  ASSUME NEW s \in Seq(PointKeys), NEW k \in PointKeys
  PROVE  Append(s, k) \in Seq(PointKeys) /\ ToSet(Append(s, k)) = ToSet(s) \cup {k}
<1>1. /\ DOMAIN Append(s, k) = DOMAIN s \cup {Len(s) + 1}
      /\ Append(s, k)[Len(s) + 1] = k
      /\ \A i \in DOMAIN s : Append(s, k)[i] = s[i]
  OBVIOUS
<1> QED
  BY <1>1 DEF ToSet

(* What an entry of the message finds in a state of a regular feed. *)
LEMMA WithinMessage ==
  ASSUME PriceInv, regular, priceMsg # "none"
  PROVE  \E B \in LevelBooks :
           /\ B = BuildPriceMessage(Base, entries)
           /\ Agree(feedPoints, ToSet(touched), Mentioned(entries), B)
           /\ \A e \in Changes : BuildPriceMessage(Base, Append(entries, e)) = LevelTold(B, e)
           /\ \A d, e \in Changes :
                BuildPriceMessage(Base, Append(Append(entries, d), e))
                  = LevelTold(LevelTold(B, d), e)
<1>1. PICK base, es : base = Base /\ es = entries
  OBVIOUS
<1>2. base \in LevelBooks /\ es \in Seq(Changes)
  <2>1. << >> \in LevelBooks
    <3>1. << >> = [x \in {} |-> 0]
      OBVIOUS
    <3>2. << >> \in [{} -> PointSizes]
      BY <3>1
    <3> QED
      BY <3>2 DEF LevelBooks
  <2> QED
    BY <1>1, <2>1 DEF PriceInv, PriceTypes, Base
<1>3. PICK B : B = BuildPriceMessage(base, es)
  OBVIOUS
<1>4. Agree(feedPoints, ToSet(touched), Mentioned(entries), B)
  BY <1>1, <1>3 DEF PriceInv, BookWithin
<1>5. B \in LevelBooks /\ \A e \in Changes : BuildPriceMessage(base, Append(es, e)) = LevelTold(B, e)
  <2>1. B \in LevelBooks
    <3>1. PICK g \in [0 .. Len(es) -> LevelBooks] : BuildPriceMessage(base, es) = g[Len(es)]
      BY <1>2, MessageApplied
    <3> QED
      BY <1>2, <1>3, <3>1
  <2> QED
    BY <1>2, <1>3, <2>1, LongerMessage
<1>6. ASSUME NEW d \in Changes, NEW e \in Changes
      PROVE  BuildPriceMessage(base, Append(Append(es, d), e)) = LevelTold(LevelTold(B, d), e)
  <2>1. PICK more : more = Append(es, d)
    OBVIOUS
  <2>2. more \in Seq(Changes)
    BY <1>2, <2>1
  <2>3. BuildPriceMessage(base, Append(more, e)) = LevelTold(BuildPriceMessage(base, more), e)
    BY <1>2, <2>2, LongerMessage
  <2> QED
    BY <1>5, <2>1, <2>3
<1> QED
  BY <1>1, <1>3, <1>4, <1>5, <1>6

(* What an entry of the message has to leave. *)
LEMMA EntryKeeps ==
  ASSUME PriceInv, regular, NEW key \in PointKeys, NEW points, NEW asRegular,
         MapPoint(key, points, asRegular),
         entries' \in Seq(Changes), PointsOk', Remembered',
         Agree(points, ToSet(touched) \cup {key}, Mentioned(entries'),
               BuildPriceMessage(Base, entries'))
  PROVE  PriceInv'
<1>1. /\ priceMsg' = priceMsg /\ priceMessages' = priceMessages /\ clientLevels' = clientLevels
      /\ touched' = Append(touched, key) /\ feedPoints' = points /\ priceMsg # "none"
  BY DEF MapPoint
<1>2. touched \in Seq(PointKeys)
  BY DEF PriceInv, PriceTypes
<1>3. touched' \in Seq(PointKeys) /\ ToSet(touched') = ToSet(touched) \cup {key}
  BY <1>1, <1>2, KeyAppended
<1>4. PriceTypes'
  BY <1>1, <1>3 DEF PriceInv, PriceTypes
<1>5. NotBegun' /\ BookBetween'
  BY <1>1 DEF PriceInv, NotBegun, BookBetween
<1>6. Base' = Base
  BY <1>1 DEF Base
<1>7. BookWithin'
  BY <1>1, <1>3, <1>6 DEF BookWithin
<1> QED
  BY <1>4, <1>5, <1>7 DEF PriceInv

(* A point is added, or sent again, at a level of its own. *)
LEMMA AddKeeps ==
  ASSUME PriceInv, NEW key \in PointKeys, NEW side \in PointSides, NEW price \in PointPrices,
         NEW size \in PointSizes, NEW sideSent \in BOOLEAN,
         AddPoint(key, side, price, size, sideSent), regular'
  PROVE  PriceInv'
<1>1. PICK p, e, points : /\ p = [side |-> side, price |-> price, size |-> size]
                          /\ e = PriceEntry("A", side, price, size)
                          /\ points = With(feedPoints, key, p)
  OBVIOUS
<1>2. /\ MapPoint(key, points, sideSent) /\ key \notin DOMAIN feedPoints
      /\ priceMsg # "none" /\ regular /\ sideSent /\ key \notin ToSet(touched)
      /\ ppMap' = WithNew(ppMap, key, PointAt(side, price))
      /\ entries' = Append(entries, e) /\ feedPoints' = points
  BY <1>1 DEF AddPoint, MapPoint
<1>3. /\ p \in [side : PointSides, price : PointPrices, size : PointSizes]
      /\ p.side = side /\ p.price = price /\ p.size = size
      /\ e \in Changes /\ e.act = "A" /\ e.size = size /\ Where(e) = Where(p)
  BY <1>1 DEF PriceEntry, Changes, Where
<1>4. PointsOk /\ PriceTypes /\ Remembered
  BY <1>2 DEF PriceInv
<1>5. /\ DOMAIN points = DOMAIN feedPoints \cup {key} /\ points[key] = p
      /\ \A k \in DOMAIN feedPoints : points[k] = feedPoints[k]
  BY <1>1, <1>2 DEF With
<1>6. PointsOk'
  BY <1>2, <1>3, <1>4, <1>5 DEF PointsOk
<1>7. Remembered'
  <2>1. /\ DOMAIN ppMap' = DOMAIN ppMap \cup {key} /\ ppMap'[key] = PointAt(side, price)
        /\ \A k \in DOMAIN ppMap : ppMap'[k] = ppMap[k]
    BY <1>2, <1>4 DEF WithNew, Remembered
  <2> QED
    BY <1>2, <1>3, <1>4, <1>5, <2>1 DEF Remembered
<1>8. entries' \in Seq(Changes) /\ Mentioned(entries') = Mentioned(entries) \cup {Where(e)}
  BY <1>2, <1>3, <1>4, EntryAppended DEF PriceTypes
<1>9. PICK B \in LevelBooks :
        /\ Agree(feedPoints, ToSet(touched), Mentioned(entries), B)
        /\ BuildPriceMessage(Base, entries') = LevelTold(B, e)
  BY <1>2, <1>3, WithinMessage
<1>10. Agree(points, ToSet(touched) \cup {key}, Mentioned(entries'), LevelTold(B, e))
  <2>1. PICK C : C = LevelTold(B, e)
    OBVIOUS
  <2>2. /\ DOMAIN C = DOMAIN B \cup {Where(p)} /\ C[Where(p)] = p.size
        /\ \A x \in DOMAIN B \ {Where(p)} : C[x] = B[x]
    BY <1>3, <2>1, LevelToldOf
  <2> QED
    BY <1>2, <1>3, <1>5, <1>8, <1>9, <2>1, <2>2, PointPut
<1> QED
  BY <1>2, <1>6, <1>7, <1>8, <1>9, <1>10, EntryKeeps

(* A point is deleted whose level no other has taken. *)
LEMMA DeleteKeeps ==
  ASSUME PriceInv, NEW key \in PointKeys, DeletePoint(key), regular'
  PROVE  PriceInv'
<1>1. PICK p, e, points : /\ p = feedPoints[key] /\ points = Without(feedPoints, key)
                          /\ e = PriceEntry("D", p.side, p.price, 0)
  OBVIOUS
<1>2. /\ MapPoint(key, points, ~TakenOver(key)) /\ key \in DOMAIN feedPoints
      /\ priceMsg # "none" /\ regular /\ ~TakenOver(key) /\ key \notin ToSet(touched)
      /\ ppMap' = Without(ppMap, key) /\ feedPoints' = points
      /\ entries' = Append(entries, PriceEntry("D", ppMap[key].side, ppMap[key].price, 0))
  BY <1>1 DEF DeletePoint, MapPoint
<1>3. PointsOk /\ PriceTypes /\ Remembered
  BY <1>2 DEF PriceInv
<1>4. /\ p \in [side : PointSides, price : PointPrices, size : PointSizes]
      /\ ppMap[key].side = p.side /\ ppMap[key].price = p.price
  BY <1>1, <1>2, <1>3 DEF PointsOk, Remembered, PointAt
<1>5. entries' = Append(entries, e)
  BY <1>1, <1>2, <1>4
<1>6. e \in Changes /\ e.act = "D" /\ Where(e) = Where(p)
  BY <1>1, <1>4 DEF PriceEntry, Changes, Where
<1>7. /\ DOMAIN points = DOMAIN feedPoints \ {key}
      /\ \A k \in DOMAIN points : points[k] = feedPoints[k]
  BY <1>1 DEF Without
<1>8. PointsOk'
  BY <1>2, <1>3, <1>7 DEF PointsOk
<1>9. Remembered'
  <2>1. /\ DOMAIN ppMap' = DOMAIN ppMap \ {key}
        /\ \A k \in DOMAIN ppMap \ {key} : ppMap'[k] = ppMap[k]
    BY <1>2 DEF Without
  <2> QED
    BY <1>2, <1>3, <1>7, <2>1 DEF Remembered
<1>10. entries' \in Seq(Changes) /\ Mentioned(entries') = Mentioned(entries) \cup {Where(e)}
  BY <1>3, <1>5, <1>6, EntryAppended DEF PriceTypes
<1>11. PICK B \in LevelBooks :
        /\ Agree(feedPoints, ToSet(touched), Mentioned(entries), B)
        /\ BuildPriceMessage(Base, entries') = LevelTold(B, e)
  BY <1>2, <1>5, <1>6, WithinMessage
<1>12. Agree(points, ToSet(touched) \cup {key}, Mentioned(entries'), LevelTold(B, e))
  <2>1. PICK C : C = LevelTold(B, e)
    OBVIOUS
  <2>2. DOMAIN C = DOMAIN B \ {Where(p)} /\ \A x \in DOMAIN C : C[x] = B[x]
    BY <1>6, <2>1, LevelToldOf
  <2>3. \A j \in DOMAIN feedPoints \cap ToSet(touched) : Where(feedPoints[j]) # Where(p)
    BY <1>1, <1>2 DEF TakenOver
  <2> QED
    BY <1>1, <1>2, <1>7, <1>10, <1>6, <1>11, <2>1, <2>2, <2>3, PointGone
<1> QED
  BY <1>2, <1>8, <1>9, <1>10, <1>11, <1>12, EntryKeeps

(* A change at the level of the point is put there; one that moves it      *)
(* leaves the old level, with a delete or to a point that has taken it.    *)
LEMMA UpdateKeeps ==
  ASSUME PriceInv, NEW key \in PointKeys, NEW price \in PointPrices, NEW size \in PointSizes,
         NEW priceSent \in BOOLEAN, UpdatePoint(key, price, size, priceSent), regular'
  PROVE  PriceInv'
<1>1. PICK old, p, q, d, e, F, points :
        /\ old = feedPoints[key] /\ p = ppMap[key] /\ F = feedPoints
        /\ q = [side |-> old.side, price |-> price, size |-> size]
        /\ d = PriceEntry("D", p.side, p.price, 0)
        /\ e = PriceEntry("U", p.side, price, size)
        /\ points = [feedPoints EXCEPT ![key].price = price, ![key].size = size]
  OBVIOUS
<1>2. /\ MapPoint(key, points, priceSent) /\ key \in DOMAIN F /\ F = feedPoints
      /\ priceMsg # "none" /\ regular /\ priceSent /\ key \notin ToSet(touched)
      /\ ppMap' = IF Where(p) # Where(e) THEN [ppMap EXCEPT ![key] = PointAt(e.side, e.price)] ELSE ppMap
      /\ entries' = entries \o (IF Where(p) # Where(e) THEN DeletedUnlessQueued(p) ELSE << >>) \o <<e>>
      /\ feedPoints' = points
  BY <1>1 DEF UpdatePoint, MapPoint
<1>3. PointsOk /\ PriceTypes /\ Remembered
  BY <1>2 DEF PriceInv
<1>4. /\ old \in [side : PointSides, price : PointPrices, size : PointSizes] /\ old = F[key]
      /\ p.side = old.side /\ p.price = old.price /\ Where(p) = Where(old)
  <2>1. old = F[key] /\ old \in [side : PointSides, price : PointPrices, size : PointSizes]
    BY <1>1, <1>2, <1>3 DEF PointsOk
  <2>2. p = PointAt(old.side, old.price)
    BY <1>1, <1>2, <1>3 DEF Remembered
  <2> QED
    BY ONLY <2>1, <2>2 DEF PointAt, Where
<1>5. /\ q \in [side : PointSides, price : PointPrices, size : PointSizes]
      /\ q.side = old.side /\ q.price = price /\ q.size = size
  BY <1>1, <1>4
<1>6. /\ d \in Changes /\ d.act = "D" /\ Where(d) = Where(old)
      /\ e \in Changes /\ e.act = "U" /\ e.size = size /\ Where(e) = Where(q)
      /\ e.side = q.side /\ e.price = q.price
  BY <1>1, <1>4, <1>5 DEF PriceEntry, Changes, Where
<1>7. /\ DOMAIN points = DOMAIN F /\ points[key] = q
      /\ \A k \in DOMAIN F \ {key} : points[k] = F[k]
  <2>1. points = [k \in DOMAIN F |-> IF k = key THEN [[old EXCEPT !.price = price] EXCEPT !.size = size]
                                               ELSE F[k]]
    BY <1>1, <1>2
  <2>2. [[old EXCEPT !.price = price] EXCEPT !.size = size] = q
    <3>1. PICK s, z : s = old.side /\ z = [side |-> s, price |-> old.price, size |-> old.size]
      OBVIOUS
    <3>2. old = z
      BY <1>4, <3>1
    <3>3. q = [side |-> s, price |-> price, size |-> size]
      BY <1>1, <3>1
    <3>4. [[z EXCEPT !.price = price] EXCEPT !.size = size] = [side |-> s, price |-> price, size |-> size]
      <4>1. PICK y : y = [z EXCEPT !.price = price]
        OBVIOUS
      <4>2. y = [side |-> s, price |-> price, size |-> old.size]
        BY <3>1, <4>1
      <4>3. [y EXCEPT !.size = size] = [side |-> s, price |-> price, size |-> size]
        BY <4>2
      <4> QED
        BY <4>1, <4>3
    <3> QED
      BY <3>2, <3>3, <3>4
  <2> QED
    BY <1>2, <2>1, <2>2
<1>8. PointsOk'
  BY <1>2, <1>3, <1>5, <1>7 DEF PointsOk
<1>9. Remembered'
  <2>1. DOMAIN ppMap' = DOMAIN F /\ \A k \in DOMAIN F \ {key} : ppMap'[k] = ppMap[k]
    BY <1>2, <1>3 DEF Remembered
  <2>2. ppMap'[key] = PointAt(q.side, q.price)
    <3>1. CASE Where(p) # Where(e)
      BY <1>2, <1>3, <1>6, <3>1 DEF Remembered
    <3>2. CASE Where(p) = Where(e)
      <4>1. ppMap'[key] = p
        BY <1>1, <1>2, <3>2
      <4>2. p = PointAt(old.side, old.price) /\ q.side = old.side /\ q.price = old.price
        BY <1>1, <1>2, <1>3, <1>4, <1>5, <1>6, <3>2 DEF Remembered, Where
      <4> QED
        BY <4>1, <4>2
    <3> QED
      BY <3>1, <3>2
  <2> QED
    BY <1>2, <1>3, <1>7, <2>1, <2>2 DEF Remembered
<1>10. PICK B \in LevelBooks :
        /\ Agree(F, ToSet(touched), Mentioned(entries), B)
        /\ BuildPriceMessage(Base, Append(entries, e)) = LevelTold(B, e)
        /\ BuildPriceMessage(Base, Append(Append(entries, d), e)) = LevelTold(LevelTold(B, d), e)
  BY <1>2, <1>6, WithinMessage
<1>11. PICK T, M : T = ToSet(touched) /\ M = Mentioned(entries)
  OBVIOUS
<1>12. PICK G : G = Without(F, key)
  OBVIOUS
<1>13. /\ DOMAIN G = DOMAIN F \ {key} /\ \A k \in DOMAIN G : G[k] = F[k]
       /\ DOMAIN points = DOMAIN G \cup {key} /\ \A k \in DOMAIN G \ {key} : points[k] = G[k]
  BY <1>2, <1>7, <1>12 DEF Without
<1>14. entries \in Seq(Changes)
  BY <1>3 DEF PriceTypes
<1>15. CASE Where(p) = Where(e)
  <2>1. entries' = Append(entries, e)
    BY <1>2, <1>6, <1>14, <1>15
  <2>2. entries' \in Seq(Changes) /\ Mentioned(entries') = M \cup {Where(q)}
    BY <1>6, <1>11, <1>14, <2>1, EntryAppended
  <2>3. PICK C : C = LevelTold(B, e)
    OBVIOUS
  <2>4. /\ DOMAIN C = DOMAIN B \cup {Where(q)} /\ C[Where(q)] = q.size
        /\ \A x \in DOMAIN B \ {Where(q)} : C[x] = B[x]
    BY <1>5, <1>6, <2>3, LevelToldOf
  <2>5. DOMAIN points = DOMAIN F \cup {key} /\ key \notin T /\ Where(points[key]) = Where(F[key])
    BY <1>2, <1>4, <1>6, <1>7, <1>11, <1>15
  <2>6. Agree(points, T \cup {key}, M \cup {Where(q)}, C)
    BY <1>7, <1>10, <1>11, <2>4, <2>5, PointPut
  <2> QED
    BY <1>2, <1>8, <1>9, <1>10, <1>11, <2>1, <2>2, <2>3, <2>6, EntryKeeps
<1>16. CASE Where(p) # Where(e) /\ Where(old) \in M
  <2>1. entries' = Append(entries, e)
    <3>1. \E i \in DOMAIN entries : Where(entries[i]) = Where(p)
      BY <1>4, <1>11, <1>16 DEF Mentioned
    <3>2. entries' = entries \o << >> \o <<e>>
      BY <1>2, <1>16, <3>1 DEF DeletedUnlessQueued
    <3> QED
      BY <1>6, <1>14, <3>2
  <2>2. entries' \in Seq(Changes) /\ Mentioned(entries') = M \cup {Where(q)}
    BY <1>6, <1>11, <1>14, <2>1, EntryAppended
  <2>3. PICK C : C = LevelTold(B, e)
    OBVIOUS
  <2>4. /\ DOMAIN C = DOMAIN B \cup {Where(q)} /\ C[Where(q)] = q.size
        /\ \A x \in DOMAIN B \ {Where(q)} : C[x] = B[x]
    BY <1>5, <1>6, <2>3, LevelToldOf
  <2>5. Agree(G, T \cup {key}, M, B)
    BY <1>2, <1>4, <1>10, <1>11, <1>13, <1>16, PointLeaves
  <2>6. Agree(points, (T \cup {key}) \cup {key}, M \cup {Where(q)}, C)
    BY <1>7, <1>13, <2>4, <2>5, PointPut
  <2>7. (T \cup {key}) \cup {key} = T \cup {key}
    OBVIOUS
  <2> QED
    BY <1>2, <1>8, <1>9, <1>10, <1>11, <2>1, <2>2, <2>3, <2>6, <2>7, EntryKeeps
<1>17. CASE Where(p) # Where(e) /\ Where(old) \notin M
  <2>1. entries' = Append(Append(entries, d), e)
    <3>1. ~\E i \in DOMAIN entries : Where(entries[i]) = Where(p)
      BY <1>4, <1>11, <1>17 DEF Mentioned
    <3>2. entries' = entries \o <<d>> \o <<e>>
      BY <1>1, <1>2, <1>17, <3>1 DEF DeletedUnlessQueued
    <3>3. PICK m : m = entries \o <<d>>
      OBVIOUS
    <3>4. m = Append(entries, d) /\ m \in Seq(Changes)
      BY <1>6, <1>14, <3>3
    <3>5. m \o <<e>> = Append(m, e)
      BY <1>6, <3>4
    <3> QED
      BY <3>2, <3>3, <3>4, <3>5
  <2>2. PICK more : more = Append(entries, d)
    OBVIOUS
  <2>3. more \in Seq(Changes) /\ Mentioned(more) = M \cup {Where(old)}
    BY <1>6, <1>11, <1>14, <2>2, EntryAppended
  <2>4. entries' \in Seq(Changes) /\ Mentioned(entries') = (M \cup {Where(old)}) \cup {Where(q)}
    BY <1>6, <2>1, <2>2, <2>3, EntryAppended
  <2>5. PICK C, D : C = LevelTold(B, d) /\ D = LevelTold(C, e)
    OBVIOUS
  <2>6. C \in LevelBooks /\ DOMAIN C = DOMAIN B \ {Where(old)} /\ \A x \in DOMAIN C : C[x] = B[x]
    <3>1. /\ LevelTold(B, d) \in LevelBooks
          /\ DOMAIN LevelTold(B, d) = DOMAIN B \ {Where(d)}
          /\ \A x \in DOMAIN B \ {Where(d)} : LevelTold(B, d)[x] = B[x]
      BY <1>6, LevelToldOf
    <3> QED
      BY ONLY <1>6, <2>5, <3>1
  <2>7. /\ DOMAIN D = DOMAIN C \cup {Where(q)} /\ D[Where(q)] = q.size
        /\ \A x \in DOMAIN C \ {Where(q)} : D[x] = C[x]
    <3>1. e \in Changes /\ e.act # "D" /\ Where(e) = Where(q) /\ e.size = q.size
      BY <1>5, <1>6
    <3>2. /\ DOMAIN LevelTold(C, e) = DOMAIN C \cup {Where(e)}
          /\ LevelTold(C, e)[Where(e)] = e.size
          /\ \A x \in DOMAIN C \ {Where(e)} : LevelTold(C, e)[x] = C[x]
      BY <2>6, <3>1, LevelToldOf
    <3> QED
      BY ONLY <2>5, <3>1, <3>2
  <2>8. \A j \in DOMAIN F \cap T : Where(F[j]) # Where(F[key])
    BY <1>4, <1>10, <1>11, <1>17 DEF Agree, TouchedMentioned
  <2>9. Agree(G, T \cup {key}, M \cup {Where(old)}, C)
    BY <1>2, <1>4, <1>10, <1>11, <1>13, <2>6, <2>8, PointGone
  <2>10. Agree(points, (T \cup {key}) \cup {key}, (M \cup {Where(old)}) \cup {Where(q)}, D)
    BY <1>7, <1>13, <2>7, <2>9, PointPut
  <2>11. (T \cup {key}) \cup {key} = T \cup {key}
    OBVIOUS
  <2> QED
    BY <1>2, <1>8, <1>9, <1>10, <1>11, <2>1, <2>4, <2>5, <2>10, <2>11, EntryKeeps
<1> QED
  BY <1>15, <1>16, <1>17

(* A message begins with the book as it is, or with none. *)
LEMMA StartKeeps ==
  ASSUME PriceInv, NEW class \in {"refresh", "update"}, StartPriceMessage(class), regular'
  PROVE  PriceInv'
<1>1. /\ regular /\ priceMsg = "none" /\ priceMsg' = class /\ touched' = << >>
      /\ priceMessages' = priceMessages + 1 /\ entries' = << >>
      /\ ppMap' = ppMap /\ clientLevels' = clientLevels
      /\ class = "refresh" => priceMessages = 0 /\ feedPoints' = << >>
      /\ class = "update" => feedPoints' = feedPoints
  BY DEF StartPriceMessage
<1>2. PointsOk /\ PriceTypes /\ Remembered /\ NotBegun /\ BookBetween
  BY <1>1 DEF PriceInv
<1>3. /\ << >> \in LevelBooks /\ DOMAIN << >> = {}
  <2>1. << >> = [x \in {} |-> 0]
    OBVIOUS
  <2>2. << >> \in [{} -> PointSizes]
    BY <2>1
  <2> QED
    BY <2>1, <2>2 DEF LevelBooks
<1>4. PriceTypes'
  BY <1>1, <1>2 DEF PriceTypes
<1>5. NotBegun' /\ BookBetween'
  BY <1>1, <1>2 DEF NotBegun, BookBetween, PriceTypes
<1>6. ToSet(<< >>) = {} /\ Mentioned(<< >>) = {}
  BY DEF ToSet, Mentioned
<1>7. CASE class = "refresh"
  <2>1. DOMAIN feedPoints' = {} /\ DOMAIN feedPoints = {}
    BY <1>1, <1>2, <1>3, <1>7 DEF NotBegun
  <2>2. PointsOk' /\ Remembered'
    BY <1>1, <1>2, <2>1 DEF PointsOk, Remembered
  <2>3. BuildPriceMessage(Base, entries)' = << >>
    BY <1>1, <1>3, <1>7, EmptyMessage DEF Base
  <2>4. Agree(feedPoints', {}, {}, << >>)
    BY <1>3, <2>1 DEF Agree, PointsApart, LevelsHeld, SizesRight, TouchedMentioned, MentionedTouched
  <2>5. BookWithin'
    BY <1>1, <1>6, <2>3, <2>4 DEF BookWithin
  <2> QED
    BY <1>4, <1>5, <2>2, <2>5 DEF PriceInv
<1>8. CASE class = "update"
  <2>1. PointsOk' /\ Remembered'
    BY <1>1, <1>2, <1>8 DEF PointsOk, Remembered
  <2>2. BuildPriceMessage(Base, entries)' = clientLevels
    BY <1>1, <1>2, <1>8, EmptyMessage DEF Base, PriceTypes
  <2>3. BookWithin'
    BY <1>1, <1>2, <1>6, <1>8, <2>2 DEF BookWithin, BookBetween
  <2> QED
    BY <1>4, <1>5, <2>1, <2>3 DEF PriceInv
<1> QED
  BY <1>7, <1>8

(* The message is sent and the client's book is the feed's. *)
LEMMA SendKeeps ==
  ASSUME PriceInv, SendPrices, regular'
  PROVE  PriceInv'
<1>1. PICK B : B = BuildPriceMessage(Base, entries)
  OBVIOUS
<1>2. /\ regular /\ NoTwoAtOneLevel /\ priceMsg # "none" /\ priceMsg' = "none"
      /\ clientLevels' = B /\ entries' = << >> /\ ppMap' = ppMap /\ touched' = touched
      /\ priceMessages' = priceMessages /\ feedPoints' = feedPoints
  BY <1>1 DEF SendPrices, Base
<1>3. PointsOk /\ PriceTypes /\ Remembered /\ NotBegun
  BY <1>2 DEF PriceInv
<1>4. B \in LevelBooks /\ Agree(feedPoints, ToSet(touched), Mentioned(entries), B)
  BY <1>1, <1>2, WithinMessage
<1>5. PointsOk' /\ PriceTypes' /\ Remembered' /\ NotBegun'
  BY <1>2, <1>3, <1>4 DEF PointsOk, PriceTypes, Remembered, NotBegun
<1>6. Agree(feedPoints, {}, {}, B)
  BY <1>2, <1>4 DEF Agree, PointsApart, LevelsHeld, SizesRight, TouchedMentioned,
                    MentionedTouched, NoTwoAtOneLevel
<1>7. BookBetween' /\ BookWithin'
  BY <1>2, <1>6 DEF BookBetween, BookWithin
<1> QED
  BY <1>5, <1>7 DEF PriceInv

(* The invariant of the price book holds in every reachable state. *)
LEMMA PriceInvariance == PriceBookSpec => []PriceInv
<1>1. PriceBookInit => PriceInv
  <2> SUFFICES ASSUME PriceBookInit PROVE PriceInv
    OBVIOUS
  <2>1. << >> \in LevelBooks /\ DOMAIN << >> = {}
    <3>1. << >> = [x \in {} |-> 0]
      OBVIOUS
    <3>2. << >> \in [{} -> PointSizes]
      BY <3>1
    <3> QED
      BY <3>1, <3>2 DEF LevelBooks
  <2>2. PriceTypes
    BY <2>1 DEF PriceBookInit, PriceTypes
  <2>3. PointsOk /\ Remembered /\ NotBegun
    BY <2>1 DEF PriceBookInit, PointsOk, Remembered, NotBegun
  <2>4. BookBetween /\ BookWithin
    BY <2>1 DEF PriceBookInit, BookBetween, BookWithin, Agree, PointsApart, LevelsHeld,
                SizesRight, TouchedMentioned, MentionedTouched
  <2> QED
    BY <2>2, <2>3, <2>4 DEF PriceInv
<1>2. PriceInv /\ [PriceBookNext]_priceVars => PriceInv'
  <2> SUFFICES ASSUME PriceInv, [PriceBookNext]_priceVars, regular' PROVE PriceInv'
    BY DEF PriceInv
  <2>1. ASSUME NEW class \in {"refresh", "update"}, StartPriceMessage(class) PROVE PriceInv'
    BY <2>1, StartKeeps
  <2>2. ASSUME NEW key \in PointKeys, NEW price \in PointPrices, NEW size \in PointSizes,
               NEW b \in BOOLEAN, NEW side \in PointSides, AddPoint(key, side, price, size, b)
        PROVE  PriceInv'
    BY <2>2, AddKeeps
  <2>3. ASSUME NEW key \in PointKeys, NEW price \in PointPrices, NEW size \in PointSizes,
               NEW b \in BOOLEAN, UpdatePoint(key, price, size, b)
        PROVE  PriceInv'
    BY <2>3, UpdateKeeps
  <2>4. ASSUME NEW key \in PointKeys, DeletePoint(key) PROVE PriceInv'
    BY <2>4, DeleteKeeps
  <2>5. CASE PriceDecodeFails
    BY <2>5 DEF PriceDecodeFails
  <2>6. CASE SendPrices
    BY <2>6, SendKeeps
  <2>7. CASE UNCHANGED priceVars
    BY <2>7 DEF priceVars, PriceInv, PointsOk, PriceTypes, Remembered, NotBegun, BookBetween,
                BookWithin, Base
  <2> QED
    BY <2>1, <2>2, <2>3, <2>4, <2>5, <2>6, <2>7 DEF PriceBookNext
<1> QED
  BY <1>1, <1>2, PTL DEF PriceBookSpec

(* Between the messages of a feed that has been regular a client's book    *)
(* has exactly the feed's levels, with their sizes, whatever the points,   *)
(* prices and sizes and however many changes a message has                 *)
(* (UPABookByPriceMessage, InternalProcessMarketByPriceResponse).          *)
THEOREM LevelsArrive == PriceBookSpec => []PricesArrive
<1>1. PriceInv => PricesArrive
  BY DEF PriceInv, BookBetween, Agree, LevelsHeld, SizesRight, PricesArrive
<1> QED
  BY <1>1, PriceInvariance, PTL

-----------------------------------------------------------------------------
(* What a client makes of the changes of a level, one after the other.     *)

Shelves == UNION {[S -> OrderSizes \cup {0}] : S \in SUBSET OrderIds}
BookEntries == [act : {"A", "U", "D"}, id : OrderIds, side : BookSides, price : BookPrices,
                size : OrderSizes \cup {0}, at : Nat]

(* What it is to be the orders of a level with their sizes. *)
LEMMA Shelf ==
  ASSUME NEW b
  PROVE  b \in Shelves <=> /\ b = [x \in DOMAIN b |-> b[x]] /\ DOMAIN b \subseteq OrderIds
                           /\ \A x \in DOMAIN b : b[x] \in OrderSizes \cup {0}
<1>1. ASSUME b \in Shelves
      PROVE  /\ b = [x \in DOMAIN b |-> b[x]] /\ DOMAIN b \subseteq OrderIds
             /\ \A x \in DOMAIN b : b[x] \in OrderSizes \cup {0}
  <2>1. PICK S \in SUBSET OrderIds : b \in [S -> OrderSizes \cup {0}]
    BY <1>1 DEF Shelves
  <2> QED
    BY <2>1
<1>2. ASSUME b = [x \in DOMAIN b |-> b[x]], DOMAIN b \in SUBSET OrderIds,
             \A x \in DOMAIN b : b[x] \in OrderSizes \cup {0}
      PROVE  b \in Shelves
  <2>1. b \in [DOMAIN b -> OrderSizes \cup {0}]
    BY <1>2
  <2> QED
    BY <1>2, <2>1 DEF Shelves
<1> QED
  BY <1>1, <1>2

(* An entry is about its own order and leaves the others. *)
LEMMA ToldOf ==
  ASSUME NEW b \in Shelves, NEW e \in BookEntries
  PROVE  /\ Told(b, e) \in Shelves
         /\ e.act = "D" => DOMAIN Told(b, e) = DOMAIN b \ {e.id}
         /\ e.act # "D" => DOMAIN Told(b, e) = DOMAIN b \cup {e.id} /\ Told(b, e)[e.id] = e.size
         /\ \A o \in DOMAIN b \ {e.id} : Told(b, e)[o] = b[o]
<1>1. PICK t, o, s : t = Told(b, e) /\ o = e.id /\ s = e.size
  OBVIOUS
<1>2. o \in OrderIds /\ s \in OrderSizes \cup {0}
  BY <1>1 DEF BookEntries
<1>3. /\ b = [x \in DOMAIN b |-> b[x]] /\ DOMAIN b \subseteq OrderIds
      /\ \A x \in DOMAIN b : b[x] \in OrderSizes \cup {0}
  BY Shelf
<1>4. CASE e.act = "D"
  <2>1. t = [k \in DOMAIN b \ {o} |-> b[k]]
    BY <1>1, <1>4 DEF Told, Without
  <2>2. t = [x \in DOMAIN t |-> t[x]] /\ DOMAIN t = DOMAIN b \ {o}
    BY <2>1
  <2>3. t \in Shelves
    BY <1>3, <2>1, <2>2, Shelf
  <2> QED
    BY <1>1, <1>4, <2>1, <2>3
<1>5. CASE e.act # "D"
  <2>1. t = [x \in DOMAIN b \cup {o} |-> IF x = o THEN s ELSE b[x]]
    BY <1>1, <1>5 DEF Told, With
  <2>2. t = [x \in DOMAIN t |-> t[x]] /\ DOMAIN t = DOMAIN b \cup {o}
    BY <2>1
  <2>3. t \in Shelves
    BY <1>2, <1>3, <2>1, <2>2, Shelf
  <2> QED
    BY <1>1, <1>5, <2>1, <2>3
<1> QED
  BY <1>4, <1>5

ToldRun(g, b, es) == /\ g \in [0 .. Len(es) -> Shelves] /\ g[0] = b
                     /\ \A i \in 1 .. Len(es) : g[i] = Told(g[i - 1], es[i])

(* The entries of a level are told one after the other. *)
LEMMA ToldInTurn ==
  ASSUME NEW b \in Shelves, NEW es \in Seq(BookEntries)
  PROVE  \E g : ToldRun(g, b, es) /\ ToldAll(b, es) = g[Len(es)]
<1>1. PICK n \in Nat : n = Len(es)
  OBVIOUS
<1>2. \A i \in 1 .. n : es[i] \in BookEntries
  BY <1>1
<1>3. PICK step : step = [x \in (1 .. n) \X Shelves |-> Told(x[2], es[x[1]])]
  OBVIOUS
<1>4. step \in Steps(n, Shelves)
  BY <1>2, <1>3, ToldOf DEF Steps
<1>5. PICK g : Run(g, n, Shelves, b, step)
  BY <1>1, <1>4, StepsExist
<1>6. \A i \in 1 .. n : g[i - 1] \in Shelves /\ g[i] = Told(g[i - 1], es[i])
  <2> TAKE i \in 1 .. n
  <2>1. g[i - 1] \in Shelves
    BY <1>5 DEF Run
  <2>2. PICK x : x = <<i, g[i - 1]>>
    OBVIOUS
  <2>3. x \in (1 .. n) \X Shelves /\ x[1] = i /\ x[2] = g[i - 1]
    BY <2>1, <2>2
  <2>4. step[x] = Told(x[2], es[x[1]])
    BY <1>3, <2>3
  <2> QED
    BY <1>5, <2>1, <2>2, <2>3, <2>4 DEF Run
<1>7. g = [i \in 0 .. n |-> IF i = 0 THEN b ELSE Told(g[i - 1], es[i])]
  <2>1. \A i \in 0 .. n : g[i] = IF i = 0 THEN b ELSE Told(g[i - 1], es[i])
    BY <1>5, <1>6 DEF Run
  <2> QED
    BY <1>5, <2>1 DEF Run
<1>8. PICK h : /\ h = [i \in 0 .. n |-> IF i = 0 THEN b ELSE Told(h[i - 1], es[i])]
               /\ ToldAll(b, es) = h[n]
  BY <1>1, <1>7 DEF ToldAll
<1>9. /\ h[0] = b
      /\ \A i \in 1 .. n : h[i] = Told(h[i - 1], es[i])
  BY <1>8
<1>10. \A i \in 0 .. n : h[i] \in Shelves
  <2> DEFINE S == {i \in 0 .. n : h[i] \in Shelves}
  <2>1. 0 \in S
    BY <1>9
  <2>2. ASSUME NEW i \in 0 .. n - 1, i \in S
        PROVE  i + 1 \in S
    <3>1. i + 1 \in 1 .. n /\ (i + 1) - 1 = i /\ h[i] \in Shelves /\ es[i + 1] \in BookEntries
      BY <1>2, <2>2
    <3>2. h[i + 1] = Told(h[i], es[i + 1])
      BY <1>9, <3>1
    <3>3. Told(h[i], es[i + 1]) \in Shelves
      BY <3>1, ToldOf
    <3>4. i + 1 \in 0 .. n /\ h[i + 1] \in Shelves
      BY <3>1, <3>2, <3>3
    <3> QED
      BY <3>4
  <2> HIDE DEF S
  <2>3. \A i \in 0 .. n : i \in S
    BY <2>1, <2>2, UpTo
  <2> QED
    BY <2>3 DEF S
<1>11. h \in [0 .. n -> Shelves]
  BY <1>8, <1>10
<1> QED
  BY <1>1, <1>8, <1>9, <1>11 DEF ToldRun

(* A level without entries stays. *)
LEMMA ToldNothing ==
  ASSUME NEW b \in Shelves
  PROVE  ToldAll(b, << >>) = b
<1>1. PICK es : es = << >>
  OBVIOUS
<1>2. es \in Seq(BookEntries) /\ Len(es) = 0
  BY <1>1
<1>3. PICK g : ToldRun(g, b, es) /\ ToldAll(b, es) = g[Len(es)]
  BY <1>2, ToldInTurn
<1>4. g[0] = b
  BY <1>3 DEF ToldRun
<1> QED
  BY ONLY <1>1, <1>2, <1>3, <1>4

AlikeBut(o, es, fs) ==
  /\ Len(fs) = Len(es)
  /\ \A i \in 1 .. Len(es) : es[i].id = fs[i].id /\ (es[i].id # o => es[i] = fs[i])

(* Two lists of changes that differ in what they say of one order only     *)
(* differ in that order only.                                              *)
LEMMA ToldOfOthers ==
  ASSUME NEW b \in Shelves, NEW es \in Seq(BookEntries), NEW fs \in Seq(BookEntries),
         NEW o, AlikeBut(o, es, fs)
  PROVE  /\ ToldAll(b, es) \in Shelves /\ ToldAll(b, fs) \in Shelves
         /\ DOMAIN ToldAll(b, es) \ {o} = DOMAIN ToldAll(b, fs) \ {o}
         /\ \A x \in DOMAIN ToldAll(b, es) \ {o} : ToldAll(b, es)[x] = ToldAll(b, fs)[x]
<1>1. PICK n \in Nat : n = Len(es) /\ n = Len(fs)
  BY DEF AlikeBut
<1>2. PICK g : ToldRun(g, b, es) /\ ToldAll(b, es) = g[n]
  BY <1>1, ToldInTurn
<1>3. PICK h : ToldRun(h, b, fs) /\ ToldAll(b, fs) = h[n]
  BY <1>1, ToldInTurn
<1>4. /\ g \in [0 .. n -> Shelves] /\ h \in [0 .. n -> Shelves] /\ g[0] = h[0]
      /\ \A i \in 1 .. n : g[i] = Told(g[i - 1], es[i]) /\ h[i] = Told(h[i - 1], fs[i])
  BY <1>1, <1>2, <1>3 DEF ToldRun
<1> DEFINE Alike(p, q) == /\ DOMAIN p \ {o} = DOMAIN q \ {o}
                          /\ \A x \in DOMAIN p \ {o} : p[x] = q[x]
           S == {i \in 0 .. n : Alike(g[i], h[i])}
<1>5. 0 \in S
  BY <1>4
<1>6. ASSUME NEW i \in 0 .. n - 1, i \in S
      PROVE  i + 1 \in S
  <2>1. /\ i + 1 \in 1 .. n /\ (i + 1) - 1 = i /\ g[i] \in Shelves /\ h[i] \in Shelves
        /\ Alike(g[i], h[i])
    BY <1>4, <1>6
  <2>2. PICK d, e, p, q : d = es[i + 1] /\ e = fs[i + 1] /\ p = g[i] /\ q = h[i]
    OBVIOUS
  <2>3. /\ d \in BookEntries /\ e \in BookEntries /\ d.id = e.id /\ (d.id # o => d = e)
        /\ p \in Shelves /\ q \in Shelves
    BY <1>1, <2>1, <2>2 DEF AlikeBut
  <2>4. Alike(p, q)
    BY <2>1, <2>2
  <2>5. g[i + 1] = Told(p, d) /\ h[i + 1] = Told(q, e)
    BY <1>4, <2>1, <2>2
  <2>6. PICK v, w : v = Told(p, d) /\ w = Told(q, e)
    OBVIOUS
  <2>7. /\ d.act = "D" => DOMAIN v = DOMAIN p \ {d.id}
        /\ d.act # "D" => DOMAIN v = DOMAIN p \cup {d.id} /\ v[d.id] = d.size
        /\ \A x \in DOMAIN p \ {d.id} : v[x] = p[x]
    <3>1. /\ d.act = "D" => DOMAIN Told(p, d) = DOMAIN p \ {d.id}
          /\ d.act # "D" => DOMAIN Told(p, d) = DOMAIN p \cup {d.id} /\ Told(p, d)[d.id] = d.size
          /\ \A x \in DOMAIN p \ {d.id} : Told(p, d)[x] = p[x]
      BY ONLY <2>3, ToldOf
    <3> QED
      BY ONLY <2>6, <3>1
  <2>8. /\ e.act = "D" => DOMAIN w = DOMAIN q \ {e.id}
        /\ e.act # "D" => DOMAIN w = DOMAIN q \cup {e.id} /\ w[e.id] = e.size
        /\ \A x \in DOMAIN q \ {e.id} : w[x] = q[x]
    <3>1. /\ e.act = "D" => DOMAIN Told(q, e) = DOMAIN q \ {e.id}
          /\ e.act # "D" => DOMAIN Told(q, e) = DOMAIN q \cup {e.id} /\ Told(q, e)[e.id] = e.size
          /\ \A x \in DOMAIN q \ {e.id} : Told(q, e)[x] = q[x]
      BY ONLY <2>3, ToldOf
    <3> QED
      BY ONLY <2>6, <3>1
  <2>9. Alike(v, w)
    BY <2>3, <2>4, <2>7, <2>8
  <2> QED
    BY <2>1, <2>5, <2>6, <2>9
<1> HIDE DEF S
<1>7. \A i \in 0 .. n : i \in S
  BY <1>5, <1>6, UpTo
<1>8. Alike(g[n], h[n])
  BY <1>7 DEF S
<1> QED
  BY <1>2, <1>3, <1>4, <1>8

(* One more entry is told after the others. *)
LEMMA ToldMore ==
  ASSUME NEW b \in Shelves, NEW es \in Seq(BookEntries), NEW e \in BookEntries
  PROVE  ToldAll(b, es) \in Shelves /\ ToldAll(b, Append(es, e)) = Told(ToldAll(b, es), e)
<1>1. PICK n, more : n = Len(es) /\ more = Append(es, e)
  OBVIOUS
<1>2. /\ n \in Nat /\ more \in Seq(BookEntries) /\ Len(more) = n + 1 /\ more[n + 1] = e
      /\ \A i \in 1 .. n : more[i] = es[i]
  BY <1>1
<1>3. PICK g : ToldRun(g, b, es) /\ ToldAll(b, es) = g[n]
  BY <1>1, ToldInTurn
<1>4. PICK h : ToldRun(h, b, more) /\ ToldAll(b, more) = h[n + 1]
  BY <1>2, ToldInTurn
<1>5. /\ g[0] = h[0] /\ g \in [0 .. n -> Shelves]
      /\ \A i \in 1 .. n : g[i] = Told(g[i - 1], es[i])
      /\ \A i \in 1 .. n + 1 : h[i] = Told(h[i - 1], more[i])
  BY <1>1, <1>2, <1>3, <1>4 DEF ToldRun
<1>6. \A i \in 0 .. n : g[i] = h[i]
  <2> DEFINE S == {i \in 0 .. n : g[i] = h[i]}
  <2>1. 0 \in S
    BY <1>2, <1>5
  <2>2. ASSUME NEW i \in 0 .. n - 1, i \in S
        PROVE  i + 1 \in S
    <3>1. /\ i + 1 \in 1 .. n /\ i + 1 \in 1 .. n + 1 /\ (i + 1) - 1 = i
          /\ g[i] = h[i] /\ more[i + 1] = es[i + 1]
      <4>1. i + 1 \in 1 .. n /\ i + 1 \in 1 .. n + 1 /\ (i + 1) - 1 = i
        BY ONLY <1>2, i \in 0 .. n - 1
      <4> QED
        BY <1>2, <2>2, <4>1
    <3>2. g[i + 1] = Told(g[i], es[i + 1]) /\ h[i + 1] = Told(h[i], more[i + 1])
      BY <1>5, <3>1
    <3> QED
      BY <3>1, <3>2
  <2> HIDE DEF S
  <2>3. \A i \in 0 .. n : i \in S
    BY <1>2, <2>1, <2>2, UpTo
  <2> QED
    BY <2>3 DEF S
<1>7. h[n + 1] = Told(h[n], e)
  <2>1. n + 1 \in 1 .. n + 1 /\ (n + 1) - 1 = n
    BY <1>2
  <2> QED
    BY <1>2, <1>5, <2>1
<1>8. g[n] = h[n] /\ g[n] \in Shelves
  BY <1>2, <1>5, <1>6
<1> QED
  BY <1>1, <1>3, <1>4, <1>7, <1>8

-----------------------------------------------------------------------------
(* The levels, the feed's book and what a client makes of the changes.     *)

PlacedAt(F, k) == {o \in DOMAIN F : LevelOf(F[o]) = k}
Sizes(F, k) == [o \in PlacedAt(F, k) |-> F[o].size]
Before(X, k) == IF k \in DOMAIN X THEN X[k] ELSE << >>

LevelShows(level, F, X, k) ==
  /\ level.orders = PlacedAt(F, k) /\ level.deltas \in Seq(BookEntries)
  /\ level = [orders |-> level.orders, deltas |-> level.deltas]
  /\ \A i \in DOMAIN level.deltas : LevelOf(level.deltas[i]) = k
  /\ ToldAll(Before(X, k), level.deltas) = Sizes(F, k)
Shows(L, F, X) == /\ DOMAIN X \subseteq DOMAIN L
                  /\ \A k \in DOMAIN X : X[k] \in Shelves
                  /\ \A o \in DOMAIN F : LevelOf(F[o]) \in DOMAIN L
                  /\ \A k \in DOMAIN L : LevelShows(L[k], F, X, k)

FeedOk == /\ DOMAIN feedBook \subseteq OrderIds
          /\ \A o \in DOMAIN feedBook :
               feedBook[o] \in [side : BookSides, price : BookPrices, size : OrderSizes]
BookTypes == /\ taken \in Nat /\ messages \in Nat
             /\ bookMsg \in {"none", "refresh", "update"}
Remembers == /\ DOMAIN orderMap = DOMAIN feedBook
             /\ \A o \in DOMAIN feedBook :
                  /\ orderMap[o] \in BookEntries /\ orderMap[o].id = o
                  /\ LevelOf(orderMap[o]) = LevelOf(feedBook[o])
BookNotBegun == messages = 0 =>
  bookMsg = "none" /\ DOMAIN feedBook = {} /\ DOMAIN levels = {} /\ DOMAIN clientBook = {}
BookBase == IF bookMsg = "refresh" THEN << >> ELSE clientBook
LevelsBetween == bookMsg = "none" =>
  /\ DOMAIN clientBook = DOMAIN levels /\ clientBook = [k \in DOMAIN clientBook |-> clientBook[k]]
  /\ \A o \in DOMAIN feedBook : LevelOf(feedBook[o]) \in DOMAIN levels
  /\ \A k \in DOMAIN levels :
       /\ levels[k].orders = PlacedAt(feedBook, k) /\ PlacedAt(feedBook, k) # {}
       /\ levels[k] = [orders |-> levels[k].orders, deltas |-> levels[k].deltas]
       /\ clientBook[k] = Sizes(feedBook, k)
LevelsWithin == bookMsg # "none" => Shows(levels, feedBook, BookBase)

OrderInv == plain => /\ FeedOk /\ BookTypes /\ Remembers /\ BookNotBegun
                     /\ LevelsBetween /\ LevelsWithin

(* What the client had at a level before the message. *)
LEMMA BeforeShelf ==
  ASSUME NEW X, NEW k, \A j \in DOMAIN X : X[j] \in Shelves
  PROVE  Before(X, k) \in Shelves
<1>1. << >> \in Shelves
  <2>1. << >> = [x \in {} |-> 0]
    OBVIOUS
  <2>2. << >> \in [{} -> OrderSizes \cup {0}]
    BY <2>1
  <2> QED
    BY <2>2 DEF Shelves
<1> QED
  BY <1>1 DEF Before

(* A level that nobody is at. *)
LEMMA LevelOpened ==
  ASSUME NEW L, NEW F, NEW X, NEW k, Shows(L, F, X)
  PROVE  Shows(WithNew(L, k, NewLevel), F, X)
<1>1. PICK M : M = WithNew(L, k, NewLevel)
  OBVIOUS
<1>2. /\ DOMAIN M = DOMAIN L \cup {k} /\ \A j \in DOMAIN L : M[j] = L[j]
      /\ k \notin DOMAIN L => M[k] = NewLevel
  BY <1>1 DEF WithNew
<1>3. ASSUME k \notin DOMAIN L
      PROVE  LevelShows(NewLevel, F, X, k)
  <2>1. PlacedAt(F, k) = {} /\ Before(X, k) = << >>
    BY <1>3 DEF Shows, PlacedAt, Before
  <2>2. Sizes(F, k) = << >>
    BY <2>1 DEF Sizes
  <2>3. << >> \in Shelves
    BY <2>1, BeforeShelf DEF Shows
  <2>4. ToldAll(<< >>, << >>) = << >>
    BY <2>3, ToldNothing
  <2> QED
    BY <2>1, <2>2, <2>4 DEF LevelShows, NewLevel
<1>4. ASSUME NEW j \in DOMAIN M
      PROVE  LevelShows(M[j], F, X, j)
  BY <1>2, <1>3, <1>4 DEF Shows
<1>5. Shows(M, F, X)
  BY <1>2, <1>4 DEF Shows
<1> QED
  BY <1>1, <1>5

(* A change is at the level of its entry and leaves the others. *)
LEMMA ChangedAt ==
  ASSUME NEW L, NEW e, LevelOf(e) \in DOMAIN L
  PROVE  /\ DOMAIN Changed(L, e) = DOMAIN L
         /\ Changed(L, e)[LevelOf(e)] = LevelWith(L[LevelOf(e)], e)
         /\ \A j \in DOMAIN L \ {LevelOf(e)} : Changed(L, e)[j] = L[j]
  BY DEF Changed

(* An order is put in a level, where it was or is new. *)
LEMMA OrderPut ==
  ASSUME NEW L, NEW F, NEW X, NEW G, NEW e \in BookEntries, Shows(L, F, X),
         LevelOf(e) \in DOMAIN L, e.act # "D",
         DOMAIN G = DOMAIN F \cup {e.id}, \A o \in DOMAIN F \ {e.id} : G[o] = F[o],
         LevelOf(G[e.id]) = LevelOf(e), G[e.id].size = e.size,
         e.id \in DOMAIN F => e.act = "U" /\ LevelOf(F[e.id]) = LevelOf(e),
         e.id \notin DOMAIN F => e.act = "A"
  PROVE  Shows(Changed(L, e), G, X)
<1>1. PICK M, k, o, level : /\ M = Changed(L, e) /\ k = LevelOf(e) /\ o = e.id
                            /\ level = LevelWith(L[k], e)
  OBVIOUS
<1>2. /\ DOMAIN M = DOMAIN L /\ M[k] = level /\ k \in DOMAIN L
      /\ \A j \in DOMAIN L \ {k} : M[j] = L[j]
  BY <1>1, ChangedAt
<1>3. \A j \in DOMAIN L : LevelShows(L[j], F, X, j)
  BY DEF Shows
<1>4. PlacedAt(G, k) = PlacedAt(F, k) \cup {o}
  BY <1>1 DEF PlacedAt
<1>5. \A j \in DOMAIN L \ {k} : PlacedAt(G, j) = PlacedAt(F, j) /\ o \notin PlacedAt(G, j)
  BY <1>1 DEF PlacedAt
<1>6. \A j \in DOMAIN L \ {k} : Sizes(G, j) = Sizes(F, j)
  BY <1>1, <1>5 DEF Sizes, PlacedAt
<1>7. \A j \in DOMAIN L \ {k} : LevelShows(M[j], G, X, j)
  BY <1>2, <1>3, <1>5, <1>6 DEF LevelShows
<1>8. PICK was : was = L[k]
  OBVIOUS
<1>9. LevelShows(was, F, X, k)
  BY <1>2, <1>3, <1>8
<1>10. /\ level.orders = (IF e.act = "A" THEN was.orders \cup {o} ELSE was.orders)
       /\ level.deltas = Append(was.deltas, e)
       /\ level = [orders |-> level.orders, deltas |-> level.deltas]
  BY <1>1, <1>8 DEF LevelWith
<1>11. level.orders = PlacedAt(G, k)
  <2>1. CASE o \in DOMAIN F
    <3>1. o \in PlacedAt(F, k) /\ e.act # "A"
      BY <1>1, <2>1 DEF PlacedAt
    <3> QED
      BY <1>4, <1>9, <1>10, <3>1 DEF LevelShows
  <2>2. CASE o \notin DOMAIN F
    BY <1>1, <1>4, <1>9, <1>10, <2>2 DEF LevelShows
  <2> QED
    BY <2>1, <2>2
<1>12. was.deltas \in Seq(BookEntries) /\ ToldAll(Before(X, k), was.deltas) = Sizes(F, k)
  BY <1>9 DEF LevelShows
<1>13. Before(X, k) \in Shelves
  BY BeforeShelf DEF Shows
<1>14. level.deltas \in Seq(BookEntries) /\ \A i \in DOMAIN level.deltas : LevelOf(level.deltas[i]) = k
  <2>1. /\ DOMAIN level.deltas = DOMAIN was.deltas \cup {Len(was.deltas) + 1}
        /\ level.deltas[Len(was.deltas) + 1] = e
        /\ \A i \in DOMAIN was.deltas : level.deltas[i] = was.deltas[i]
    BY <1>10, <1>12
  <2>2. \A i \in DOMAIN was.deltas : LevelOf(was.deltas[i]) = k
    BY <1>9 DEF LevelShows
  <2>3. level.deltas \in Seq(BookEntries)
    BY <1>10, <1>12
  <2> QED
    BY <1>1, <2>1, <2>2, <2>3
<1>15. ToldAll(Before(X, k), level.deltas) = Sizes(G, k)
  <2>1. PICK b, t : b = Sizes(F, k) /\ t = Told(b, e)
    OBVIOUS
  <2>2. b \in Shelves /\ ToldAll(Before(X, k), level.deltas) = t
    BY <1>10, <1>12, <1>13, <2>1, ToldMore
  <2>3. t = With(b, o, e.size)
    BY <1>1, <2>1 DEF Told
  <2>4. DOMAIN b = PlacedAt(F, k) /\ \A x \in PlacedAt(F, k) : b[x] = F[x].size
    BY <2>1 DEF Sizes
  <2>5. DOMAIN t = PlacedAt(G, k) /\ t = [x \in DOMAIN t |-> t[x]]
    BY <1>4, <2>3, <2>4 DEF With
  <2>6. \A x \in PlacedAt(G, k) : t[x] = G[x].size
    BY <1>1, <1>4, <2>3, <2>4 DEF With, PlacedAt
  <2> QED
    BY <2>2, <2>5, <2>6 DEF Sizes
<1>16. LevelShows(M[k], G, X, k)
  BY <1>2, <1>10, <1>11, <1>14, <1>15 DEF LevelShows
<1>17. \A x \in DOMAIN G : LevelOf(G[x]) \in DOMAIN M
  BY <1>1, <1>2 DEF Shows
<1>18. \A j \in DOMAIN M : LevelShows(M[j], G, X, j)
  BY <1>2, <1>7, <1>16
<1>19. Shows(M, G, X)
  BY <1>2, <1>17, <1>18 DEF Shows
<1> QED
  BY <1>1, <1>19

EndedIn(es, e) == [i \in DOMAIN es |-> IF es[i] = e THEN Ended(e) ELSE es[i]]

(* An entry that is ended deletes the order where it was. *)
LEMMA EndedEntry ==
  ASSUME NEW e \in BookEntries
  PROVE  Ended(e) \in BookEntries /\ Ended(e).act = "D" /\ Ended(e).id = e.id
         /\ LevelOf(Ended(e)) = LevelOf(e)
  BY DEF Ended, BookEntries, LevelOf

AllAt(es, k) == \A i \in DOMAIN es : LevelOf(es[i]) = k

(* Ending an entry in a list of changes keeps the others. *)
LEMMA EndedInOf ==
  ASSUME NEW es \in Seq(BookEntries), NEW e \in BookEntries, NEW k, AllAt(es, k)
  PROVE  /\ EndedIn(es, e) \in Seq(BookEntries) /\ AllAt(EndedIn(es, e), k)
         /\ AlikeBut(e.id, es, EndedIn(es, e))
         /\ k # LevelOf(e) => EndedIn(es, e) = es
<1>1. PICK d, n, fs : d = Ended(e) /\ n = Len(es) /\ fs = EndedIn(es, e)
  OBVIOUS
<1>2. d \in BookEntries /\ d.id = e.id /\ LevelOf(d) = LevelOf(e)
  BY <1>1, EndedEntry
<1>3. n \in Nat /\ DOMAIN es = 1 .. n /\ es \in [1 .. n -> BookEntries]
  BY <1>1
<1>4. fs = [i \in 1 .. n |-> IF es[i] = e THEN d ELSE es[i]]
  BY <1>1, <1>3 DEF EndedIn
<1>5. fs \in [1 .. n -> BookEntries]
  BY <1>2, <1>3, <1>4
<1>6. fs \in Seq(BookEntries) /\ Len(fs) = n
  BY <1>3, <1>5
<1>7. k # LevelOf(e) => fs = es
  BY <1>3, <1>4 DEF AllAt
<1>8. AllAt(fs, k)
  BY <1>2, <1>3, <1>4, <1>6 DEF AllAt
<1>9. AlikeBut(e.id, es, fs)
  BY <1>1, <1>2, <1>4, <1>6 DEF AlikeBut
<1> QED
  BY <1>1, <1>6, <1>7, <1>8, <1>9

(* An order ends in the level it is at, and whatever the message said of   *)
(* it before is ended there too.                                           *)
LEMMA OrderEnds ==
  ASSUME NEW L, NEW F, NEW X, NEW G, NEW e \in BookEntries, Shows(L, F, X),
         e.id \in DOMAIN F, LevelOf(F[e.id]) = LevelOf(e),
         DOMAIN G = DOMAIN F \ {e.id}, \A o \in DOMAIN G : G[o] = F[o]
  PROVE  Shows(Changed(WithEnded(L, e), Ended(e)), G, X)
<1>1. PICK W, d, o, k : W = WithEnded(L, e) /\ d = Ended(e) /\ o = e.id /\ k = LevelOf(e)
  OBVIOUS
<1>2. PICK M, level : M = Changed(W, d) /\ level = LevelWith(W[k], d)
  OBVIOUS
<1>3. d \in BookEntries /\ d.act = "D" /\ d.id = o /\ LevelOf(d) = k
  BY <1>1, EndedEntry
<1>4. k \in DOMAIN L /\ \A j \in DOMAIN L : LevelShows(L[j], F, X, j)
  BY <1>1 DEF Shows
<1>5. ASSUME NEW j \in DOMAIN L
      PROVE  W[j] = [orders |-> L[j].orders, deltas |-> EndedIn(L[j].deltas, e)]
  <2>1. PICK l : l = L[j]
    OBVIOUS
  <2>2. l = [orders |-> l.orders, deltas |-> l.deltas]
    BY <1>4, <2>1 DEF LevelShows
  <2>3. W[j] = [l EXCEPT !.deltas = EndedIn(l.deltas, e)]
    BY <1>1, <2>1 DEF WithEnded, EndedIn
  <2>4. [l EXCEPT !.deltas = EndedIn(l.deltas, e)]
          = [orders |-> l.orders, deltas |-> EndedIn(l.deltas, e)]
    BY <2>2
  <2> QED
    BY <2>1, <2>3, <2>4
<1>6. DOMAIN W = DOMAIN L
  BY <1>1 DEF WithEnded
<1>7. /\ DOMAIN M = DOMAIN L /\ M[k] = level
      /\ \A j \in DOMAIN L \ {k} : M[j] = W[j]
  BY <1>2, <1>3, <1>4, <1>6, ChangedAt
<1>8. PlacedAt(G, k) = PlacedAt(F, k) \ {o} /\ \A j \in DOMAIN L \ {k} : PlacedAt(G, j) = PlacedAt(F, j)
  BY <1>1 DEF PlacedAt
<1>9. \A j \in DOMAIN L \ {k} : Sizes(G, j) = Sizes(F, j)
  BY <1>8 DEF Sizes, PlacedAt
<1>10. ASSUME NEW j \in DOMAIN L \ {k}
       PROVE  LevelShows(M[j], G, X, j)
  <2>1. EndedIn(L[j].deltas, e) = L[j].deltas
    <3>1. PICK ds : ds = L[j].deltas
      OBVIOUS
    <3>2. ds \in Seq(BookEntries) /\ AllAt(ds, j) /\ j # LevelOf(e)
      BY <1>1, <1>4, <3>1 DEF LevelShows, AllAt
    <3> QED
      BY <3>1, <3>2, EndedInOf
  <2>2. W[j] = L[j]
    BY <1>4, <1>5, <2>1 DEF LevelShows
  <2>3. M[j] = L[j] /\ LevelShows(L[j], F, X, j)
    BY <1>4, <1>7, <2>2
  <2> QED
    BY <1>8, <1>9, <2>3 DEF LevelShows
<1>11. PICK was, es, fs : was = L[k] /\ es = was.deltas /\ fs = EndedIn(es, e)
  OBVIOUS
<1>12. /\ was.orders = PlacedAt(F, k) /\ es \in Seq(BookEntries)
       /\ AllAt(es, k) /\ ToldAll(Before(X, k), es) = Sizes(F, k)
  BY <1>4, <1>11 DEF LevelShows, AllAt
<1>13. fs \in Seq(BookEntries) /\ AllAt(fs, k) /\ AlikeBut(o, es, fs)
  BY <1>1, <1>11, <1>12, EndedInOf
<1>14. level = [orders |-> was.orders \ {o}, deltas |-> Append(fs, d)]
  <2>1. W[k] = [orders |-> was.orders, deltas |-> fs]
    BY <1>4, <1>5, <1>11
  <2> QED
    BY <1>2, <1>3, <2>1 DEF LevelWith
<1>15. PICK all : all = Append(fs, d)
  OBVIOUS
<1>16. /\ all \in Seq(BookEntries) /\ \A i \in DOMAIN all : LevelOf(all[i]) = k
  <2>1. /\ all \in Seq(BookEntries) /\ DOMAIN all = DOMAIN fs \cup {Len(fs) + 1}
        /\ all[Len(fs) + 1] = d /\ \A i \in DOMAIN fs : all[i] = fs[i]
    BY <1>3, <1>13, <1>15
  <2> QED
    BY <1>3, <1>13, <2>1 DEF AllAt
<1>17. PICK b, p, q : b = Before(X, k) /\ p = ToldAll(b, es) /\ q = ToldAll(b, fs)
  OBVIOUS
<1>18. b \in Shelves
  BY <1>17, BeforeShelf DEF Shows
<1>19. /\ p \in Shelves /\ q \in Shelves /\ DOMAIN p \ {o} = DOMAIN q \ {o}
       /\ \A x \in DOMAIN p \ {o} : p[x] = q[x]
  BY <1>12, <1>13, <1>17, <1>18, ToldOfOthers
<1>20. ToldAll(b, all) = Told(q, d)
  BY <1>3, <1>13, <1>15, <1>17, <1>18, ToldMore
<1>21. Told(q, d) = [x \in DOMAIN q \ {o} |-> q[x]]
  BY <1>3 DEF Told, Without
<1>22. p = Sizes(F, k)
  BY <1>12, <1>17
<1>23. DOMAIN p = PlacedAt(F, k) /\ \A x \in PlacedAt(F, k) : p[x] = F[x].size
  BY <1>22 DEF Sizes
<1>24. DOMAIN q \ {o} = PlacedAt(G, k) /\ \A x \in PlacedAt(G, k) : q[x] = G[x].size
  BY <1>1, <1>8, <1>19, <1>23 DEF PlacedAt
<1>25. ToldAll(b, all) = Sizes(G, k)
  BY <1>20, <1>21, <1>24 DEF Sizes
<1>26. LevelShows(M[k], G, X, k)
  BY <1>7, <1>8, <1>12, <1>14, <1>15, <1>16, <1>17, <1>25 DEF LevelShows
<1>27. Shows(M, G, X)
  BY <1>1, <1>7, <1>10, <1>26 DEF Shows
<1> QED
  BY <1>1, <1>2, <1>27

-----------------------------------------------------------------------------
(* What an entry of a message has to leave. *)
LEMMA MapEntryKeeps ==
  ASSUME OrderInv, plain, NEW book, NEW complete, MapEntry(book, complete),
         FeedOk', Remembers', Shows(levels', book, BookBase)
  PROVE  OrderInv'
<1>1. /\ bookMsg' = bookMsg /\ bookMsg # "none" /\ taken' = taken + 1 /\ feedBook' = book
      /\ messages' = messages /\ clientBook' = clientBook
  BY DEF MapEntry
<1>2. BookTypes /\ BookNotBegun
  BY DEF OrderInv
<1>3. BookTypes'
  BY <1>1, <1>2 DEF BookTypes
<1>4. BookNotBegun' /\ LevelsBetween'
  BY <1>1, <1>2 DEF BookNotBegun, LevelsBetween
<1>5. BookBase' = BookBase
  BY <1>1 DEF BookBase
<1>6. LevelsWithin'
  BY <1>1, <1>5 DEF LevelsWithin
<1> QED
  BY <1>3, <1>4, <1>6 DEF OrderInv

(* An order is added at its level. *)
LEMMA AddEntryKeeps ==
  ASSUME OrderInv, NEW id \in OrderIds, NEW side \in BookSides, NEW price \in BookPrices,
         NEW size \in OrderSizes, NEW sideSent \in BOOLEAN,
         AddEntry(id, side, price, size, sideSent), plain'
  PROVE  OrderInv'
<1>1. PICK e, p, book : /\ e = BookEntry("A", id, side, price, size)
                        /\ p = OrderOf(side, price, size) /\ book = With(feedBook, id, p)
  OBVIOUS
<1>2. /\ MapEntry(book, sideSent) /\ id \notin DOMAIN feedBook
      /\ bookMsg # "none" /\ plain /\ sideSent /\ feedBook' = book
      /\ orderMap' = WithNew(orderMap, id, e)
      /\ levels' = Placed(levels, e)
  BY <1>1 DEF AddEntry, MapEntry
<1>3. FeedOk /\ BookTypes /\ Remembers /\ Shows(levels, feedBook, BookBase)
  BY <1>2 DEF OrderInv, LevelsWithin
<1>4. /\ e \in BookEntries /\ e.act = "A" /\ e.id = id /\ e.size = size
      /\ LevelOf(e) = <<side, price>>
  BY <1>1, <1>3 DEF BookEntry, BookEntries, LevelOf, BookTypes
<1>5. /\ p \in [side : BookSides, price : BookPrices, size : OrderSizes] /\ p.size = size
      /\ LevelOf(p) = <<side, price>>
  BY <1>1 DEF OrderOf, LevelOf
<1>6. /\ DOMAIN book = DOMAIN feedBook \cup {id} /\ book[id] = p
      /\ \A o \in DOMAIN feedBook : book[o] = feedBook[o]
  BY <1>1, <1>2 DEF With
<1>7. FeedOk'
  BY <1>2, <1>3, <1>5, <1>6 DEF FeedOk
<1>8. Remembers'
  <2>1. /\ DOMAIN orderMap' = DOMAIN orderMap \cup {id} /\ orderMap'[id] = e
        /\ \A o \in DOMAIN orderMap : orderMap'[o] = orderMap[o]
    BY <1>2, <1>3 DEF WithNew, Remembers
  <2> QED
    BY <1>2, <1>3, <1>4, <1>5, <1>6, <2>1 DEF Remembers
<1>9. PICK L, X : L = WithNew(levels, LevelOf(e), NewLevel) /\ X = BookBase
  OBVIOUS
<1>10. Shows(L, feedBook, X) /\ LevelOf(e) \in DOMAIN L /\ levels' = Changed(L, e)
  BY <1>2, <1>3, <1>9, LevelOpened DEF Placed, WithNew
<1>11. Shows(Changed(L, e), book, X)
  BY <1>2, <1>4, <1>5, <1>6, <1>10, OrderPut
<1> QED
  BY <1>2, <1>7, <1>8, <1>9, <1>10, <1>11, MapEntryKeeps

(* An order is deleted from the level it is on. *)
LEMMA RemoveEntryKeeps ==
  ASSUME OrderInv, NEW id \in OrderIds, RemoveEntry(id), plain'
  PROVE  OrderInv'
<1>1. PICK e, x, book : /\ e = BookEntry("D", id, NoSide, NoPrice, 0) /\ x = orderMap[id]
                        /\ book = Without(feedBook, id)
  OBVIOUS
<1>2. /\ MapEntry(book, TRUE) /\ id \in DOMAIN feedBook
      /\ bookMsg # "none" /\ plain /\ feedBook' = book
      /\ orderMap' = Without(orderMap, id)
      /\ levels' = IF Known(e) /\ HasLevel(Existing(e)) THEN Withdrawn(Existing(e)) ELSE levels
  BY <1>1 DEF RemoveEntry, MapEntry
<1>3. FeedOk /\ BookTypes /\ Remembers /\ Shows(levels, feedBook, BookBase)
  BY <1>2 DEF OrderInv, LevelsWithin
<1>4. e.id = id /\ Existing(e) = x /\ Known(e)
  BY <1>1, <1>2, <1>3 DEF BookEntry, Existing, Known, Remembers
<1>5. x \in BookEntries /\ x.id = id /\ LevelOf(x) = LevelOf(feedBook[id])
  BY <1>1, <1>2, <1>3 DEF Remembers
<1>6. levels' = Changed(WithEnded(levels, x), Ended(x))
  BY <1>2, <1>3, <1>4, <1>5 DEF HasLevel, Shows, Withdrawn
<1>7. DOMAIN book = DOMAIN feedBook \ {id} /\ \A o \in DOMAIN book : book[o] = feedBook[o]
  BY <1>1 DEF Without
<1>8. FeedOk'
  BY <1>2, <1>3, <1>7 DEF FeedOk
<1>9. Remembers'
  <2>1. /\ DOMAIN orderMap' = DOMAIN orderMap \ {id}
        /\ \A o \in DOMAIN orderMap \ {id} : orderMap'[o] = orderMap[o]
    BY <1>2 DEF Without
  <2> QED
    BY <1>2, <1>3, <1>7, <2>1 DEF Remembers
<1>10. PICK X : X = BookBase
  OBVIOUS
<1>11. Shows(Changed(WithEnded(levels, x), Ended(x)), book, X)
  BY <1>2, <1>3, <1>5, <1>7, <1>10, OrderEnds
<1> QED
  BY <1>2, <1>6, <1>8, <1>9, <1>10, <1>11, MapEntryKeeps

(* An order that moves ends in its level and is put in another. *)
LEMMA UpdateEntryKeeps ==
  ASSUME OrderInv, NEW id \in OrderIds, NEW price \in BookPrices, NEW size \in OrderSizes,
         NEW priceSent \in BOOLEAN, UpdateEntry(id, price, size, priceSent), plain'
  PROVE  OrderInv'
<1>1. PICK e, x, F, p, book :
        /\ e = BookEntry("U", id, NoSide, price, size) /\ x = orderMap[id] /\ F = feedBook
        /\ p = OrderOf(F[id].side, price, size)
        /\ book = [F EXCEPT ![id] = p]
  OBVIOUS
<1>2. /\ MapEntry(book, priceSent) /\ id \in DOMAIN F
      /\ bookMsg # "none" /\ plain /\ priceSent /\ feedBook' = book
      /\ orderMap' = OrdersAfter(e) /\ levels' = LevelsAfter(e)
  BY <1>1 DEF UpdateEntry, MapEntry
<1>3. FeedOk /\ BookTypes /\ Remembers /\ Shows(levels, F, BookBase)
  BY <1>1, <1>2 DEF OrderInv, LevelsWithin
<1>4. e.id = id /\ e.price = price /\ Existing(e) = x /\ Known(e)
  BY <1>1, <1>2, <1>3 DEF BookEntry, Existing, Known, Remembers
<1>5. x \in BookEntries /\ x.id = id /\ LevelOf(x) = LevelOf(F[id]) /\ HasLevel(x)
  BY <1>1, <1>2, <1>3 DEF Remembers, HasLevel, Shows
<1>6. /\ F[id] \in [side : BookSides, price : BookPrices, size : OrderSizes]
      /\ x.side = F[id].side /\ x.price = F[id].price
  BY <1>1, <1>2, <1>3, <1>5 DEF FeedOk, LevelOf
<1>7. /\ p \in [side : BookSides, price : BookPrices, size : OrderSizes]
      /\ p.size = size /\ LevelOf(p) = <<x.side, price>>
  BY <1>1, <1>6 DEF OrderOf, LevelOf
<1>8. /\ DOMAIN book = DOMAIN F /\ book[id] = p
      /\ \A o \in DOMAIN F \ {id} : book[o] = F[o]
  BY <1>1, <1>2
<1>9. FeedOk'
  BY <1>1, <1>2, <1>3, <1>7, <1>8 DEF FeedOk
<1>10. PICK X : X = BookBase
  OBVIOUS
<1>11. CASE price = x.price
  <2>1. PICK s : s = Sided(e)
    OBVIOUS
  <2>2. /\ s \in BookEntries /\ s.act = "U" /\ s.id = id /\ s.size = size
        /\ LevelOf(s) = <<x.side, price>>
    <3>1. s = [e EXCEPT !.side = x.side]
      BY <1>4, <2>1 DEF Sided
    <3>2. s = [act |-> "U", id |-> id, side |-> x.side, price |-> price, size |-> size, at |-> taken + 1]
      BY <1>1, <3>1 DEF BookEntry
    <3> QED
      BY <1>3, <1>6, <3>2 DEF BookEntries, LevelOf, BookTypes
  <2>3. orderMap' = orderMap /\ levels' = Changed(levels, s)
    BY <1>2, <1>4, <1>5, <1>11, <2>1 DEF OrdersAfter, LevelsAfter, KeepsPrice
  <2>4. LevelOf(s) = LevelOf(F[id]) /\ LevelOf(s) = LevelOf(x)
    BY <1>5, <1>11, <2>2 DEF LevelOf
  <2>5. Remembers'
    BY <1>1, <1>2, <1>3, <1>7, <1>8, <2>2, <2>3, <2>4 DEF Remembers
  <2>6. Shows(Changed(levels, s), book, X)
    <3>1. LevelOf(s) \in DOMAIN levels /\ Shows(levels, F, X) /\ DOMAIN book = DOMAIN F \cup {id}
      BY <1>2, <1>3, <1>5, <1>8, <1>10, <2>4 DEF HasLevel
    <3> QED
      BY <1>2, <1>7, <1>8, <2>2, <2>4, <3>1, OrderPut
  <2> QED
    BY <1>2, <1>9, <1>10, <2>3, <2>5, <2>6, MapEntryKeeps
<1>12. CASE price # x.price
  <2>1. PICK m : m = Moved(e)
    OBVIOUS
  <2>2. /\ m \in BookEntries /\ m.act = "A" /\ m.id = id /\ m.size = size
        /\ LevelOf(m) = <<x.side, price>>
    <3>1. m = [[e EXCEPT !.act = "A"] EXCEPT !.side = x.side]
      BY <1>4, <2>1 DEF Moved
    <3>2. PICK f : f = [e EXCEPT !.act = "A"]
      OBVIOUS
    <3>3. f = [act |-> "A", id |-> id, side |-> NoSide, price |-> price, size |-> size, at |-> taken + 1]
      BY <1>1, <3>2 DEF BookEntry
    <3>4. m = [f EXCEPT !.side = x.side]
      BY <3>1, <3>2
    <3>5. m = [act |-> "A", id |-> id, side |-> x.side, price |-> price, size |-> size, at |-> taken + 1]
      BY <3>3, <3>4
    <3> QED
      BY <1>3, <1>6, <3>5 DEF BookEntries, LevelOf, BookTypes
  <2>3. PICK L, M, G : /\ L = Changed(WithEnded(levels, x), Ended(x)) /\ G = Without(F, id)
                       /\ M = WithNew(L, LevelOf(m), NewLevel)
    OBVIOUS
  <2>4. orderMap' = [orderMap EXCEPT ![id] = m] /\ levels' = Changed(M, m)
    BY <1>2, <1>4, <1>5, <1>12, <2>1, <2>3
       DEF OrdersAfter, LevelsAfter, KeepsPrice, Withdrawn, Placed
  <2>5. Remembers'
    <3>1. /\ DOMAIN orderMap' = DOMAIN F /\ orderMap'[id] = m
          /\ \A o \in DOMAIN F \ {id} : orderMap'[o] = orderMap[o]
      BY <1>1, <1>2, <1>3, <2>4 DEF Remembers
    <3> QED
      BY <1>1, <1>2, <1>3, <1>7, <1>8, <2>2, <3>1 DEF Remembers
  <2>6. DOMAIN G = DOMAIN F \ {id} /\ \A o \in DOMAIN G : G[o] = F[o]
    BY <2>3 DEF Without
  <2>7. Shows(L, G, X)
    BY <1>2, <1>3, <1>5, <1>10, <2>3, <2>6, OrderEnds
  <2>8. Shows(M, G, X) /\ LevelOf(m) \in DOMAIN M
    BY <2>3, <2>7, LevelOpened DEF WithNew
  <2>9. /\ DOMAIN book = DOMAIN G \cup {id} /\ \A o \in DOMAIN G \ {id} : book[o] = G[o]
        /\ id \notin DOMAIN G /\ LevelOf(book[id]) = LevelOf(m) /\ book[id].size = m.size
    BY <1>2, <1>7, <1>8, <2>2, <2>6
  <2>10. Shows(Changed(M, m), book, X)
    BY <2>2, <2>8, <2>9, OrderPut
  <2> QED
    BY <1>2, <1>9, <1>10, <2>4, <2>5, <2>10, MapEntryKeeps
<1> QED
  BY <1>11, <1>12

(* A message begins without changes. *)
LEMMA StartUpdateKeeps ==
  ASSUME OrderInv, NEW class \in {"refresh", "update"}, StartUpdate(class), plain'
  PROVE  OrderInv'
<1>1. /\ plain /\ bookMsg = "none" /\ bookMsg' = class /\ taken' = 0
      /\ messages' = messages + 1 /\ clientBook' = clientBook
      /\ orderMap' = [o \in DOMAIN orderMap |-> [orderMap[o] EXCEPT !.at = 0]]
      /\ levels' = [k \in DOMAIN levels |-> [levels[k] EXCEPT !.deltas = << >>]]
      /\ class = "refresh" => messages = 0 /\ feedBook' = << >>
      /\ class = "update" => feedBook' = feedBook
  BY DEF StartUpdate
<1>2. FeedOk /\ BookTypes /\ Remembers /\ BookNotBegun /\ LevelsBetween
  BY <1>1 DEF OrderInv
<1>3. /\ DOMAIN feedBook' = DOMAIN feedBook
      /\ \A o \in DOMAIN feedBook : feedBook'[o] = feedBook[o]
  <2>1. CASE class = "refresh"
    <3>1. DOMAIN feedBook = {}
      BY <1>1, <1>2, <2>1 DEF BookNotBegun
    <3>2. << >> = [x \in {} |-> 0]
      OBVIOUS
    <3> QED
      BY <1>1, <2>1, <3>1, <3>2
  <2>2. CASE class = "update"
    BY <1>1, <2>2
  <2> QED
    BY <2>1, <2>2
<1>4. FeedOk' /\ BookTypes' /\ BookNotBegun' /\ LevelsBetween'
  <2>1. FeedOk'
    BY <1>2, <1>3 DEF FeedOk
  <2>2. BookTypes' /\ BookNotBegun' /\ LevelsBetween'
    BY <1>1, <1>2 DEF BookTypes, BookNotBegun, LevelsBetween
  <2> QED
    BY <2>1, <2>2
<1>5. Remembers'
  <2>1. DOMAIN orderMap' = DOMAIN feedBook'
    BY <1>1, <1>2, <1>3 DEF Remembers
  <2>2. ASSUME NEW o \in DOMAIN feedBook'
        PROVE  /\ orderMap'[o] \in BookEntries /\ orderMap'[o].id = o
               /\ LevelOf(orderMap'[o]) = LevelOf(feedBook'[o])
    <3>1. PICK x, y : x = orderMap[o] /\ y = orderMap'[o]
      OBVIOUS
    <3>2. x \in BookEntries /\ x.id = o /\ LevelOf(x) = LevelOf(feedBook'[o])
      BY <1>2, <1>3, <3>1 DEF Remembers
    <3>3. y = [x EXCEPT !.at = 0]
      BY <1>1, <1>2, <1>3, <3>1 DEF Remembers
    <3>4. y \in BookEntries /\ y.id = x.id /\ y.side = x.side /\ y.price = x.price
      BY <3>2, <3>3 DEF BookEntries
    <3> QED
      BY <3>1, <3>2, <3>4 DEF LevelOf
  <2> QED
    BY <2>1, <2>2 DEF Remembers
<1>6. PICK X : X = BookBase'
  OBVIOUS
<1>7. \A k \in DOMAIN levels : PlacedAt(feedBook', k) = PlacedAt(feedBook, k)
  BY <1>3 DEF PlacedAt
<1>8. \A k \in DOMAIN levels : Sizes(feedBook', k) = Sizes(feedBook, k)
  BY <1>3, <1>7 DEF Sizes, PlacedAt
<1>9. DOMAIN X \subseteq DOMAIN levels /\ \A k \in DOMAIN levels : Before(X, k) = Sizes(feedBook, k)
  <2>1. CASE class = "refresh"
    <3>1. DOMAIN levels = {} /\ X = << >>
      BY <1>1, <1>2, <1>6, <2>1 DEF BookNotBegun, BookBase
    <3>2. << >> = [x \in {} |-> 0]
      OBVIOUS
    <3> QED
      BY <3>1, <3>2
  <2>2. CASE class = "update"
    <3>1. X = clientBook
      BY <1>1, <1>6, <2>2 DEF BookBase
    <3> QED
      BY <1>1, <1>2, <3>1 DEF LevelsBetween, Before
  <2> QED
    BY <2>1, <2>2
<1>10. \A k \in DOMAIN levels : Sizes(feedBook, k) \in Shelves
  <2> SUFFICES ASSUME NEW k \in DOMAIN levels PROVE Sizes(feedBook, k) \in Shelves
    OBVIOUS
  <2>1. PICK b : b = Sizes(feedBook, k)
    OBVIOUS
  <2>2. /\ b = [o \in DOMAIN b |-> b[o]] /\ DOMAIN b \subseteq OrderIds
        /\ \A o \in DOMAIN b : b[o] \in OrderSizes \cup {0}
    BY <1>2, <2>1 DEF Sizes, PlacedAt, FeedOk
  <2> QED
    BY <2>1, <2>2, Shelf
<1>11. ASSUME NEW k \in DOMAIN levels
       PROVE  LevelShows(levels'[k], feedBook', X, k)
  <2>1. PICK l, m : l = levels[k] /\ m = levels'[k]
    OBVIOUS
  <2>2. l.orders = PlacedAt(feedBook', k) /\ l = [orders |-> l.orders, deltas |-> l.deltas]
    BY <1>1, <1>2, <1>7, <2>1 DEF LevelsBetween
  <2>3. m = [l EXCEPT !.deltas = << >>]
    BY <1>1, <2>1
  <2>4. m = [orders |-> l.orders, deltas |-> << >>]
    BY <2>2, <2>3
  <2>5. m.orders = l.orders /\ m.deltas = << >> /\ m = [orders |-> m.orders, deltas |-> m.deltas]
    BY <2>4
  <2>6. ToldAll(Before(X, k), << >>) = Sizes(feedBook', k)
    BY <1>8, <1>9, <1>10, ToldNothing
  <2> QED
    BY <2>1, <2>2, <2>5, <2>6 DEF LevelShows
<1>12. Shows(levels', feedBook', X)
  <2>1. DOMAIN levels' = DOMAIN levels
    BY <1>1
  <2>2. \A k \in DOMAIN X : X[k] \in Shelves
    BY <1>9, <1>10 DEF Before
  <2>3. \A o \in DOMAIN feedBook' : LevelOf(feedBook'[o]) \in DOMAIN levels'
    BY <1>1, <1>2, <1>3, <2>1 DEF LevelsBetween
  <2> QED
    BY <1>9, <1>11, <2>1, <2>2, <2>3 DEF Shows
<1>13. LevelsWithin'
  BY <1>6, <1>12 DEF LevelsWithin
<1> QED
  BY <1>4, <1>5, <1>13 DEF OrderInv

(* The message is sent and the client's book is the feed's. *)
LEMMA SendBookKeeps ==
  ASSUME OrderInv, SendBook, plain'
  PROVE  OrderInv'
<1>1. PICK X, msg, C, L : /\ X = BookBase /\ msg = BuildMamdaMessage /\ C = Received(X, msg)
                          /\ L = EndUpdate
  OBVIOUS
<1>2. /\ plain /\ bookMsg # "none" /\ bookMsg' = "none" /\ clientBook' = C /\ levels' = L
      /\ orderMap' = orderMap /\ taken' = taken /\ messages' = messages /\ feedBook' = feedBook
  BY <1>1 DEF SendBook, BookBase
<1>3. FeedOk /\ BookTypes /\ Remembers /\ BookNotBegun /\ Shows(levels, feedBook, X)
  BY <1>1, <1>2 DEF OrderInv, LevelsWithin
<1>4. \A k \in DOMAIN levels : LevelShows(levels[k], feedBook, X, k)
  BY <1>3 DEF Shows
<1>5. PICK D : D = {k \in DOMAIN levels : ~Emptied(k)}
  OBVIOUS
<1>6. /\ DOMAIN L = D /\ \A k \in D : L[k] = [levels[k] EXCEPT !.deltas = << >>]
  BY <1>1, <1>5 DEF EndUpdate
<1>7. /\ DOMAIN msg = DOMAIN levels
      /\ \A k \in DOMAIN levels : msg[k].action # "D" <=> k \in D
      /\ \A k \in D : msg[k].entries = levels[k].deltas
  BY <1>1, <1>5 DEF BuildMamdaMessage
<1>8. DOMAIN X \subseteq DOMAIN levels
  BY <1>3 DEF Shows
<1>9. /\ DOMAIN C = D /\ C = [k \in DOMAIN C |-> C[k]]
      /\ \A k \in D : C[k] = ToldAll(Before(X, k), msg[k].entries)
  <2>1. {k \in DOMAIN X \cup DOMAIN msg : k \in DOMAIN msg => msg[k].action # "D"} = D
    BY <1>5, <1>7, <1>8
  <2>2. C = [k \in D |-> IF k \in DOMAIN msg THEN ToldAll(Before(X, k), msg[k].entries)
                                             ELSE Before(X, k)]
    BY <1>1, <2>1 DEF Received, Before
  <2> QED
    BY <1>5, <1>7, <2>2
<1>10. \A k \in D : PlacedAt(feedBook, k) # {} /\ C[k] = Sizes(feedBook, k) /\ k \in DOMAIN levels
  BY <1>4, <1>5, <1>7, <1>9 DEF LevelShows, Emptied
<1>11. \A o \in DOMAIN feedBook : LevelOf(feedBook[o]) \in D
  <2> SUFFICES ASSUME NEW o \in DOMAIN feedBook PROVE LevelOf(feedBook[o]) \in D
    OBVIOUS
  <2>1. PICK k : k = LevelOf(feedBook[o])
    OBVIOUS
  <2>2. k \in DOMAIN levels /\ o \in PlacedAt(feedBook, k)
    BY <1>3, <2>1 DEF Shows, PlacedAt
  <2>3. levels[k].orders = PlacedAt(feedBook, k)
    BY <1>4, <2>2 DEF LevelShows
  <2> QED
    BY <1>5, <2>1, <2>2, <2>3 DEF Emptied
<1>12. ASSUME NEW k \in D
       PROVE  /\ L[k].orders = PlacedAt(feedBook, k)
              /\ L[k] = [orders |-> L[k].orders, deltas |-> L[k].deltas]
  <2>1. PICK l, m : l = levels[k] /\ m = L[k]
    OBVIOUS
  <2>2. l.orders = PlacedAt(feedBook, k) /\ l = [orders |-> l.orders, deltas |-> l.deltas]
    BY <1>4, <1>10, <2>1 DEF LevelShows
  <2>3. m = [l EXCEPT !.deltas = << >>]
    BY <1>6, <2>1
  <2>4. m = [orders |-> l.orders, deltas |-> << >>]
    BY <2>2, <2>3
  <2> QED
    BY <2>1, <2>2, <2>4
<1>13. FeedOk' /\ BookTypes' /\ Remembers'
  BY <1>2, <1>3 DEF FeedOk, BookTypes, Remembers
<1>14. BookNotBegun'
  BY <1>2, <1>3 DEF BookNotBegun
<1>15. LevelsBetween'
  BY <1>2, <1>6, <1>9, <1>10, <1>11, <1>12 DEF LevelsBetween
<1>16. LevelsWithin'
  BY <1>2 DEF LevelsWithin
<1> QED
  BY <1>13, <1>14, <1>15, <1>16 DEF OrderInv

(* The invariant of the order book holds in every reachable state. *)
LEMMA OrderInvariance == BookSpec => []OrderInv
<1>1. BookInit => OrderInv
  <2> SUFFICES ASSUME BookInit PROVE OrderInv
    OBVIOUS
  <2>1. << >> = [x \in {} |-> 0]
    OBVIOUS
  <2>2. DOMAIN << >> = {}
    BY <2>1
  <2> QED
    BY <2>1, <2>2 DEF BookInit, OrderInv, FeedOk, BookTypes, Remembers, BookNotBegun,
                      LevelsBetween, LevelsWithin
<1>2. OrderInv /\ [BookNext]_bookVars => OrderInv'
  <2> SUFFICES ASSUME OrderInv, [BookNext]_bookVars, plain' PROVE OrderInv'
    BY DEF OrderInv
  <2>1. ASSUME NEW class \in {"refresh", "update"}, StartUpdate(class) PROVE OrderInv'
    BY <2>1, StartUpdateKeeps
  <2>2. ASSUME NEW id \in OrderIds, NEW side \in BookSides, NEW price \in BookPrices,
               NEW size \in OrderSizes, NEW b \in BOOLEAN, AddEntry(id, side, price, size, b)
        PROVE  OrderInv'
    BY <2>2, AddEntryKeeps
  <2>3. ASSUME NEW id \in OrderIds, NEW price \in BookPrices, NEW size \in OrderSizes,
               NEW b \in BOOLEAN, UpdateEntry(id, price, size, b)
        PROVE  OrderInv'
    BY <2>3, UpdateEntryKeeps
  <2>4. ASSUME NEW id \in OrderIds, RemoveEntry(id) PROVE OrderInv'
    BY <2>4, RemoveEntryKeeps
  <2>5. CASE DecodeFails
    BY <2>5 DEF DecodeFails
  <2>6. CASE SendBook
    BY <2>6, SendBookKeeps
  <2>7. CASE UNCHANGED bookVars
    BY <2>7 DEF bookVars, OrderInv, FeedOk, BookTypes, Remembers, BookNotBegun, LevelsBetween,
                LevelsWithin, BookBase
  <2> QED
    BY <2>1, <2>2, <2>3, <2>4, <2>5, <2>6, <2>7 DEF BookNext
<1> QED
  BY <1>1, <1>2, PTL DEF BookSpec

(* Between the messages of a plain feed a client's book is the feed's,     *)
(* whatever the orders, prices and sizes and however many entries a        *)
(* message has (UPABookByOrderMessage, UPALevel::AddEntry).                *)
THEOREM OrdersArrive == BookSpec => []BookArrives
<1>1. OrderInv => BookArrives
  <2> SUFFICES ASSUME OrderInv, plain, bookMsg = "none" PROVE BookArrives
    BY DEF BookArrives
  <2>1. LevelsBetween
    BY DEF OrderInv
  <2>2. PICK S : S = {<<feedBook[o].side, feedBook[o].price>> : o \in DOMAIN feedBook}
    OBVIOUS
  <2>3. S = DOMAIN clientBook
    BY <2>1, <2>2 DEF LevelsBetween, PlacedAt, LevelOf
  <2>4. clientBook = [k \in S |-> Sizes(feedBook, k)]
    BY <2>1, <2>3 DEF LevelsBetween
  <2>5. \A k \in S : Sizes(feedBook, k)
          = [o \in {o \in DOMAIN feedBook : <<feedBook[o].side, feedBook[o].price>> = k}
               |-> feedBook[o].size]
    BY DEF Sizes, PlacedAt, LevelOf
  <2> QED
    BY <2>2, <2>4, <2>5, Zenon DEF BookArrives
<1> QED
  BY <1>1, OrderInvariance, PTL

-----------------------------------------------------------------------------
(* Texts that are cut to a field.                                          *)

(* The smaller one of two numbers. *)
LEMMA MinOfTwo ==
  ASSUME NEW a \in Int, NEW b \in Int
  PROVE  Min({a, b}) = IF a <= b THEN a ELSE b
<1>1. CASE a <= b
  <2>1. \A x \in {a, b} : (\A y \in {a, b} : x <= y) => x = a
    BY <1>1
  <2>2. a \in {a, b} /\ \A y \in {a, b} : a <= y
    BY <1>1
  <2> QED
    BY <1>1, <2>1, <2>2 DEF Min
<1>2. CASE ~(a <= b)
  <2>1. \A x \in {a, b} : (\A y \in {a, b} : x <= y) => x = b
    BY <1>2
  <2>2. b \in {a, b} /\ \A y \in {a, b} : b <= y
    BY <1>2
  <2> QED
    BY <1>2, <2>1, <2>2 DEF Min
<1> QED
  BY <1>1, <1>2

(* A text that is shorter than the field stays as it is. *)
LEMMA CutShort ==
  ASSUME NEW text \in Seq(Nat), NEW size \in Nat, Len(text) < size
  PROVE  Cut(text, size) = text
<1>1. Len(text) \in Nat /\ Len(text) \in Int /\ size - 1 \in Int /\ Len(text) <= size - 1
  OBVIOUS
<1>2. Min({Len(text), size - 1}) = Len(text)
  BY <1>1, MinOfTwo
<1>3. SubSeq(text, 1, Len(text)) = text
  OBVIOUS
<1> QED
  BY <1>2, <1>3 DEF Cut

(* To cut a text a second time changes nothing. *)
LEMMA CutTwice ==
  ASSUME NEW text \in Seq(Nat), NEW size \in Nat \ {0}
  PROVE  Cut(Cut(text, size), size) = Cut(text, size)
<1>1. Len(text) \in Nat /\ Len(text) \in Int /\ size - 1 \in Int /\ size - 1 \in Nat
  OBVIOUS
<1>2. PICK m : m = Min({Len(text), size - 1})
  OBVIOUS
<1>3. m \in Nat /\ m <= Len(text) /\ m <= size - 1
  BY <1>1, <1>2, MinOfTwo
<1>4. SubSeq(text, 1, m) \in Seq(Nat) /\ Len(SubSeq(text, 1, m)) = m
  BY <1>3
<1>5. Cut(text, size) = SubSeq(text, 1, m)
  BY <1>2 DEF Cut
<1>6. m < size
  BY <1>3
<1> QED
  BY <1>4, <1>5, <1>6, CutShort

(* The name of a service fits its field. *)
LEMMA NameWhole ==
  ASSUME NEW name \in ServiceNames
  PROVE  Cut(name, DirectoryTextSize) = name
<1>1. name \in Seq(Nat) /\ Len(name) < DirectoryTextSize /\ DirectoryTextSize \in Nat
  BY HandshakeAssumption
<1> QED
  BY <1>1, CutShort

-----------------------------------------------------------------------------
(* A consumer's table and the services it is about.                        *)

TablesOf(K, V) == UNION {[D -> V] : D \in SUBSET K}
SourceRecords == [name : ServiceNames, up : BOOLEAN, accepting : BOOLEAN]
SourceTables == TablesOf(ServiceIds, SourceRecords)
NameTables == TablesOf(ServiceNames, ServiceIds)
Services == TablesOf(ServiceIds, Service)
ToldTables(L) == [sources : SourceTables, names : NameTables, live : SUBSET ServiceIds, listed : L]

NamesApart(S) == \A i, j \in DOMAIN S : S[i].name = S[j].name => i = j
TableFits(told, S) ==
  /\ \A id \in DOMAIN told.sources :
       /\ id \in DOMAIN S /\ S[id].name \in DOMAIN told.names /\ told.names[S[id].name] = id
  /\ \A id \in told.live : id \in DOMAIN told.sources /\ told.sources[id].up
UpToDate(srcs, S, id) == id \in DOMAIN srcs /\ srcs[id].up = S[id].up
EntryFits(e, S) ==
  /\ e.decodes /\ e.id \in DOMAIN S
  /\ "info" \in DOMAIN e.parts => e.parts.info.name = S[e.id].name
  /\ "state" \in DOMAIN e.parts => e.parts.state = State(S[e.id].up, S[e.id].up)

SameBut(w, m, k) == \A i \in DOMAIN m : i # k => w[i] = m[i]

(* An assignment changes one key of a map. *)
LEMMA Mapped ==
  ASSUME NEW K, NEW V, NEW m \in TablesOf(K, V), NEW k \in K, NEW v \in V
  PROVE  /\ With(m, k, v) \in TablesOf(K, V)
         /\ DOMAIN With(m, k, v) = DOMAIN m \cup {k}
         /\ With(m, k, v)[k] = v
         /\ SameBut(With(m, k, v), m, k)
<1>1. PICK D \in SUBSET K : m \in [D -> V]
  BY DEF TablesOf
<1>2. DOMAIN m = D /\ \A i \in D : m[i] \in V
  BY <1>1
<1>3. PICK w : w = With(m, k, v)
  OBVIOUS
<1>4. w = [i \in D \cup {k} |-> IF i = k THEN v ELSE m[i]]
  BY <1>2, <1>3 DEF With
<1>5. w \in [D \cup {k} -> V]
  BY <1>2, <1>4
<1>6. D \cup {k} \in SUBSET K
  BY <1>1
<1>7. w \in TablesOf(K, V)
  BY <1>5, <1>6 DEF TablesOf
<1> QED
  BY <1>1, <1>2, <1>3, <1>4, <1>7 DEF SameBut

(* The same of the table of names. *)
LEMMA NameMapped ==
  ASSUME NEW m \in NameTables, NEW n \in ServiceNames, NEW id \in ServiceIds
  PROVE  /\ With(m, n, id) \in NameTables
         /\ DOMAIN With(m, n, id) = DOMAIN m \cup {n}
         /\ With(m, n, id)[n] = id
         /\ SameBut(With(m, n, id), m, n)
<1>1. m \in TablesOf(ServiceNames, ServiceIds)
  BY DEF NameTables
<1> QED
  BY <1>1, Mapped DEF NameTables

(* A map is the function of its entries. *)
LEMMA Typed ==
  ASSUME NEW K, NEW V, NEW m \in TablesOf(K, V)
  PROVE  m = [i \in DOMAIN m |-> m[i]] /\ DOMAIN m \subseteq K /\ \A i \in DOMAIN m : m[i] \in V
BY DEF TablesOf

(* An entry that is right about a service leaves a table that fits fitting: *)
(* what was up to date stays so, and its service is if it has the state.    *)
LEMMA EntryTaken ==
  ASSUME NEW S \in Services, NamesApart(S), NEW L, NEW told \in ToldTables(L),
         TableFits(told, S), NEW e, EntryFits(e, S), Decoded(e) \in L,
         "info" \in DOMAIN e.parts \/ e.id \in DOMAIN told.sources
  PROVE  /\ TakeEntry(told, e) \in ToldTables(L) /\ TableFits(TakeEntry(told, e), S)
         /\ DOMAIN told.sources \subseteq DOMAIN TakeEntry(told, e).sources
         /\ \A id \in DOMAIN S : UpToDate(told.sources, S, id) =>
                                   UpToDate(TakeEntry(told, e).sources, S, id)
         /\ "state" \in DOMAIN e.parts => UpToDate(TakeEntry(told, e).sources, S, e.id)
<1>1. CASE "state" \notin DOMAIN e.parts
  <2>1. TakeEntry(told, e) = told
    BY <1>1 DEF TakeEntry
  <2> QED
    BY <1>1, <2>1
<1>2. CASE "state" \in DOMAIN e.parts
  <2>1. PICK id : id = e.id
    OBVIOUS
  <2>2. /\ id \in DOMAIN S /\ id \in ServiceIds /\ S[id] \in Service
        /\ \A i \in DOMAIN S : S[i] \in Service
    BY <2>1, Typed DEF EntryFits, Services
  <2>3. S[id].name \in ServiceNames /\ S[id].up \in BOOLEAN
    BY <2>2 DEF Service
  <2>4. PICK d : d = Decoded(e)
    OBVIOUS
  <2>5. d.id = id /\ d.state = State(S[id].up, S[id].up)
    BY <1>2, <2>1, <2>4 DEF Decoded, EntryFits
  <2>6. d.state.up = S[id].up /\ d.state.accepting = S[id].up
    BY <2>5 DEF State
  <2>7. PICK known \in BOOLEAN : known = IF id \in DOMAIN told.sources THEN TRUE ELSE FALSE
    OBVIOUS
  <2>8. ~known => d.info.name = S[id].name
    <3>1. ASSUME ~known PROVE d.info.name = S[id].name
      <4>1. "info" \in DOMAIN e.parts /\ e.parts.info.name = S[id].name
        BY <2>1, <2>7, <3>1 DEF EntryFits
      <4>2. d.info = DecodedInfo(e.parts.info)
        BY <2>4, <4>1 DEF Decoded
      <4>3. d.info.name = Cut(S[id].name, DirectoryTextSize)
        BY <4>1, <4>2 DEF DecodedInfo
      <4> QED
        BY <2>3, <4>3, NameWhole
    <3> QED
      BY <3>1
  <2>9. /\ told.sources \in SourceTables /\ told.names \in NameTables
        /\ told.live \subseteq ServiceIds
    BY DEF ToldTables
  <2>10. PICK name : name = IF known THEN told.sources[id].name ELSE d.info.name
    OBVIOUS
  <2>11. name \in ServiceNames
    <3>1. known => told.sources[id].name \in ServiceNames
      <4>1. PICK m : m = told.sources
        OBVIOUS
      <4>2. m \in SourceTables /\ (known <=> id \in DOMAIN m)
        BY <2>7, <2>9, <4>1
      <4>3. \A i \in DOMAIN m : m[i] \in SourceRecords
        BY <4>2, Typed DEF SourceTables
      <4> QED
        BY <4>1, <4>2, <4>3 DEF SourceRecords
    <3> QED
      BY <2>3, <2>8, <2>10, <3>1
  <2>12. PICK v : v = [name |-> name, up |-> S[id].up, accepting |-> S[id].up]
    OBVIOUS
  <2>13. v \in SourceRecords /\ v.up = S[id].up
    BY <2>3, <2>11, <2>12 DEF SourceRecords
  <2>14. PICK t : t = TakeEntry(told, e)
    OBVIOUS
  <2>15. PICK was \in BOOLEAN : was = (known /\ told.sources[id].up)
    OBVIOUS
  <2>16. PICK live : live = CASE was /\ ~S[id].up -> told.live \ {id}
                              [] ~was /\ S[id].up -> told.live \cup {id}
                              [] OTHER -> told.live
    OBVIOUS
  <2>17. t = [sources |-> With(told.sources, id, v),
              names |-> IF known THEN told.names ELSE With(told.names, d.info.name, id),
              live |-> live, listed |-> d]
    <3>1. t = SetState(told, d)
      BY <1>2, <2>4, <2>14 DEF TakeEntry
    <3> QED
      BY <2>5, <2>6, <2>7, <2>10, <2>12, <2>15, <2>16, <3>1 DEF SetState, IsKnown
  <2>18. /\ t.sources = With(told.sources, id, v) /\ t.live = live /\ t.listed = d
         /\ t.names = IF known THEN told.names ELSE With(told.names, S[id].name, id)
    BY <2>8, <2>17
  <2>19. /\ t.sources \in SourceTables /\ DOMAIN t.sources = DOMAIN told.sources \cup {id}
         /\ t.sources[id] = v
         /\ \A i \in DOMAIN told.sources : i # id => t.sources[i] = told.sources[i]
    <3>1. PICK m, w : m = told.sources /\ w = With(m, id, v)
      OBVIOUS
    <3>2. m \in SourceTables /\ t.sources = w
      BY <2>9, <2>18, <3>1
    <3>3. /\ w \in SourceTables /\ DOMAIN w = DOMAIN m \cup {id} /\ w[id] = v
          /\ \A i \in DOMAIN m : i # id => w[i] = m[i]
      <4>1. m \in TablesOf(ServiceIds, SourceRecords) /\ id \in ServiceIds /\ v \in SourceRecords
        BY <2>2, <2>13, <3>2 DEF SourceTables
      <4>2. /\ With(m, id, v) \in TablesOf(ServiceIds, SourceRecords)
            /\ DOMAIN With(m, id, v) = DOMAIN m \cup {id} /\ With(m, id, v)[id] = v
            /\ SameBut(With(m, id, v), m, id)
        BY <4>1, Mapped
      <4> QED
        BY <3>1, <4>2 DEF SourceTables, SameBut
    <3> QED
      BY <3>1, <3>2, <3>3
  <2>20. /\ t.names \in NameTables
         /\ known => t.names = told.names
         /\ ~known => /\ DOMAIN t.names = DOMAIN told.names \cup {S[id].name}
                      /\ t.names[S[id].name] = id
                      /\ \A n \in DOMAIN told.names : n # S[id].name => t.names[n] = told.names[n]
    <3>1. CASE known
      BY <2>9, <2>18, <3>1
    <3>2. CASE ~known
      <4>1. t.names = With(told.names, S[id].name, id)
        BY <2>18, <3>2
      <4>2. PICK m, w, n : m = told.names /\ n = S[id].name /\ w = With(m, n, id)
        OBVIOUS
      <4>3. m \in NameTables /\ t.names = w /\ n \in ServiceNames
        BY <2>3, <2>9, <4>1, <4>2
      <4>4. /\ w \in NameTables /\ DOMAIN w = DOMAIN m \cup {n} /\ w[n] = id
            /\ \A i \in DOMAIN m : i # n => w[i] = m[i]
        <5>1. /\ With(m, n, id) \in NameTables
              /\ DOMAIN With(m, n, id) = DOMAIN m \cup {n} /\ With(m, n, id)[n] = id
              /\ SameBut(With(m, n, id), m, n)
          BY <2>2, <4>3, NameMapped
        <5> QED
          BY <4>2, <5>1 DEF SameBut
      <4> QED
        BY <3>2, <4>2, <4>3, <4>4
    <3> QED
      BY <3>1, <3>2
  <2>21. live \subseteq told.live \cup {id} /\ (id \in live => S[id].up)
    <3>1. id \in told.live => was
      BY <2>7, <2>15 DEF TableFits
    <3>2. CASE was /\ ~S[id].up
      BY <2>16, <3>2
    <3>3. CASE ~was /\ S[id].up
      BY <2>16, <3>3
    <3>4. CASE ~(was /\ ~S[id].up) /\ ~(~was /\ S[id].up)
      <4>1. live = told.live
        BY <2>16, <3>4
      <4> QED
        BY <2>3, <2>15, <3>1, <3>4, <4>1
    <3> QED
      BY <3>2, <3>3, <3>4
  <2>22. t \in ToldTables(L)
    BY <2>2, <2>4, <2>9, <2>17, <2>18, <2>19, <2>20, <2>21 DEF ToldTables
  <2>23. \A i \in DOMAIN t.sources :
           i \in DOMAIN S /\ S[i].name \in DOMAIN t.names /\ t.names[S[i].name] = i
    <3> TAKE i \in DOMAIN t.sources
    <3>1. CASE i = id /\ ~known
      BY <2>2, <2>20, <3>1
    <3>2. CASE i \in DOMAIN told.sources
      <4>1. i \in DOMAIN S /\ S[i].name \in DOMAIN told.names /\ told.names[S[i].name] = i
        BY <3>2 DEF TableFits
      <4>2. ~known => S[i].name # S[id].name
        BY <2>2, <2>7, <3>2, <4>1 DEF NamesApart
      <4> QED
        BY <2>20, <4>1, <4>2
    <3> QED
      BY <2>7, <2>19, <3>1, <3>2
  <2>24. \A i \in t.live : i \in DOMAIN t.sources /\ t.sources[i].up
    <3> TAKE i \in t.live
    <3>1. CASE i = id
      BY <2>13, <2>18, <2>19, <2>21, <3>1
    <3>2. CASE i # id
      <4>1. i \in told.live
        BY <2>18, <2>21, <3>2
      <4> QED
        BY <2>19, <3>2, <4>1 DEF TableFits
    <3> QED
      BY <3>1, <3>2
  <2>25. \A i \in DOMAIN S : UpToDate(told.sources, S, i) => UpToDate(t.sources, S, i)
    BY <2>13, <2>19 DEF UpToDate
  <2>26. UpToDate(t.sources, S, id)
    BY <2>13, <2>19 DEF UpToDate
  <2> QED
    BY <2>1, <2>14, <2>19, <2>22, <2>23, <2>24, <2>25, <2>26 DEF TableFits
<1> QED
  BY <1>1, <1>2

-----------------------------------------------------------------------------
(* The entries of a message are taken one after the other.                 *)

(* A list of entries is taken one after the other, within any set that taking keeps. *)
LEMMA TakenInTurn ==
  ASSUME NEW A, NEW told \in A, NEW list, IsList(list),
         \A i \in 1 .. Len(list) : \A t \in A : TakeEntry(t, list[i]) \in A
  PROVE  \E g \in [0 .. Len(list) -> A] :
           /\ g[0] = told
           /\ \A i \in 1 .. Len(list) : g[i] = TakeEntry(g[i - 1], list[i])
           /\ TakeEntries(told, list) = g[Len(list)]
<1>1. PICK n \in Nat : n = Len(list)
  BY DEF IsList
<1>3. PICK step : step = [x \in (1 .. n) \X A |-> TakeEntry(x[2], list[x[1]])]
  OBVIOUS
<1>4. step \in Steps(n, A)
  <2>1. \A x \in (1 .. n) \X A : TakeEntry(x[2], list[x[1]]) \in A
    <3> TAKE x \in (1 .. n) \X A
    <3>1. x[1] \in 1 .. n /\ x[2] \in A
      OBVIOUS
    <3> QED
      BY <1>1, <3>1
  <2> QED
    BY <1>3, <2>1 DEF Steps
<1>5. PICK g \in [0 .. n -> A] :
        g[0] = told /\ \A i \in 1 .. n : g[i] = step[<<i, g[i - 1]>>]
  <2>1. PICK h : Run(h, n, A, told, step)
    BY <1>1, <1>4, StepsExist
  <2> QED
    BY <2>1 DEF Run
<1>6. \A i \in 1 .. n : g[i - 1] \in A /\ g[i] = TakeEntry(g[i - 1], list[i])
  <2> TAKE i \in 1 .. n
  <2>1. g[i - 1] \in A
    BY <1>5
  <2>2. PICK x : x = <<i, g[i - 1]>>
    OBVIOUS
  <2>3. x \in (1 .. n) \X A /\ x[1] = i /\ x[2] = g[i - 1]
    BY <2>1, <2>2
  <2>4. step[x] = TakeEntry(x[2], list[x[1]])
    BY <1>3, <2>3
  <2> QED
    BY <1>5, <2>1, <2>2, <2>3, <2>4
<1>7. g = [i \in 0 .. n |-> IF i = 0 THEN told ELSE TakeEntry(g[i - 1], list[i])]
  <2>1. \A i \in 0 .. n : g[i] = IF i = 0 THEN told ELSE TakeEntry(g[i - 1], list[i])
    BY <1>5, <1>6
  <2> QED
    BY <1>5, <2>1
<1>8. PICK h : /\ h = [i \in 0 .. n |-> IF i = 0 THEN told ELSE TakeEntry(h[i - 1], list[i])]
               /\ TakeEntries(told, list) = h[n]
  BY <1>1, <1>7 DEF TakeEntries
<1>9. /\ h[0] = told
      /\ \A i \in 1 .. n : h[i] = TakeEntry(h[i - 1], list[i])
  <2>1. 0 \in 0 .. n /\ \A i \in 1 .. n : i \in 0 .. n /\ i # 0
    OBVIOUS
  <2>2. \A i \in 0 .. n : h[i] = IF i = 0 THEN told ELSE TakeEntry(h[i - 1], list[i])
    BY <1>8
  <2>3. h[0] = told
    BY <2>1, <2>2
  <2>4. ASSUME NEW i \in 1 .. n
        PROVE  h[i] = TakeEntry(h[i - 1], list[i])
    BY <2>1, <2>2
  <2> QED
    BY <2>3, <2>4
<1>10. \A i \in 0 .. n : g[i] = h[i]
  <2> DEFINE S == {i \in 0 .. n : g[i] = h[i]}
  <2>1. 0 \in S
    BY <1>5, <1>9
  <2>2. ASSUME NEW i \in 0 .. n - 1, i \in S
        PROVE  i + 1 \in S
    <3>1. i + 1 \in 1 .. n /\ (i + 1) - 1 = i /\ g[i] = h[i]
      BY <2>2
    <3>2. g[i + 1] = TakeEntry(g[i], list[i + 1]) /\ h[i + 1] = TakeEntry(h[i], list[i + 1])
      BY <1>6, <1>9, <3>1
    <3> QED
      BY <3>1, <3>2
  <2> HIDE DEF S
  <2>3. \A i \in 0 .. n : i \in S
    BY <2>1, <2>2, UpTo
  <2> QED
    BY <2>3 DEF S
<1>11. TakeEntries(told, list) = g[n]
  BY <1>8, <1>10
<1> QED
  BY <1>1, <1>5, <1>6, <1>11

(* A list of one entry. *)
LEMMA TakenAlone ==
  ASSUME NEW told, NEW e
  PROVE  TakeEntries(told, <<e>>) = TakeEntry(told, e)
<1>1. PICK list : list = <<e>>
  OBVIOUS
<1>2. Len(list) = 1 /\ list[1] = e
  BY <1>1
<1>3. PICK g : g = [i \in 0 .. 1 |-> IF i = 0 THEN told ELSE TakeEntry(told, e)]
  OBVIOUS
<1>4. g = [i \in 0 .. 1 |-> IF i = 0 THEN told ELSE TakeEntry(g[i - 1], list[i])]
  <2>1. g[0] = told /\ g[1] = TakeEntry(told, e)
    BY <1>3
  <2>2. \A i \in 0 .. 1 : g[i] = IF i = 0 THEN told ELSE TakeEntry(g[i - 1], list[i])
    BY <1>2, <2>1
  <2> QED
    BY <1>3, <2>2
<1>5. PICK h : /\ h = [i \in 0 .. 1 |-> IF i = 0 THEN told ELSE TakeEntry(h[i - 1], list[i])]
               /\ TakeEntries(told, list) = h[1]
  BY <1>2, <1>4 DEF TakeEntries
<1>6. h[0] = told /\ h[1] = TakeEntry(h[0], list[1])
  BY <1>5
<1> QED
  BY <1>1, <1>2, <1>5, <1>6

TableTyped(told) == /\ told.sources \in SourceTables /\ told.names \in NameTables
                    /\ told.live \subseteq ServiceIds
Mentions(list, srcs) ==
  \A k \in 1 .. Len(list) : "info" \in DOMAIN list[k].parts \/ list[k].id \in DOMAIN srcs
EntriesFit(list, S) == \A k \in 1 .. Len(list) : EntryFits(list[k], S)
BringsUpToDate(list, srcs, S) ==
  \A id \in DOMAIN S :
    \/ UpToDate(srcs, S, id)
    \/ \E k \in 1 .. Len(list) : list[k].id = id /\ "state" \in DOMAIN list[k].parts
ListFits(list, srcs, S) == /\ IsList(list) /\ EntriesFit(list, S) /\ Mentions(list, srcs)
                           /\ BringsUpToDate(list, srcs, S)

(* After a whole message every service is up to date. *)
LEMMA ListTaken ==
  ASSUME NEW S \in Services, NamesApart(S), NEW sources0, NEW names0, NEW live0, NEW listed0,
         NEW told, told = [sources |-> sources0, names |-> names0, live |-> live0, listed |-> listed0],
         TableTyped(told), TableFits(told, S), NEW list, ListFits(list, told.sources, S)
  PROVE  /\ TableTyped(TakeEntries(told, list)) /\ TableFits(TakeEntries(told, list), S)
         /\ \A id \in DOMAIN S : UpToDate(TakeEntries(told, list).sources, S, id)
<1>1. PICK n \in Nat : n = Len(list)
  BY DEF ListFits, IsList
<1>2. PICK L : L = {listed0} \cup {Decoded(list[k]) : k \in 1 .. n}
  OBVIOUS
<1>3. PICK A : A = {t \in ToldTables(L) : TableFits(t, S) /\ DOMAIN told.sources \subseteq DOMAIN t.sources}
  OBVIOUS
<1>4. told \in ToldTables(L)
  BY <1>2 DEF ToldTables, TableTyped
<1>5. told \in A
  BY <1>3, <1>4
<1>6. ASSUME NEW i \in 1 .. n, NEW t \in A
      PROVE  /\ TakeEntry(t, list[i]) \in A
             /\ \A id \in DOMAIN S : UpToDate(t.sources, S, id) =>
                                       UpToDate(TakeEntry(t, list[i]).sources, S, id)
             /\ "state" \in DOMAIN list[i].parts =>
                  UpToDate(TakeEntry(t, list[i]).sources, S, list[i].id)
  <2>1. PICK e, u : e = list[i] /\ u = TakeEntry(t, e)
    OBVIOUS
  <2>2. EntryFits(e, S) /\ Decoded(e) \in L
    BY <1>1, <1>2, <2>1 DEF ListFits, EntriesFit
  <2>3. t \in ToldTables(L) /\ TableFits(t, S) /\ DOMAIN told.sources \subseteq DOMAIN t.sources
    BY <1>3
  <2>4. "info" \in DOMAIN e.parts \/ e.id \in DOMAIN t.sources
    BY <1>1, <2>1, <2>3 DEF ListFits, Mentions
  <2>5. /\ u \in ToldTables(L) /\ TableFits(u, S)
        /\ DOMAIN t.sources \subseteq DOMAIN u.sources
        /\ \A id \in DOMAIN S : UpToDate(t.sources, S, id) => UpToDate(u.sources, S, id)
        /\ "state" \in DOMAIN e.parts => UpToDate(u.sources, S, e.id)
    BY <2>1, <2>2, <2>3, <2>4, EntryTaken
  <2>6. u \in A
    BY <1>3, <2>3, <2>5
  <2> QED
    BY <2>1, <2>5, <2>6
<1>7. PICK g \in [0 .. n -> A] :
        /\ g[0] = told
        /\ \A i \in 1 .. n : g[i] = TakeEntry(g[i - 1], list[i])
        /\ TakeEntries(told, list) = g[n]
  <2>1. IsList(list) /\ Len(list) = n
    BY <1>1 DEF ListFits
  <2>2. \A i \in 1 .. Len(list) : \A t \in A : TakeEntry(t, list[i]) \in A
    BY <1>6, <2>1
  <2>3. \E g \in [0 .. Len(list) -> A] :
          /\ g[0] = told
          /\ \A i \in 1 .. Len(list) : g[i] = TakeEntry(g[i - 1], list[i])
          /\ TakeEntries(told, list) = g[Len(list)]
    BY <1>5, <2>1, <2>2, TakenInTurn
  <2> QED
    BY <2>1, <2>3
<1>8. PICK W : W = {i \in 0 .. n : \A id \in DOMAIN S :
                      \/ UpToDate(g[i].sources, S, id)
                      \/ \E k \in i + 1 .. n : list[k].id = id /\ "state" \in DOMAIN list[k].parts}
  OBVIOUS
<1>9. 0 \in W
  <2>1. 0 \in 0 .. n /\ g[0].sources = told.sources /\ 0 + 1 .. n = 1 .. n
    BY <1>7
  <2>2. \A id \in DOMAIN S :
           \/ UpToDate(told.sources, S, id)
           \/ \E k \in 1 .. n : list[k].id = id /\ "state" \in DOMAIN list[k].parts
    BY <1>1 DEF ListFits, BringsUpToDate
  <2> QED
    BY <1>8, <2>1, <2>2
<1>10. ASSUME NEW i \in 0 .. n - 1, i \in W
       PROVE  i + 1 \in W
  <2>1. /\ i + 1 \in 1 .. n /\ (i + 1) - 1 = i /\ i \in 0 .. n /\ i + 1 \in 0 .. n
        /\ \A k \in i + 1 .. n : k = i + 1 \/ k \in (i + 1) + 1 .. n
    OBVIOUS
  <2>2. PICK t, u : t = g[i] /\ u = g[i + 1]
    OBVIOUS
  <2>3. t \in A /\ u = TakeEntry(t, list[i + 1])
    BY <1>7, <2>1, <2>2
  <2>4. ASSUME NEW id \in DOMAIN S
        PROVE  \/ UpToDate(u.sources, S, id)
               \/ \E k \in (i + 1) + 1 .. n : list[k].id = id /\ "state" \in DOMAIN list[k].parts
    <3>1. \/ UpToDate(t.sources, S, id)
          \/ \E k \in i + 1 .. n : list[k].id = id /\ "state" \in DOMAIN list[k].parts
      BY <1>8, <1>10, <2>2
    <3>2. CASE UpToDate(t.sources, S, id)
      BY <1>6, <2>1, <2>3, <3>2
    <3>3. ASSUME NEW k \in i + 1 .. n, list[k].id = id, "state" \in DOMAIN list[k].parts
          PROVE  \/ UpToDate(u.sources, S, id)
                 \/ \E j \in (i + 1) + 1 .. n : list[j].id = id /\ "state" \in DOMAIN list[j].parts
      <4>1. CASE k = i + 1
        BY <1>6, <2>1, <2>3, <3>3, <4>1
      <4>2. CASE k \in (i + 1) + 1 .. n
        BY <3>3, <4>2
      <4> QED
        BY <2>1, <4>1, <4>2
    <3> QED
      BY <3>1, <3>2, <3>3
  <2> QED
    BY <1>8, <2>1, <2>2, <2>4
<1>11. n \in W
  <2>1. \A i \in 0 .. n : i \in W
    BY <1>9, <1>10, UpTo
  <2> QED
    BY <2>1
<1>12. PICK t : t = g[n]
  OBVIOUS
<1>13. t \in A /\ \A id \in DOMAIN S : UpToDate(t.sources, S, id)
  <2>1. n \in 0 .. n /\ n + 1 .. n = {}
    OBVIOUS
  <2> QED
    BY <1>7, <1>8, <1>11, <1>12, <2>1
<1>14. TableTyped(t) /\ TableFits(t, S)
  BY <1>3, <1>13 DEF ToldTables, TableTyped
<1> QED
  BY <1>7, <1>12, <1>13, <1>14

-----------------------------------------------------------------------------
(* The inductive invariant.  Between two bridges the wire holds what the    *)
(* state of the connection says, about the provider's user and source.  As  *)
(* long as RMDS is ordinary the table fits its services, and a directory    *)
(* message on the wire fits both and leaves no service out of date.         *)

TwoBridges == ConsumerIsBridge /\ ProviderIsBridge
FromRmds == ConsumerIsBridge /\ ~ProviderIsBridge

ForUser(m) == m.user = Cut(user, LoginTextSize)
TheSource == EncodeSourceDirectoryInfo(Parts)
Learnt == /\ DOMAIN sources = {source.id}
          /\ sources[source.id] = [name |-> source.name, up |-> TRUE, accepting |-> TRUE]
          /\ Resolves(source.name, source.id)
          /\ listed.info = Info(source.name, SubSeq(Capabilities, 1, Min({2, MaxCapabilities})))
          /\ listed.rest = [load |-> Load, link |-> <<Link>>]

TwoConfigured == user \in Texts /\ source \in [name : ServiceNames, id : ServiceIds]
WireKinds == {"nothing", "login request", "login response", "directory request", "directory response"}
TwoOnWire ==
  /\ hsWire.is \in WireKinds
  /\ hsWire.is \in {"directory request", "directory response"} => connection = "asked"
  /\ hsWire.is = "login request" => hsWire.named /\ hsWire.attributes /\ ForUser(hsWire)
  /\ hsWire.is = "login response" => ForUser(hsWire) /\ hsWire.posts = acceptsPosts
  /\ hsWire.is = "directory request" => hsWire = DirectoryRequest(Parts, AnyId, NoServiceName)
  /\ hsWire.is = "directory response" => hsWire = DirectoryResponse("refresh", <<TheSource>>)
TwoLoggedIn == connection \in {"loggedIn", "asked", "known"} =>
                 ForUser(loginInfo) /\ loginInfo.posts = acceptsPosts
TwoLearnt == /\ DOMAIN sources = {} \/ Learnt
             /\ connection = "known" => Learnt
TwoInv == TwoBridges => TwoConfigured /\ TwoOnWire /\ TwoLoggedIn /\ TwoLearnt

ToldSoFar == [sources |-> sources, names |-> serviceNames, live |-> subsLive, listed |-> listed]
RmdsConfigured == rmdsServices \in Services /\ NamesApart(rmdsServices)
RmdsTable == TableTyped(ToldSoFar) /\ TableFits(ToldSoFar, rmdsServices)
RmdsKnown == connection = "known" /\ hsWire = Silence =>
               \A id \in DOMAIN rmdsServices : UpToDate(sources, rmdsServices, id)
RmdsOnWire == hsWire.is = "directory response" => ListFits(hsWire.list, sources, rmdsServices)
RmdsInv == FromRmds /\ ordinary =>
             RmdsConfigured /\ RmdsTable /\ RmdsKnown /\ RmdsOnWire

HandshakeInv == TwoInv /\ RmdsInv

-----------------------------------------------------------------------------
(* What RMDS tells.                                                        *)

(* What RMDS says of a service in an entry. *)
LEMMA RmdsEntryOf ==
  ASSUME NEW id, NEW service, NEW info \in BOOLEAN, NEW state \in BOOLEAN, NEW whole,
         NEW e, e = RmdsEntry(id, service, info, state, whole)
  PROVE  /\ e.id = id /\ e.decodes = whole
         /\ "info" \in DOMAIN e.parts => e.parts.info.name = service.name
         /\ "state" \in DOMAIN e.parts => e.parts.state = State(service.up, service.up)
<1>1. PICK all, wanted :
        /\ all = [info |-> Info(service.name, RmdsCapabilities), state |-> State(service.up, service.up)]
        /\ wanted = (IF info THEN {"info"} ELSE {}) \cup (IF state THEN {"state"} ELSE {})
  OBVIOUS
<1>2. PICK parts : parts = [p \in wanted \cap DOMAIN all |-> all[p]]
  OBVIOUS
<1>3. e = [id |-> id, decodes |-> whole, parts |-> parts]
  BY <1>1, <1>2 DEF RmdsEntry, Only
<1>4. e.id = id /\ e.decodes = whole /\ e.parts = parts
  BY <1>3
<1>5. all.info.name = service.name /\ all.state = State(service.up, service.up)
  BY <1>1 DEF Info
<1>6. \A p \in DOMAIN parts : parts[p] = all[p]
  BY <1>2
<1> QED
  BY <1>4, <1>5, <1>6

TellsAs(class, services, order, withInfo, withState, broken) ==
  LET new == WithAll(rmdsServices, services)
      stated == [k \in DOMAIN order |->
                    RmdsEntry(order[k], new[order[k]], withInfo[order[k]], withState[order[k]],
                              order[k] \notin broken)] IN
  /\ \A k \in DOMAIN stated : Says(new, stated[k])
  /\ rmdsServices' = new
  /\ ordinary' = (ordinary /\ Ordinary(class, new, stated))
  /\ hsWire' = DirectoryResponse(class, stated)

(* RMDS tells its services as they are, and all of them in a refresh. *)
LEMMA RmdsTellsWell ==
  ASSUME FromRmds, ordinary, ordinary', RmdsInv, NEW class \in {"refresh", "update"},
         NEW changed \in SUBSET ServiceIds, RmdsTells(class, changed),
         class = "refresh" => DOMAIN rmdsServices \subseteq changed,
         class = "update" => hsWire = Silence /\ connection = "known"
  PROVE  /\ rmdsServices' \in Services /\ NamesApart(rmdsServices')
         /\ TableFits(ToldSoFar, rmdsServices')
         /\ hsWire'.is = "directory response" /\ ListFits(hsWire'.list, sources, rmdsServices')
<1>1. PICK services \in [changed -> Service], order \in SetToSeqs(changed),
           withInfo \in [changed -> BOOLEAN], withState \in [changed -> BOOLEAN],
           broken \in {{}} \cup {{id} : id \in changed} :
        TellsAs(class, services, order, withInfo, withState, broken)
  BY DEF RmdsTells, TellsAs
<1>2. PICK new, stated :
        /\ new = WithAll(rmdsServices, services)
        /\ stated = [k \in DOMAIN order |->
                        RmdsEntry(order[k], new[order[k]], withInfo[order[k]], withState[order[k]],
                                  order[k] \notin broken)]
        /\ \A k \in DOMAIN stated : Says(new, stated[k])
        /\ rmdsServices' = new
        /\ ordinary' = (ordinary /\ Ordinary(class, new, stated))
        /\ hsWire' = DirectoryResponse(class, stated)
  BY <1>1 DEF TellsAs
<1>3. PICK old : old = rmdsServices
  OBVIOUS
<1>4. /\ old \in Services /\ NamesApart(old) /\ TableTyped(ToldSoFar) /\ TableFits(ToldSoFar, old)
      /\ RmdsKnown
  BY <1>3 DEF RmdsInv, RmdsConfigured, RmdsTable
<1>5. IsFiniteSet(changed)
  BY HandshakeAssumption, FS_Subset
<1>6. PICK n \in Nat : order \in [1 .. n -> changed] /\ \A x \in changed : \E k \in 1 .. n : order[k] = x
  BY <1>1, <1>5, EachInOrder
<1>7. /\ DOMAIN new = DOMAIN old \cup changed
      /\ \A id \in changed : new[id] = services[id]
      /\ \A id \in DOMAIN old : id \notin changed => new[id] = old[id]
  BY <1>1, <1>2, <1>3 DEF WithAll
<1>8. new \in Services
  <2>1. DOMAIN old \subseteq ServiceIds /\ \A id \in DOMAIN old : old[id] \in Service
    BY <1>4, Typed DEF Services
  <2>2. \A id \in DOMAIN new : id \in ServiceIds /\ new[id] \in Service
    BY <1>1, <1>7, <2>1
  <2>3. new = [id \in DOMAIN new |-> new[id]]
    BY <1>2 DEF WithAll
  <2>4. new \in [DOMAIN new -> Service] /\ DOMAIN new \in SUBSET ServiceIds
    BY <2>2, <2>3
  <2> QED
    BY <2>4 DEF Services, TablesOf
<1>9. Ordinary(class, new, stated)
  BY <1>2
<1>10. KeepsNames(new)
  BY <1>9 DEF Ordinary
<1>11. NamesApart(new)
  BY <1>10 DEF KeepsNames, NamesApart
<1>12. \A id \in DOMAIN old : id \in DOMAIN new /\ new[id].name = old[id].name
  BY <1>3, <1>7, <1>10 DEF KeepsNames
<1>13. TableFits(ToldSoFar, new)
  BY <1>4, <1>12 DEF TableFits
<1>14. hsWire'.is = "directory response" /\ hsWire'.list = stated
  BY <1>2 DEF DirectoryResponse
<1>15. DOMAIN order = 1 .. n /\ DOMAIN stated = 1 .. n /\ stated = [k \in 1 .. n |-> stated[k]]
  BY <1>2, <1>6
<1>16. IsList(stated) /\ Len(stated) = n
  BY <1>15, ListOf
<1>17. ASSUME NEW k \in 1 .. n
       PROVE  stated[k].id = order[k] /\ order[k] \in changed /\ EntryFits(stated[k], new)
  <2>1. PICK id, wi, ws, whole : /\ id = order[k] /\ wi = withInfo[id] /\ ws = withState[id]
                                 /\ whole = (id \notin broken)
    OBVIOUS
  <2>2. id \in changed /\ wi \in BOOLEAN /\ ws \in BOOLEAN
    BY <1>1, <1>6, <2>1
  <2>3. PICK e : e = stated[k]
    OBVIOUS
  <2>4. e = RmdsEntry(id, new[id], wi, ws, whole)
    BY <1>2, <1>15, <2>1, <2>3
  <2>5. e.id = id /\ ("info" \in DOMAIN e.parts => e.parts.info.name = new[id].name)
        /\ ("state" \in DOMAIN e.parts => e.parts.state = State(new[id].up, new[id].up))
    BY <2>2, <2>4, RmdsEntryOf
  <2>6. e.decodes
    BY <1>9, <1>15, <2>3 DEF Ordinary
  <2> QED
    BY <1>7, <2>1, <2>2, <2>3, <2>5, <2>6 DEF EntryFits
<1>18. \A k \in 1 .. n : class = "refresh" \/ order[k] \notin DOMAIN old =>
                           {"info", "state"} \subseteq DOMAIN stated[k].parts
  BY <1>3, <1>9, <1>15, <1>17 DEF Ordinary
<1>19. class # "refresh" => \A id \in DOMAIN old : UpToDate(sources, old, id)
  BY <1>3, <1>4 DEF RmdsKnown
<1>20. Mentions(stated, sources)
  <2>1. ASSUME NEW k \in 1 .. n
        PROVE  "info" \in DOMAIN stated[k].parts \/ stated[k].id \in DOMAIN sources
    BY <1>17, <1>18, <1>19 DEF UpToDate
  <2> QED
    BY <1>16, <2>1 DEF Mentions
<1>21. BringsUpToDate(stated, sources, new)
  <2>1. ASSUME NEW id \in DOMAIN new
        PROVE  \/ UpToDate(sources, new, id)
               \/ \E k \in 1 .. n : stated[k].id = id /\ "state" \in DOMAIN stated[k].parts
    <3>1. CASE id \notin changed
      <4>1. class # "refresh" /\ id \in DOMAIN old /\ new[id] = old[id]
        BY <1>3, <1>7, <2>1, <3>1
      <4> QED
        BY <1>19, <4>1 DEF UpToDate
    <3>2. CASE id \in changed
      <4>1. PICK k \in 1 .. n : order[k] = id
        BY <1>6, <3>2
      <4>2. stated[k].id = id
        BY <1>17, <4>1
      <4>3. CASE "state" \in DOMAIN stated[k].parts
        BY <4>1, <4>2, <4>3
      <4>4. CASE "state" \notin DOMAIN stated[k].parts
        <5>1. class # "refresh" /\ id \in DOMAIN old
          BY <1>18, <4>1, <4>4
        <5>2. old[id].up = new[id].up
          <6>1. Says(new, stated[k])
            BY <1>2, <1>15
          <6> QED
            BY <1>3, <4>2, <4>4, <5>1, <6>1 DEF Says
        <5> QED
          BY <1>19, <5>1, <5>2 DEF UpToDate
      <4> QED
        BY <4>3, <4>4
    <3> QED
      BY <3>1, <3>2
  <2> QED
    BY <1>16, <2>1 DEF BringsUpToDate
<1>22. EntriesFit(stated, new)
  BY <1>16, <1>17 DEF EntriesFit
<1> QED
  BY <1>2, <1>8, <1>11, <1>13, <1>14, <1>16, <1>20, <1>21, <1>22 DEF ListFits

-----------------------------------------------------------------------------
(* The steps.                                                              *)

(* Nothing that RMDS has told, or the table, changes. *)
LEMMA RmdsStands ==
  ASSUME RmdsInv, UNCHANGED <<ends, rmdsServices, learnt, ordinary>>,
         hsWire'.is # "directory response", connection' # "known" \/ hsWire' # Silence
  PROVE  RmdsInv'
<1> SUFFICES ASSUME FromRmds', ordinary'
             PROVE  (RmdsConfigured /\ RmdsTable /\ RmdsKnown /\ RmdsOnWire)'
  BY DEF RmdsInv
<1>1. FromRmds /\ ordinary
  BY DEF FromRmds, ConsumerIsBridge, ProviderIsBridge
<1>2. RmdsConfigured /\ RmdsTable
  BY <1>1 DEF RmdsInv
<1>3. UNCHANGED <<rmdsServices, sources, serviceNames, subsLive, listed>>
  BY DEF learnt
<1>4. RmdsConfigured' /\ RmdsTable'
  BY <1>2, <1>3 DEF RmdsConfigured, RmdsTable, ToldSoFar
<1>5. RmdsKnown' /\ RmdsOnWire'
  BY DEF RmdsKnown, RmdsOnWire
<1> QED
  BY <1>4, <1>5

(* The learnt part of two bridges stands. *)
LEMMA LearntStands ==
  ASSUME UNCHANGED <<configured, learnt>>
  PROVE  /\ TwoConfigured => TwoConfigured'
         /\ Learnt => Learnt'
         /\ DOMAIN sources = {} => DOMAIN sources' = {}
  BY DEF configured, learnt, TwoConfigured, Learnt, Resolves

(* Which ends there are is configured, and the two-bridge part speaks of two bridges. *)
LEMMA OtherPairs ==
  ASSUME TwoInv, UNCHANGED configured
  PROVE  /\ TwoBridges' = TwoBridges
         /\ TwoBridges => TwoConfigured /\ TwoOnWire /\ TwoLoggedIn /\ TwoLearnt
  BY DEF TwoInv, TwoBridges, configured, ConsumerIsBridge, ProviderIsBridge

(* A name that was cut to its field is not cut again. *)
LEMMA UserCut ==
  ASSUME TwoConfigured
  PROVE  Cut(Cut(user, LoginTextSize), LoginTextSize) = Cut(user, LoginTextSize)
<1>1. user \in Seq(Nat) /\ LoginTextSize \in Nat \ {0}
  BY HandshakeAssumption DEF TwoConfigured
<1> QED
  BY <1>1, CutTwice

(* A connection begins with a login request. *)
LEMMA ConnectedKeeps == HandshakeInv /\ (Connected \/ Disconnected) => HandshakeInv'
<1> SUFFICES ASSUME HandshakeInv, Connected \/ Disconnected PROVE HandshakeInv'
  OBVIOUS
<1>1. /\ UNCHANGED <<configured, rmdsServices, sources, serviceNames, listed, ordinary>>
      /\ hsWire' = Silence /\ connection' \in {"up", "down"} /\ hsWire'.is = "nothing"
      /\ subsLive' \in {subsLive, {}}
  BY DEF Connected, Disconnected, learnt, Silence
<1>2. TwoInv'
  <2> SUFFICES ASSUME TwoBridges' PROVE (TwoConfigured /\ TwoOnWire /\ TwoLoggedIn /\ TwoLearnt)'
    BY DEF TwoInv
  <2>1. TwoConfigured /\ TwoLearnt
    BY <1>1, OtherPairs DEF HandshakeInv
  <2>2. UNCHANGED <<user, source, acceptsPosts>>
    BY <1>1 DEF configured
  <2>3. TwoConfigured' /\ TwoLearnt'
    BY <1>1, <2>1, <2>2 DEF TwoConfigured, TwoLearnt, Learnt, Resolves
  <2>4. TwoOnWire' /\ TwoLoggedIn'
    BY <1>1 DEF TwoOnWire, TwoLoggedIn, WireKinds
  <2> QED
    BY <2>3, <2>4
<1>3. RmdsInv'
  <2> SUFFICES ASSUME FromRmds', ordinary'
               PROVE  (RmdsConfigured /\ RmdsTable /\ RmdsKnown /\ RmdsOnWire)'
    BY DEF RmdsInv
  <2>1. FromRmds /\ ordinary
    BY <1>1 DEF FromRmds, ConsumerIsBridge, ProviderIsBridge, configured
  <2>2. RmdsConfigured /\ RmdsTable
    BY <2>1 DEF RmdsInv, HandshakeInv
  <2>3. RmdsConfigured'
    BY <1>1, <2>2 DEF RmdsConfigured
  <2>4. RmdsTable'
    <3>1. TableTyped(ToldSoFar)'
      BY <1>1, <2>2 DEF RmdsTable, TableTyped, ToldSoFar
    <3>2. TableFits(ToldSoFar, rmdsServices)'
      BY <1>1, <2>2 DEF RmdsTable, TableFits, ToldSoFar
    <3> QED
      BY <3>1, <3>2 DEF RmdsTable
  <2>5. RmdsKnown' /\ RmdsOnWire'
    BY <1>1 DEF RmdsKnown, RmdsOnWire
  <2> QED
    BY <2>3, <2>4, <2>5
<1> QED
  BY <1>2, <1>3 DEF HandshakeInv

(* A login request says who the consumer is. *)
LEMMA LoginRequestKeeps == HandshakeInv /\ SendLoginRequest => HandshakeInv'
<1> SUFFICES ASSUME HandshakeInv, SendLoginRequest PROVE HandshakeInv'
  OBVIOUS
<1>1. /\ UNCHANGED <<configured, rmdsServices, connection, loginInfo, learnt, ordinary>>
      /\ connection = "up" /\ UNCHANGED ends
      /\ ConsumerIsBridge => hsWire' = LoginRequestOf(user)
  BY DEF SendLoginRequest, configured
<1>2. hsWire'.is = "login request"
  <2>1. PICK name : name = user
    OBVIOUS
  <2>2. LoginRequestOf(name).is = "login request"
    BY DEF LoginRequestOf
  <2>3. CASE ConsumerIsBridge
    BY <1>1, <2>1, <2>2, <2>3
  <2>4. CASE ~ConsumerIsBridge
    <3>1. PICK named \in BOOLEAN, attributes \in BOOLEAN :
            hsWire' = [LoginRequestOf(name) EXCEPT !.named = named, !.attributes = attributes]
      BY <2>1, <2>4 DEF SendLoginRequest
    <3> QED
      BY <3>1 DEF LoginRequestOf
  <2> QED
    BY <2>3, <2>4
<1>3. TwoInv'
  <2> SUFFICES ASSUME TwoBridges' PROVE (TwoConfigured /\ TwoOnWire /\ TwoLoggedIn /\ TwoLearnt)'
    BY DEF TwoInv
  <2>1. TwoBridges /\ TwoConfigured /\ TwoLearnt
    BY <1>1, OtherPairs DEF HandshakeInv
  <2>2. TwoConfigured' /\ TwoLearnt'
    BY <1>1, <2>1, LearntStands DEF TwoLearnt
  <2>3. hsWire' = LoginRequestOf(user) /\ user' = user
    BY <1>1, <2>1 DEF TwoBridges, configured
  <2>4. hsWire'.named /\ hsWire'.attributes /\ hsWire'.user = Cut(user, LoginTextSize)
    BY <2>3 DEF LoginRequestOf
  <2>5. ForUser(hsWire)'
    BY <2>3, <2>4 DEF ForUser
  <2>6. TwoOnWire' /\ TwoLoggedIn'
    BY <1>1, <1>2, <2>4, <2>5 DEF TwoOnWire, TwoLoggedIn, WireKinds
  <2> QED
    BY <2>2, <2>6
<1>4. RmdsInv'
  BY <1>1, <1>2, RmdsStands DEF HandshakeInv
<1> QED
  BY <1>3, <1>4 DEF HandshakeInv

(* The login is answered with the user that asked. *)
LEMMA LoginAnswerKeeps == HandshakeInv /\ (ProcessLoginRequest \/ RmdsAnswersLogin) => HandshakeInv'
<1> SUFFICES ASSUME HandshakeInv, ProcessLoginRequest \/ RmdsAnswersLogin PROVE HandshakeInv'
  OBVIOUS
<1>1. /\ UNCHANGED <<configured, rmdsServices, connection, loginInfo, learnt, ordinary, ends>>
      /\ hsWire.is = "login request"
  BY DEF ProcessLoginRequest, RmdsAnswersLogin, configured
<1>2. TwoInv'
  <2> SUFFICES ASSUME TwoBridges' PROVE (TwoConfigured /\ TwoOnWire /\ TwoLoggedIn /\ TwoLearnt)'
    BY DEF TwoInv
  <2>1. TwoBridges /\ TwoConfigured /\ TwoLearnt /\ TwoOnWire /\ TwoLoggedIn
    BY <1>1, OtherPairs DEF HandshakeInv
  <2>2. TwoConfigured' /\ TwoLearnt'
    BY <1>1, <2>1, LearntStands DEF TwoLearnt
  <2>3. hsWire.named /\ hsWire.attributes /\ hsWire.user = Cut(user, LoginTextSize)
    BY <1>1, <2>1 DEF TwoOnWire, ForUser
  <2>4. hsWire' = LoginResponseOf(DecodeLoginRequest(hsWire))
    BY <2>1, <2>3 DEF ProcessLoginRequest, RmdsAnswersLogin, TwoBridges
  <2>5. DecodeLoginRequest(hsWire).user = Cut(user, LoginTextSize)
    BY <2>1, <2>3, UserCut DEF DecodeLoginRequest
  <2>6. hsWire'.user = Cut(user, LoginTextSize) /\ hsWire'.posts = acceptsPosts
        /\ hsWire'.is = "login response"
    BY <2>1, <2>4, <2>5, UserCut DEF LoginResponseOf
  <2>7. UNCHANGED <<user, acceptsPosts>>
    BY <1>1 DEF configured
  <2>8. ForUser(hsWire)' /\ TwoLoggedIn'
    BY <1>1, <2>1, <2>6, <2>7 DEF ForUser, TwoLoggedIn
  <2>9. TwoOnWire'
    BY <2>6, <2>7, <2>8 DEF TwoOnWire, WireKinds
  <2> QED
    BY <2>2, <2>8, <2>9
<1>3. RmdsInv'
  <2> SUFFICES ASSUME FromRmds PROVE RmdsInv'
    BY <1>1 DEF RmdsInv, FromRmds, ConsumerIsBridge, ProviderIsBridge
  <2>1. hsWire' \in {LoginResponseOf(hsWire), LoginRejected}
    BY DEF ProcessLoginRequest, RmdsAnswersLogin, FromRmds
  <2>2. hsWire'.is \in {"login response", "login rejected"}
    <3>1. LoginResponseOf(hsWire).is = "login response" /\ LoginRejected.is = "login rejected"
      BY DEF LoginResponseOf, LoginRejected
    <3> QED
      BY <2>1, <3>1
  <2>3. hsWire' # Silence
    <3>1. Silence.is = "nothing"
      BY DEF Silence
    <3> QED
      BY <2>2, <3>1
  <2> QED
    BY <1>1, <2>2, <2>3, RmdsStands DEF HandshakeInv
<1> QED
  BY <1>2, <1>3 DEF HandshakeInv

(* The consumer takes over what the login response says. *)
LEMMA LoginResponseKeeps == HandshakeInv /\ ProcessLoginResponse => HandshakeInv'
<1> SUFFICES ASSUME HandshakeInv, ProcessLoginResponse PROVE HandshakeInv'
  OBVIOUS
<1>1. /\ UNCHANGED <<configured, rmdsServices, learnt, ordinary, ends>>
      /\ hsWire.is \in {"login response", "login rejected"}
      /\ connection' \in {"loggedIn", "down"} /\ hsWire' = Silence /\ hsWire'.is = "nothing"
  BY DEF ProcessLoginResponse, configured, Silence
<1>2. TwoInv'
  <2> SUFFICES ASSUME TwoBridges' PROVE (TwoConfigured /\ TwoOnWire /\ TwoLoggedIn /\ TwoLearnt)'
    BY DEF TwoInv
  <2>1. TwoBridges /\ TwoConfigured /\ TwoLearnt /\ TwoOnWire
    BY <1>1, OtherPairs DEF HandshakeInv
  <2>2. TwoConfigured' /\ TwoLearnt'
    BY <1>1, <2>1, LearntStands DEF TwoLearnt
  <2>3. hsWire.is = "login response"
    BY <1>1, <2>1 DEF TwoOnWire, WireKinds
  <2>4. hsWire.user = Cut(user, LoginTextSize) /\ hsWire.posts = acceptsPosts
    BY <2>1, <2>3 DEF TwoOnWire, ForUser
  <2>5. loginInfo' = DecodeLoginResponse(hsWire)
    BY <2>3 DEF ProcessLoginResponse
  <2>6. loginInfo'.user = Cut(user, LoginTextSize) /\ loginInfo'.posts = acceptsPosts
    BY <2>1, <2>4, <2>5, UserCut DEF DecodeLoginResponse
  <2>7. UNCHANGED <<user, acceptsPosts>>
    BY <1>1 DEF configured
  <2>8. TwoLoggedIn' /\ TwoOnWire'
    BY <1>1, <2>6, <2>7 DEF ForUser, TwoLoggedIn, TwoOnWire, WireKinds
  <2> QED
    BY <2>2, <2>8
<1>3. RmdsInv'
  BY <1>1, RmdsStands DEF HandshakeInv
<1> QED
  BY <1>2, <1>3 DEF HandshakeInv

(* The directory request asks for everything. *)
LEMMA DirectoryRequestKeeps == HandshakeInv /\ SendDirectoryRequest => HandshakeInv'
<1> SUFFICES ASSUME HandshakeInv, SendDirectoryRequest PROVE HandshakeInv'
  OBVIOUS
<1>1. /\ UNCHANGED <<configured, rmdsServices, loginInfo, learnt, ordinary, ends>>
      /\ connection = "loggedIn" /\ connection' = "asked"
      /\ ConsumerIsBridge => hsWire' = DirectoryRequest(Parts, AnyId, NoServiceName)
  BY DEF SendDirectoryRequest, configured
<1>2. hsWire'.is = "directory request"
  <2>1. \A parts, id, name : DirectoryRequest(parts, id, name).is = "directory request"
    BY DEF DirectoryRequest
  <2> QED
    BY <2>1 DEF SendDirectoryRequest
<1>3. TwoInv'
  <2> SUFFICES ASSUME TwoBridges' PROVE (TwoConfigured /\ TwoOnWire /\ TwoLoggedIn /\ TwoLearnt)'
    BY DEF TwoInv
  <2>1. TwoBridges /\ TwoConfigured /\ TwoLearnt /\ TwoLoggedIn
    BY <1>1, OtherPairs DEF HandshakeInv
  <2>2. TwoConfigured' /\ TwoLearnt'
    BY <1>1, <2>1, LearntStands DEF TwoLearnt
  <2>3. hsWire' = DirectoryRequest(Parts, AnyId, NoServiceName)
    BY <1>1, <2>1 DEF TwoBridges
  <2>4. TwoOnWire'
    BY <1>1, <1>2, <2>3 DEF TwoOnWire, WireKinds
  <2>5. UNCHANGED <<user, acceptsPosts>>
    BY <1>1 DEF configured
  <2>6. TwoLoggedIn'
    BY <1>1, <2>1, <2>5 DEF TwoLoggedIn, ForUser
  <2> QED
    BY <2>2, <2>4, <2>6
<1>4. RmdsInv'
  BY <1>1, <1>2, RmdsStands DEF HandshakeInv
<1> QED
  BY <1>3, <1>4 DEF HandshakeInv

(* A bridge answers with its one source and all its parts. *)
LEMMA DirectoryAnswerKeeps == HandshakeInv /\ ProcessSourceDirectoryRequest => HandshakeInv'
<1> SUFFICES ASSUME HandshakeInv, ProcessSourceDirectoryRequest PROVE HandshakeInv'
  OBVIOUS
<1>1. /\ UNCHANGED <<configured, rmdsServices, connection, loginInfo, learnt, ordinary, ends>>
      /\ hsWire.is = "directory request" /\ ProviderIsBridge
  BY DEF ProcessSourceDirectoryRequest, configured
<1>2. TwoInv'
  <2> SUFFICES ASSUME TwoBridges' PROVE (TwoConfigured /\ TwoOnWire /\ TwoLoggedIn /\ TwoLearnt)'
    BY DEF TwoInv
  <2>1. TwoBridges /\ TwoConfigured /\ TwoLearnt /\ TwoOnWire /\ TwoLoggedIn
    BY <1>1, OtherPairs DEF HandshakeInv
  <2>2. TwoConfigured' /\ TwoLearnt'
    BY <1>1, <2>1, LearntStands DEF TwoLearnt
  <2>3. hsWire = DirectoryRequest(Parts, AnyId, NoServiceName) /\ connection = "asked"
    BY <1>1, <2>1 DEF TwoOnWire
  <2>4. hsWire.parts = Parts /\ hsWire.id = AnyId /\ hsWire.name = NoServiceName
    BY <2>3 DEF DirectoryRequest
  <2>5. {"info", "state", "group"} \subseteq hsWire.parts /\ Asked(hsWire)
    BY <2>4 DEF Asked, Parts
  <2>6. hsWire' = DirectoryResponse("refresh", <<TheSource>>)
    BY <2>4, <2>5 DEF ProcessSourceDirectoryRequest, TheSource
  <2>7. UNCHANGED <<user, acceptsPosts, source>>
    BY <1>1 DEF configured
  <2>8. TheSource' = TheSource
    BY <2>7 DEF TheSource, EncodeSourceDirectoryInfo
  <2>9. hsWire'.is = "directory response"
    BY <2>6 DEF DirectoryResponse
  <2>10. TwoOnWire'
    BY <1>1, <2>3, <2>6, <2>8, <2>9 DEF TwoOnWire, WireKinds
  <2>11. TwoLoggedIn'
    BY <1>1, <2>1, <2>7 DEF TwoLoggedIn, ForUser
  <2> QED
    BY <2>2, <2>10, <2>11
<1>3. RmdsInv'
  BY <1>1 DEF RmdsInv, FromRmds, ProviderIsBridge
<1> QED
  BY <1>2, <1>3 DEF HandshakeInv

(* RMDS answers with all its services. *)
LEMMA RmdsSendsKeeps == HandshakeInv /\ RmdsSendsDirectory => HandshakeInv'
<1> SUFFICES ASSUME HandshakeInv, RmdsSendsDirectory PROVE HandshakeInv'
  OBVIOUS
<1>1. /\ UNCHANGED <<configured, connection, loginInfo, learnt, ends>>
      /\ ~ProviderIsBridge /\ ordinary
  BY DEF RmdsSendsDirectory, configured
<1>2. TwoInv'
  BY <1>1 DEF TwoInv, TwoBridges, ProviderIsBridge
<1>3. RmdsInv'
  <2> SUFFICES ASSUME FromRmds', ordinary'
               PROVE  (RmdsConfigured /\ RmdsTable /\ RmdsKnown /\ RmdsOnWire)'
    BY DEF RmdsInv
  <2>1. FromRmds
    BY <1>1 DEF FromRmds, ConsumerIsBridge, ProviderIsBridge
  <2>2. \/ \E more \in SUBSET ServiceIds : RmdsTells("refresh", DOMAIN rmdsServices \cup more)
        \/ /\ hsWire = Silence /\ connection = "known"
           /\ \E changed \in SUBSET ServiceIds \ {{}} : RmdsTells("update", changed)
    BY DEF RmdsSendsDirectory
  <2>3. RmdsInv /\ RmdsConfigured /\ RmdsTable
    BY <1>1, <2>1 DEF RmdsInv, HandshakeInv
  <2>4. DOMAIN rmdsServices \subseteq ServiceIds
    BY <2>3, Typed DEF RmdsConfigured, Services
  <2>5. /\ rmdsServices' \in Services /\ NamesApart(rmdsServices')
        /\ TableFits(ToldSoFar, rmdsServices')
        /\ hsWire'.is = "directory response" /\ ListFits(hsWire'.list, sources, rmdsServices')
    <3>1. ASSUME NEW more \in SUBSET ServiceIds, RmdsTells("refresh", DOMAIN rmdsServices \cup more)
          PROVE  <2>5!:
      <4>1. PICK changed : changed = DOMAIN rmdsServices \cup more
        OBVIOUS
      <4>2. changed \in SUBSET ServiceIds /\ RmdsTells("refresh", changed)
            /\ DOMAIN rmdsServices \subseteq changed
        BY <2>4, <3>1, <4>1
      <4> QED
        BY <1>1, <2>1, <2>3, <4>2, RmdsTellsWell
    <3>2. ASSUME NEW changed \in SUBSET ServiceIds, RmdsTells("update", changed),
                 hsWire = Silence, connection = "known"
          PROVE  <2>5!:
      BY <1>1, <2>1, <2>3, <3>2, RmdsTellsWell
    <3> QED
      BY <2>2, <3>1, <3>2
  <2>6. UNCHANGED <<sources, serviceNames, subsLive, listed>>
    BY <1>1 DEF learnt
  <2>7. RmdsConfigured' /\ RmdsTable'
    BY <2>3, <2>5, <2>6 DEF RmdsConfigured, RmdsTable, ToldSoFar
  <2>8. RmdsOnWire'
    BY <2>5, <2>6 DEF RmdsOnWire
  <2>9. RmdsKnown'
    BY <2>5 DEF RmdsKnown, Silence
  <2> QED
    BY <2>7, <2>8, <2>9
<1> QED
  BY <1>2, <1>3 DEF HandshakeInv

-----------------------------------------------------------------------------
(* The consumer takes a directory response.                                *)

(* What the one entry of a bridge decodes to. *)
LEMMA SourceDecoded ==
  ASSUME TwoConfigured
  PROVE  /\ TheSource.decodes = TRUE /\ "state" \in DOMAIN TheSource.parts
         /\ Decoded(TheSource).id = source.id
         /\ Decoded(TheSource).state = State(TRUE, TRUE)
         /\ Decoded(TheSource).info =
              Info(source.name, SubSeq(Capabilities, 1, Min({2, MaxCapabilities})))
         /\ Decoded(TheSource).rest = [load |-> Load, link |-> <<Link>>]
<1>1. PICK name : name = source.name
  OBVIOUS
<1>2. PICK all : all = [info  |-> Info(name, Capabilities), state |-> State(TRUE, TRUE),
                        load  |-> Load, link  |-> <<Link>>]
  OBVIOUS
<1>3. PICK parts : parts = Only(Parts, all)
  OBVIOUS
<1>4. /\ DOMAIN all = {"info", "state", "load", "link"}
      /\ all["info"] = Info(name, Capabilities) /\ all["state"] = State(TRUE, TRUE)
      /\ all["load"] = Load /\ all["link"] = <<Link>>
  BY <1>2
<1>5. DOMAIN parts = {"info", "state", "load", "link"} /\ \A p \in DOMAIN parts : parts[p] = all[p]
  BY <1>3, <1>4 DEF Only, Parts
<1>6. PICK e : e = TheSource
  OBVIOUS
<1>7. e = [id |-> source.id, parts |-> parts, decodes |-> TRUE]
  BY <1>1, <1>2, <1>3, <1>6 DEF TheSource, EncodeSourceDirectoryInfo, DirectoryEntry
<1>8. e.id = source.id /\ e.parts = parts /\ e.decodes = TRUE
  BY <1>7
<1>9. PICK rest : rest = [p \in DOMAIN parts \ {"info", "state"} |-> parts[p]]
  OBVIOUS
<1>10. rest = [load |-> Load, link |-> <<Link>>]
  <2>1. DOMAIN parts \ {"info", "state"} = {"load", "link"}
    BY <1>5
  <2>2. parts["load"] = Load /\ parts["link"] = <<Link>>
    BY <1>4, <1>5
  <2>3. PICK r : r = [load |-> Load, link |-> <<Link>>]
    OBVIOUS
  <2>4. DOMAIN r = {"load", "link"} /\ r["load"] = Load /\ r["link"] = <<Link>>
        /\ r = [p \in {"load", "link"} |-> r[p]]
    BY <2>3
  <2>5. rest = [p \in {"load", "link"} |-> parts[p]]
    BY <1>9, <2>1
  <2>6. \A p \in {"load", "link"} : parts[p] = r[p]
    BY <2>2, <2>4
  <2> QED
    BY <2>3, <2>4, <2>5, <2>6
<1>11. PICK info : info = DecodedInfo(parts["info"])
  OBVIOUS
<1>12. info = Info(name, SubSeq(Capabilities, 1, Min({2, MaxCapabilities})))
  <2>1. parts["info"].name = name /\ parts["info"].capabilities = Capabilities
    BY <1>4, <1>5 DEF Info
  <2>2. Cut(name, DirectoryTextSize) = name
    BY <1>1, NameWhole DEF TwoConfigured
  <2>3. Len(Capabilities) = 2
    BY DEF Capabilities
  <2> QED
    BY <1>11, <2>1, <2>2, <2>3 DEF DecodedInfo, Info
<1>13. PICK d : d = Decoded(e)
  OBVIOUS
<1>14. d = [id |-> source.id, info |-> info, state |-> State(TRUE, TRUE), rest |-> rest]
  BY <1>4, <1>5, <1>8, <1>9, <1>11, <1>13 DEF Decoded
<1>15. d.id = source.id /\ d.info = info /\ d.state = State(TRUE, TRUE) /\ d.rest = rest
  BY <1>14
<1>16. e.decodes = TRUE /\ "state" \in DOMAIN e.parts
  BY <1>5, <1>8
<1> HIDE DEF TheSource
<1> QED
  BY <1>1, <1>6, <1>10, <1>12, <1>13, <1>15, <1>16

(* A list without a broken entry is taken as a whole. *)
LEMMA WholeList ==
  ASSUME NEW list, \A k \in DOMAIN list : list[k].decodes
  PROVE  Broken(list) = {} /\ Whole(list) = list
BY DEF Broken, Whole

(* A consumer learns the one source of a bridge. *)
LEMMA TwoResponseKeeps ==
  ASSUME HandshakeInv, ProcessSourceDirectoryResponse, TwoBridges
  PROVE  (TwoConfigured /\ TwoOnWire /\ TwoLoggedIn /\ TwoLearnt)'
<1>1. /\ UNCHANGED <<configured, rmdsServices, loginInfo, ordinary, user, acceptsPosts, source>>
      /\ hsWire.is = "directory response" /\ hsWire' = Silence /\ hsWire'.is = "nothing"
  BY DEF ProcessSourceDirectoryResponse, configured, Silence
<1>2. TwoConfigured /\ TwoLearnt /\ TwoOnWire /\ TwoLoggedIn
  BY <1>1, OtherPairs DEF HandshakeInv
<1>3. hsWire = DirectoryResponse("refresh", <<TheSource>>) /\ connection = "asked"
  BY <1>1, <1>2 DEF TwoOnWire
<1>4. PICK e, list : e = TheSource /\ list = <<e>>
  OBVIOUS
<1>5. hsWire.class = "refresh" /\ hsWire.list = list
  BY <1>3, <1>4 DEF DirectoryResponse
<1>6. PICK d : d = Decoded(e)
  OBVIOUS
<1>7. /\ e.decodes = TRUE /\ "state" \in DOMAIN e.parts
      /\ d.id = source.id /\ d.state = State(TRUE, TRUE)
      /\ d.info = Info(source.name, SubSeq(Capabilities, 1, Min({2, MaxCapabilities})))
      /\ d.rest = [load |-> Load, link |-> <<Link>>]
  BY <1>2, <1>4, <1>6, SourceDecoded
<1>8. Broken(list) = {} /\ Whole(list) = list
  BY <1>4, <1>7, WholeList
<1>9. PICK told, t : told = ToldSoFar /\ t = SetState(told, d)
  OBVIOUS
<1>10. t = DecodeSourceDirectoryResponse(list)
  <2>1. TakeEntry(told, e) = t
    BY <1>6, <1>7, <1>9 DEF TakeEntry
  <2>2. TakeEntries(told, list) = t
    BY <1>4, <2>1, TakenAlone
  <2> QED
    BY <1>8, <1>9, <2>2 DEF DecodeSourceDirectoryResponse, ToldSoFar
<1>11. /\ sources' = t.sources /\ serviceNames' = t.names /\ listed' = t.listed
       /\ connection' = "known"
  BY <1>5, <1>8, <1>10 DEF ProcessSourceDirectoryResponse
<1>12. told.sources = sources /\ told.names = serviceNames
  BY <1>9 DEF ToldSoFar
<1>13. PICK id, name : id = source.id /\ name = source.name
  OBVIOUS
<1>14. PICK known \in BOOLEAN : known = IF id \in DOMAIN sources THEN TRUE ELSE FALSE
  OBVIOUS
<1>15. d.state.up = TRUE /\ d.state.accepting = TRUE /\ d.info.name = name
  BY <1>7, <1>13 DEF State, Info
<1>16. PICK was : was = IF known THEN sources[id].name ELSE name
  OBVIOUS
<1>17. was = name
  BY <1>2, <1>13, <1>14, <1>16 DEF TwoLearnt, Learnt
<1>18. PICK v : v = [name |-> name, up |-> TRUE, accepting |-> TRUE]
  OBVIOUS
<1>19. /\ t.sources = With(sources, id, v) /\ t.listed = d
       /\ t.names = IF known THEN serviceNames ELSE With(serviceNames, name, id)
  BY <1>7, <1>9, <1>12, <1>13, <1>14, <1>15, <1>16, <1>17, <1>18 DEF SetState, IsKnown
<1>20. DOMAIN sources \in {{}, {id}}
  BY <1>2, <1>13 DEF TwoLearnt, Learnt
<1>21. DOMAIN sources' = {id} /\ sources'[id] = v
  BY <1>11, <1>19, <1>20 DEF With
<1>22. name \in DOMAIN serviceNames' /\ serviceNames'[name] = id
  <2>1. CASE known
    <3>1. serviceNames' = serviceNames /\ Resolves(name, id)
      BY <1>2, <1>11, <1>13, <1>14, <1>19, <2>1 DEF TwoLearnt, Learnt
    <3> QED
      BY <3>1 DEF Resolves
  <2>2. CASE ~known
    <3>1. serviceNames' = With(serviceNames, name, id)
      BY <1>11, <1>19, <2>2
    <3> QED
      BY <3>1 DEF With
  <2> QED
    BY <2>1, <2>2
<1>23. Learnt'
  BY <1>1, <1>7, <1>11, <1>13, <1>18, <1>19, <1>21, <1>22 DEF Learnt, Resolves
<1>24. TwoOnWire'
  BY <1>1 DEF TwoOnWire, WireKinds
<1>25. TwoLoggedIn'
  BY <1>1, <1>2, <1>3 DEF TwoLoggedIn, ForUser
<1> QED
  BY <1>1, <1>2, <1>23, <1>24, <1>25 DEF TwoConfigured, TwoLearnt

(* A consumer learns what RMDS tells. *)
LEMMA RmdsResponseKeeps ==
  ASSUME HandshakeInv, ProcessSourceDirectoryResponse, FromRmds, ordinary
  PROVE  (RmdsConfigured /\ RmdsTable /\ RmdsKnown /\ RmdsOnWire)'
<1>1. /\ UNCHANGED <<rmdsServices, ordinary>>
      /\ hsWire.is = "directory response" /\ hsWire' = Silence /\ hsWire'.is = "nothing"
  BY DEF ProcessSourceDirectoryResponse, Silence
<1>2. RmdsConfigured /\ RmdsTable /\ RmdsOnWire
  BY DEF HandshakeInv, RmdsInv
<1>3. PICK told, list, S : told = ToldSoFar /\ list = hsWire.list /\ S = rmdsServices
  OBVIOUS
<1>4. /\ S \in Services /\ NamesApart(S) /\ TableTyped(told) /\ TableFits(told, S)
      /\ told = [sources |-> sources, names |-> serviceNames, live |-> subsLive, listed |-> listed]
      /\ told.sources = sources /\ ListFits(list, told.sources, S)
  BY <1>1, <1>2, <1>3 DEF RmdsConfigured, RmdsTable, RmdsOnWire, ToldSoFar
<1>5. Broken(list) = {} /\ Whole(list) = list
  <2>1. \A k \in DOMAIN list : list[k].decodes
    BY <1>4 DEF ListFits, IsList, EntriesFit, EntryFits
  <2> QED
    BY <2>1, WholeList
<1>6. PICK t : t = TakeEntries(told, list)
  OBVIOUS
<1>7. TableTyped(t) /\ TableFits(t, S) /\ \A id \in DOMAIN S : UpToDate(t.sources, S, id)
  BY <1>4, <1>6, ListTaken
<1>8. t = DecodeSourceDirectoryResponse(hsWire.list)
  BY <1>3, <1>4, <1>5, <1>6 DEF DecodeSourceDirectoryResponse
<1>9. sources' = t.sources /\ serviceNames' = t.names /\ subsLive' = t.live
  BY <1>8 DEF ProcessSourceDirectoryResponse
<1>10. RmdsConfigured'
  BY <1>1, <1>2 DEF RmdsConfigured
<1>11. RmdsTable'
  <2>1. PICK u : u = [sources |-> sources', names |-> serviceNames', live |-> subsLive', listed |-> listed']
    OBVIOUS
  <2>2. u.sources = t.sources /\ u.names = t.names /\ u.live = t.live
    BY <1>9, <2>1
  <2>3. TableTyped(u) /\ TableFits(u, S)
    BY <1>7, <2>2 DEF TableTyped, TableFits
  <2>4. rmdsServices' = S
    BY <1>1, <1>3
  <2> QED
    BY <2>1, <2>3, <2>4 DEF RmdsTable, ToldSoFar
<1>12. RmdsKnown'
  BY <1>1, <1>3, <1>7, <1>9 DEF RmdsKnown
<1>13. RmdsOnWire'
  BY <1>1 DEF RmdsOnWire
<1> QED
  BY <1>10, <1>11, <1>12, <1>13

(* A directory response of either kind keeps the invariant. *)
LEMMA DirectoryResponseKeeps == HandshakeInv /\ ProcessSourceDirectoryResponse => HandshakeInv'
<1> SUFFICES ASSUME HandshakeInv, ProcessSourceDirectoryResponse PROVE HandshakeInv'
  OBVIOUS
<1>1. UNCHANGED <<ends, ordinary>>
  BY DEF ProcessSourceDirectoryResponse, configured
<1>2. TwoInv'
  BY <1>1, TwoResponseKeeps DEF TwoInv, TwoBridges, ConsumerIsBridge, ProviderIsBridge
<1>3. RmdsInv'
  BY <1>1, RmdsResponseKeeps DEF RmdsInv, FromRmds, ConsumerIsBridge, ProviderIsBridge
<1> QED
  BY <1>2, <1>3 DEF HandshakeInv

(* Every reachable state satisfies it. *)
LEMMA HandshakeInvariance == HandshakeSpec => []HandshakeInv
<1>1. HandshakeInit => HandshakeInv
  <2> SUFFICES ASSUME HandshakeInit PROVE HandshakeInv
    OBVIOUS
  <2>1. DOMAIN << >> = {}
    <3>1. << >> = [x \in {} |-> 0]
      OBVIOUS
    <3> QED
      BY <3>1
  <2>2. /\ rmdsServices = << >> /\ sources = << >> /\ serviceNames = << >> /\ subsLive = {}
        /\ connection = "down" /\ hsWire = Silence /\ hsWire.is = "nothing"
    BY DEF HandshakeInit, Silence
  <2>3. TwoInv
    <3> SUFFICES ASSUME TwoBridges PROVE TwoConfigured /\ TwoOnWire /\ TwoLoggedIn /\ TwoLearnt
      BY DEF TwoInv
    <3>1. TwoConfigured
      BY DEF HandshakeInit, TwoConfigured, TwoBridges
    <3>2. TwoOnWire /\ TwoLoggedIn /\ TwoLearnt
      BY <2>1, <2>2 DEF TwoOnWire, TwoLoggedIn, TwoLearnt, WireKinds
    <3> QED
      BY <3>1, <3>2
  <2>4. \A K, V : << >> \in TablesOf(K, V)
    <3> TAKE K, V
    <3>1. << >> = [x \in {} |-> 0] /\ [x \in {} |-> 0] \in [{} -> V] /\ {} \in SUBSET K
      OBVIOUS
    <3> QED
      BY <3>1 DEF TablesOf
  <2>5. RmdsConfigured
    BY <2>1, <2>2, <2>4 DEF RmdsConfigured, Services, NamesApart
  <2>6. RmdsTable
    BY <2>1, <2>2, <2>4 DEF RmdsTable, TableTyped, TableFits, ToldSoFar, SourceTables, NameTables
  <2>7. RmdsKnown /\ RmdsOnWire
    BY <2>2 DEF RmdsKnown, RmdsOnWire
  <2> QED
    BY <2>3, <2>5, <2>6, <2>7 DEF HandshakeInv, RmdsInv
<1>2. HandshakeInv /\ [HandshakeNext]_hsVars => HandshakeInv'
  <2> SUFFICES ASSUME HandshakeInv, [HandshakeNext]_hsVars PROVE HandshakeInv'
    OBVIOUS
  <2>1. CASE Connected \/ Disconnected
    BY <2>1, ConnectedKeeps
  <2>2. CASE SendLoginRequest
    BY <2>2, LoginRequestKeeps
  <2>3. CASE ProcessLoginRequest \/ RmdsAnswersLogin
    BY <2>3, LoginAnswerKeeps
  <2>4. CASE ProcessLoginResponse
    BY <2>4, LoginResponseKeeps
  <2>5. CASE SendDirectoryRequest
    BY <2>5, DirectoryRequestKeeps
  <2>6. CASE ProcessSourceDirectoryRequest
    BY <2>6, DirectoryAnswerKeeps
  <2>7. CASE RmdsSendsDirectory
    BY <2>7, RmdsSendsKeeps
  <2>8. CASE ProcessSourceDirectoryResponse
    BY <2>8, DirectoryResponseKeeps
  <2>9. CASE OtherConsumerReads
    <3>1. ~ConsumerIsBridge /\ UNCHANGED ends
      BY <2>9 DEF OtherConsumerReads, configured
    <3> QED
      BY <3>1 DEF HandshakeInv, TwoInv, RmdsInv, TwoBridges, FromRmds, ConsumerIsBridge
  <2>10. CASE UNCHANGED hsVars
    <3>1. UNCHANGED <<ends, user, acceptsPosts, source, rmdsServices, connection, hsWire, loginInfo,
                      sources, serviceNames, subsLive, listed, ordinary>>
      BY <2>10 DEF hsVars
    <3>2. TwoInv'
      BY <3>1 DEF HandshakeInv, TwoInv, TwoBridges, ConsumerIsBridge, ProviderIsBridge, TwoConfigured,
                  TwoOnWire, TwoLoggedIn, TwoLearnt, Learnt, Resolves, ForUser, TheSource,
                  EncodeSourceDirectoryInfo
    <3>3. RmdsInv'
      BY <3>1 DEF HandshakeInv, RmdsInv, FromRmds, ConsumerIsBridge, ProviderIsBridge, RmdsConfigured,
                  RmdsTable, RmdsKnown, RmdsOnWire, ToldSoFar
    <3> QED
      BY <3>2, <3>3 DEF HandshakeInv
  <2> QED
    BY <2>1, <2>2, <2>3, <2>4, <2>5, <2>6, <2>7, <2>8, <2>9, <2>10 DEF HandshakeNext
<1> QED
  BY <1>1, <1>2, PTL DEF HandshakeSpec

(* What a consumer knows once the directory has been answered is what the   *)
(* provider has: all of a bridge's one source, and of RMDS's services those *)
(* that it has told, in the states they were last said to be in, for any    *)
(* texts, field sizes, services and number of messages.                     *)
THEOREM KnownAsTold == HandshakeSpec => []DirectoryArrives
<1>1. HandshakeInv => DirectoryArrives
  <2> SUFFICES ASSUME HandshakeInv, ConsumerIsBridge, connection = "known", hsWire = Silence
               PROVE  DirectoryArrives
    BY DEF DirectoryArrives
  <2>1. CASE ProviderIsBridge
    <3>1. Learnt /\ TwoLoggedIn
      BY <2>1 DEF HandshakeInv, TwoInv, TwoBridges, TwoLearnt
    <3> QED
      BY <2>1, <3>1 DEF DirectoryArrives, Learnt, TwoLoggedIn, ForUser
  <2>2. CASE ~ProviderIsBridge
    <3> SUFFICES ASSUME ordinary
                 PROVE  /\ DOMAIN sources = DOMAIN rmdsServices
                        /\ \A id \in DOMAIN sources :
                             /\ sources[id].up = rmdsServices[id].up
                             /\ Resolves(rmdsServices[id].name, id)
                             /\ ~sources[id].up => id \notin subsLive
      BY <2>2 DEF DirectoryArrives
    <3>1. RmdsTable /\ RmdsKnown
      BY <2>2 DEF HandshakeInv, RmdsInv, FromRmds
    <3>2. \A id \in DOMAIN rmdsServices : UpToDate(sources, rmdsServices, id)
      BY <3>1 DEF RmdsKnown
    <3>3. /\ \A id \in DOMAIN sources : /\ id \in DOMAIN rmdsServices
                                        /\ rmdsServices[id].name \in DOMAIN serviceNames
                                        /\ serviceNames[rmdsServices[id].name] = id
          /\ \A id \in subsLive : sources[id].up
      BY <3>1 DEF RmdsTable, TableFits, ToldSoFar
    <3> QED
      BY <3>2, <3>3 DEF UpToDate, Resolves
  <2> QED
    BY <2>1, <2>2
<1> QED
  BY <1>1, HandshakeInvariance, PTL
=============================================================================
