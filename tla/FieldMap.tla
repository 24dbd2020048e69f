------------------------------ MODULE FieldMap ------------------------------
(***************************************************************************)
(* The table that gives each RMDS field a fid and a name for MAMA          *)
(* (UPAMamaFieldMap.cpp): filled from the rows of fieldmap.csv, completed  *)
(* from the RMDS dictionary when the client's dictionary is built, and     *)
(* extended with fields the decoder meets.                                 *)
(*                                                                         *)
(* The file is read when the subscriber is made.  The client's dictionary  *)
(* is built once, when the RMDS dictionary is complete, or before that     *)
(* when a publisher is created; messages are decoded after both.           *)
(* Names are model values or strings; the types of fields are FieldCodec's.*)
(***************************************************************************)
EXTENDS Integers, Sequences, SequencesExt, FiniteSets, FiniteSetsExt, Maps

CONSTANTS RmdsDictionary,  \* RMDS fid -> acronym
          MamaDictionary,  \* name -> fid, the reserved fields included
          Rows,            \* the rows a file may have: [source, name, fid],
                           \* fid 0 where the column is empty
          MaxRows,         \* bound on the rows of a file
          FirstFids        \* the first fid for untranslated fields, 0: not set

MamaFids == {MamaDictionary[n] : n \in DOMAIN MamaDictionary}
Sources  == DOMAIN RmdsDictionary \cup {r.source : r \in Rows}

ASSUME FieldMapAssumption ==
  /\ Sources \subseteq Int \ {0} /\ IsFiniteSet(DOMAIN RmdsDictionary)
  /\ MamaFids \subseteq Nat \ {0} /\ IsFiniteSet(MamaFids) /\ MamaFids # {}
  /\ \A r \in Rows : r.fid \in Nat
  /\ FirstFids \subseteq Nat /\ MaxRows \in Nat

VARIABLES fieldsMap,     \* RMDS fid -> entry
          mama2rmds,     \* MAMA fid -> RMDS fid, where there is one
          lastFid,       \* NonTranslatedFieldFid_CurrentValue_
          start,         \* what lastFid started from
          pass,          \* ShouldPassNonTranslated_
          conflicting,   \* names whose fid in the file is not MAMA's
          built,         \* the client's dictionary has been built
          combined,      \* and what it says, fid -> name
          loaded,        \* the RMDS dictionary is complete
          rows,          \* history: the rows of the file
          given          \* history: RMDS fid -> the fid first decoded under

mapVars == <<fieldsMap, mama2rmds, lastFid, start, pass, conflicting, built,
             combined, loaded, rows, given>>

Entry(fid, name, none) == [fid |-> fid, name |-> name, hasNoMamaFid |-> none]
NoEntry == Entry(0, "", TRUE)

(* Without a configured start the counter starts above MAMA's fids.        *)
FieldMapInit ==
  /\ fieldsMap = [s \in Sources |-> NoEntry] /\ mama2rmds = << >>
  /\ \E first \in FirstFids : start = IF first = 0 THEN Max(MamaFids) + 1 ELSE first
  /\ lastFid = start
  /\ pass \in BOOLEAN
  /\ conflicting = {} /\ built = FALSE /\ combined = << >> /\ loaded = FALSE
  /\ rows = << >> /\ given = << >>

InMama(name) == name \in DOMAIN MamaDictionary

(* A row without a fid takes MAMA's for its name, or the next of the       *)
(* counter; either way it stays marked as having none.                     *)
LoadRow(r) ==
  LET fresh == r.fid = 0 /\ ~InMama(r.name)
      fid   == IF r.fid # 0 THEN r.fid
               ELSE IF fresh THEN lastFid + 1 ELSE MamaDictionary[r.name]
  IN /\ ~loaded /\ ~built /\ Len(rows) < MaxRows
     /\ lastFid' = lastFid + IF fresh THEN 1 ELSE 0
     /\ fieldsMap' = [fieldsMap EXCEPT ![r.source] = Entry(fid, r.name, r.fid = 0)]
     /\ mama2rmds' = With(mama2rmds, fid, r.source)
     /\ conflicting' = conflicting \cup
          IF r.fid # 0 /\ InMama(r.name) /\ MamaDictionary[r.name] # r.fid
          THEN {r.name} ELSE {}
     /\ rows' = Append(rows, r)
     /\ UNCHANGED <<start, pass, built, combined, loaded, given>>

(* CombineDictionaries.  The fields of the RMDS dictionary that are marked *)
(* as having no fid get the next ones, in the order of the RMDS fids, and  *)
(* the name and type of the RMDS field even if the file named them.        *)
Added(hasRmds) ==
  {s \in DOMAIN RmdsDictionary : pass /\ hasRmds /\ fieldsMap[s].hasNoMamaFid}
NextFid(new, s) == lastFid + Cardinality({x \in new : x <= s})
MapWith(new) ==
  [s \in Sources |-> IF s \in new THEN Entry(NextFid(new, s), RmdsDictionary[s], FALSE)
                                   ELSE fieldsMap[s]]
BackWith(new) ==
  LET fids == {NextFid(new, s) : s \in new} IN
  [f \in DOMAIN mama2rmds \cup fids |->
     IF f \in fids THEN CHOOSE s \in new : NextFid(new, s) = f ELSE mama2rmds[f]]

(* A name of MAMA's dictionary is never taken from the field map, and, if  *)
(* its fid is in conflict with the file's, from MAMA's dictionary neither. *)
Described(map) ==
  LET own == {s \in Sources : ~map[s].hasNoMamaFid /\ ~InMama(map[s].name)}
      fids == {map[s].fid : s \in own}
  IN [f \in fids |-> map[Max({s \in own : map[s].fid = f})].name]
     @@ [f \in {MamaDictionary[n] : n \in DOMAIN MamaDictionary \ conflicting} |->
           CHOOSE n \in DOMAIN MamaDictionary : MamaDictionary[n] = f]

Combine(hasRmds) ==
  LET new == Added(hasRmds) IN
  IF built THEN UNCHANGED <<fieldsMap, mama2rmds, lastFid, built, combined>>
  ELSE /\ fieldsMap' = MapWith(new)
       /\ mama2rmds' = BackWith(new)
       /\ lastFid' = lastFid + Cardinality(new)
       /\ built' = TRUE
       /\ combined' = Described(MapWith(new))

(* A poster or a publisher of items is created: it needs the dictionary,   *)
(* whether the RMDS dictionary is there or not.                            *)
CreatePublisher ==
  /\ Combine(loaded)
  /\ UNCHANGED <<start, pass, conflicting, loaded, rows, given>>

DictionaryUpdate ==
  /\ ~loaded /\ loaded' = TRUE
  /\ Combine(TRUE)
  /\ UNCHANGED <<start, pass, conflicting, rows, given>>

(* FindField and GetTranslatedField, called for each field of the RMDS     *)
(* dictionary that a message has.  A field that is not translated gets the *)
(* next fid; the flag of its new entry is not initialised.                 *)
TranslateFound(s) == fieldsMap[s].fid # 0 /\ UNCHANGED <<fieldsMap, mama2rmds, lastFid>>
TranslateNew(s) ==
  /\ fieldsMap[s].fid = 0 /\ pass
  /\ lastFid' = lastFid + 1
  /\ \E none \in BOOLEAN :
       fieldsMap' = [fieldsMap EXCEPT ![s] = Entry(lastFid + 1, RmdsDictionary[s], none)]
  /\ mama2rmds' = With(mama2rmds, lastFid + 1, s)

\* A mutant: the new entry is handed out but not kept.
TranslateUnkept(s) ==
  \/ TranslateFound(s)
  \/ fieldsMap[s].fid = 0 /\ pass /\ lastFid' = lastFid + 1 /\ UNCHANGED <<fieldsMap, mama2rmds>>

GetTranslatedField(s) == TranslateFound(s) \/ TranslateNew(s)

DecodeField(s) ==
  /\ loaded
  /\ GetTranslatedField(s)
  /\ given' = WithNew(given, s, IF fieldsMap[s].fid # 0 THEN fieldsMap[s].fid ELSE lastFid')
  /\ UNCHANGED <<start, pass, conflicting, built, combined, loaded, rows>>

(* What a field that the client publishes becomes: 0 for none.             *)
GetRMDSFidFromMAMAFid(fid) == IF fid \in DOMAIN mama2rmds THEN mama2rmds[fid] ELSE 0

FieldMapNext ==
  \/ \E r \in Rows : LoadRow(r)
  \/ CreatePublisher
  \/ DictionaryUpdate
  \/ \E s \in DOMAIN RmdsDictionary : DecodeField(s)

FieldMapSpec == FieldMapInit /\ [][FieldMapNext]_mapVars

---------------------------------------------------------------------------
(* Properties.                                                             *)

(* The file and the configured start leave no fid to two fields: rows of   *)
(* different fields have different fids, none above the start, and the     *)
(* start is not below MAMA's fids.  Nothing in the code checks it: a row   *)
(* that names a fid above the start is given to an untranslated field too. *)
FidOfRow(r) == IF r.fid # 0 \/ ~InMama(r.name) THEN r.fid ELSE MamaDictionary[r.name]
WellConfigured ==
  /\ start >= Max(MamaFids)
  /\ \A r \in ToSet(rows) :
       /\ FidOfRow(r) <= start
       /\ FidOfRow(r) # 0 => \A q \in ToSet(rows) :
                                q.source # r.source => FidOfRow(q) # FidOfRow(r)

(* A field keeps the fid it was first given to the client under, and what  *)
(* the client publishes under that fid goes out as that field: whenever    *)
(* the client's dictionary is built, and in whatever order fields that the *)
(* file does not have are met (UPAMamaFieldMap.h:133-192).                 *)
FidsComeBack ==
  WellConfigured =>
    \A s \in DOMAIN given :
      fieldsMap[s].fid = given[s] /\ GetRMDSFidFromMAMAFid(given[s]) = s
=============================================================================
