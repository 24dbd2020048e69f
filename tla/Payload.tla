------------------------------- MODULE Payload -------------------------------
(***************************************************************************)
(* A message of the payload library (upapayload.h, upapayloadimpl.cpp,     *)
(* upamsgimpl.cpp): a hash map of fields keyed by fid.  One program thread *)
(* builds a message (payload), keeps a second one that it copies from, to  *)
(* and merges (spare), and walks the first with an iterator.               *)
(*                                                                         *)
(* A map is a sequence of fields with distinct fids: the order of the      *)
(* sequence is the hash order, which the library does not specify and a    *)
(* new key may change.                                                     *)
(***************************************************************************)
EXTENDS Values, SequencesExt, Maps

CONSTANTS Fids,       \* field identifiers; 0 stands for "by name"
          Names,      \* the field names
          NoName,     \* a NULL name
          NameOf,     \* the name a program gives with each fid that is not 0
          Contents,   \* what a program puts into fields
          MaxFields   \* bound on the fields of a message

ASSUME PayloadAssumption ==
  /\ Fids \subseteq Nat /\ MaxFields \in Nat
  /\ NoName \notin Names
  /\ \A c \in Contents : IsContent(c)
  /\ NameOf \in [Fids \ {0} -> Names \cup {NoName}]

VARIABLES payload,  \* the fields of the message, in hash order
          spare,    \* the set of fields of the second message
          iter,     \* the iterator on payload
          visited,  \* history: the fids its next has returned since associate
          written,  \* history: fid -> the content last accepted for it
          lent      \* history: written, as it was when spare was copied

payloadVars == <<payload, spare, iter, visited, written, lent>>

(* upaMsg_set* stores an empty name for a NULL one.                        *)
EmptyName == <<>>
StoredName(name) == IF name = NoName THEN EmptyName ELSE <<name>>
Field(fid, name, c) == [fid |-> fid, name |-> StoredName(name), type |-> c.type, v |-> c.v]

Keys(fs)    == [i \in DOMAIN fs |-> fs[i].fid]
HasKey(fs, fid) == \E i \in DOMAIN fs : fs[i].fid = fid
At(fs, fid) == CHOOSE i \in DOMAIN fs : fs[i].fid = fid

(* The iterator: pos is the field current_ points at (Len + 1 at the end), *)
(* front the flag mamaBegin_ by which it stands before the first field.    *)
(* rewound and ended are history: begin was called in the middle of a      *)
(* walk; next has returned no field.                                       *)
NoIter   == [pos |-> 0, front |-> FALSE, rewound |-> FALSE, ended |-> FALSE]
AtFront  == [pos |-> 1, front |-> TRUE, rewound |-> FALSE, ended |-> FALSE]

---------------------------------------------------------------------------
(* Storing a field.  Each operator is the set of maps the call may leave.  *)

(* A new key may rehash the map.                                           *)
Emplaced(fs, f) == SetToSeqs(ToSet(fs) \cup {f})

(* A mutant: a field that exists keeps its content, as with the emplace of *)
(* set(std::string).                                                       *)
StoredOnce(fs, f) == IF HasKey(fs, f.fid) THEN {fs} ELSE Emplaced(fs, f)

(* set<T>, setVectorString and setVector<T> replace the field of the fid.  *)
Stored(fs, f) == IF HasKey(fs, f.fid) THEN {[fs EXCEPT ![At(fs, f.fid)] = f]}
                                      ELSE Emplaced(fs, f)

(* setPrice, setMsg, setVectorMsg and setOpaque replace it only if it has  *)
(* the same type already; otherwise they leave the old field.              *)
StoredIfSame(fs, f) ==
  IF HasKey(fs, f.fid) /\ fs[At(fs, f.fid)].type # f.type THEN {fs} ELSE Stored(fs, f)

Wrapped4 == {"PRICE", "MSG", "VECTOR_MSG", "OPAQUE"}
Scalars  == Ints \cup Floats \cup {"BOOL", "CHAR"}
Objects  == {"STRING", "OPAQUE", "TIME", "PRICE", "MSG"}
NumberVectors == {"VECTOR_I8"}                     \* the others: not implemented
ObjectVectors == {"VECTOR_STRING", "VECTOR_MSG"}   \* of times and prices: neither

Put(fs, f) == IF f.type \in Wrapped4 THEN StoredIfSame(fs, f) ELSE Stored(fs, f)

(* A vector of characters is stored with the type of its element, and the  *)
(* variant is left at its first member: a reader sees the number 0.        *)
AsStored(c) == IF c.type = "VECTOR_I8" THEN Content("I8", <<0>>) ELSE c

(* The name check of every call: a fid, or a name that is not empty.       *)
Named(name, fid) == fid # 0 \/ name # NoName

(* What the program may know of the field afterwards: the content that was *)
(* accepted, unless the library kept a field of another type silently.     *)
Accept(fid, c) ==
  IF c.type \in Wrapped4 /\ HasKey(payload, fid) /\ payload[At(payload, fid)].type # c.type
  THEN written ELSE With(written, fid, c)

(* A rehash invalidates the iterators (C++): the walk is over.             *)
Write(fid, name, c) ==
  /\ Named(name, fid)
  /\ HasKey(payload, fid) \/ Len(payload) < MaxFields
  /\ payload' \in Put(payload, Field(fid, name, c))
  /\ written' = Accept(fid, c)
  /\ IF HasKey(payload, fid) THEN UNCHANGED <<iter, visited>>
                             ELSE iter' = NoIter /\ visited' = << >>
  /\ UNCHANGED <<spare, lent>>

(* The message API: add* and update* do the same.                          *)
Choice(kinds, Op(_, _, _)) ==
  \E c \in Contents, fid \in Fids :
     /\ c.type \in kinds
     /\ \E name \in IF fid = 0 THEN Names ELSE {NameOf[fid]} : Op(fid, name, c)

WriteNumbers(fid, name, c) == Write(fid, name, AsStored(c))

AddScalar           == Choice(Scalars, Write)
AddObject           == Choice(Objects, Write)
AddNumberVector     == Choice(NumberVectors, WriteNumbers)
AddObjectVector     == Choice(ObjectVectors, Write)
UpdateScalar        == Choice(Scalars, Write)
UpdateObject        == Choice(Objects, Write)
UpdateObjectVector  == Choice(ObjectVectors, Write)
UpdateNumberVector  == Choice(NumberVectors, WriteNumbers)

(* The field API: a field found in the message is assigned in place, and   *)
(* refuses another type.                                                   *)
UpdateField ==
  \E i \in DOMAIN payload, c \in Contents :
     /\ c.type \in (Scalars \cup Objects) \ {"MSG", "OPAQUE"}
     /\ MaySet(payload[i], c)
     /\ payload' = [payload EXCEPT ![i].type = c.type, ![i].v = c.v]
     /\ written' = With(written, payload[i].fid, c)
     /\ UNCHANGED <<spare, lent, iter, visited>>

---------------------------------------------------------------------------
(* Whole messages.                                                         *)

Clear ==
  /\ payload # << >>
  /\ payload' = << >> /\ written' = << >>
  /\ iter' = NoIter /\ visited' = << >>
  /\ UNCHANGED <<spare, lent>>

CopyOut ==
  /\ spare' = ToSet(payload) /\ lent' = written
  /\ UNCHANGED <<payload, iter, visited, written>>

CopyIn ==
  /\ payload' \in SetToSeqs(spare)
  /\ written' = lent
  /\ iter' = NoIter /\ visited' = << >>
  /\ UNCHANGED <<spare, lent>>

(* apply: each field of the source replaces the one of its fid, whatever   *)
(* its type, or is added.                                                  *)
Kept(fs, src)   == {f \in ToSet(fs) : \A g \in src : g.fid # f.fid}
Merged(fs, src) ==
  IF \A g \in src : HasKey(fs, g.fid)
  THEN {[i \in DOMAIN fs |-> IF \E g \in src : g.fid = fs[i].fid
                              THEN CHOOSE g \in src : g.fid = fs[i].fid
                              ELSE fs[i]]}
  ELSE SetToSeqs(Kept(fs, src) \cup src)

Apply ==
  /\ spare # {}
  /\ Cardinality(Kept(payload, spare) \cup spare) <= MaxFields
  /\ payload' \in Merged(payload, spare)
  /\ written' = WithAll(written, lent)
  /\ IF \A g \in spare : HasKey(payload, g.fid) THEN UNCHANGED <<iter, visited>>
                         ELSE iter' = NoIter /\ visited' = << >>
  /\ UNCHANGED <<spare, lent>>

---------------------------------------------------------------------------
(* Walking the message.                                                    *)

Associate ==
  /\ iter' = AtFront /\ visited' = << >>
  /\ UNCHANGED <<payload, spare, written, lent>>

(* next: nothing at the end; the first field, where current_ already       *)
(* points, from the front; the following one otherwise.                    *)
AtEnd  == iter.pos > Len(payload)
NextSkipsFirst == IF AtEnd THEN iter.pos ELSE iter.pos + 1  \* a mutant
NextAt == IF AtEnd \/ iter.front THEN iter.pos ELSE iter.pos + 1
Returned == IF AtEnd THEN << >>
            ELSE IF iter.front THEN <<payload[1].fid>>
            ELSE IF NextAt <= Len(payload) THEN <<payload[NextAt].fid>> ELSE << >>

IterNext ==
  /\ iter # NoIter /\ ~iter.ended
  /\ iter' = [iter EXCEPT !.pos = NextAt,
                          !.front = @ /\ AtEnd,
                          !.ended = Returned = << >>]
  /\ visited' = visited \o Returned
  /\ UNCHANGED <<payload, spare, written, lent>>

(* begin raises the flag and leaves current_ where it is; it may not be    *)
(* called on an empty message, whose first field it reads.  Bound: the     *)
(* program goes back once in a walk, and not after its end.                *)
IterBegin ==
  /\ iter # NoIter /\ payload # << >>
  /\ ~iter.ended /\ ~iter.rewound
  /\ iter' = [iter EXCEPT !.front = TRUE, !.rewound = ~iter.front]
  /\ UNCHANGED <<payload, spare, visited, written, lent>>

(* hasNext asks whether there is a field after current_.                   *)
HasNext == iter.pos + 1 <= Len(payload)

PayloadInit ==
  /\ payload = << >> /\ spare = {} /\ written = << >> /\ lent = << >>
  /\ iter = NoIter /\ visited = << >>

PayloadNext ==
  \/ AddScalar \/ AddObject \/ AddNumberVector \/ AddObjectVector
  \/ UpdateScalar \/ UpdateObject \/ UpdateNumberVector \/ UpdateObjectVector
  \/ UpdateField
  \/ Clear \/ CopyOut \/ CopyIn \/ Apply
  \/ Associate \/ IterNext \/ IterBegin

PayloadSpec == PayloadInit /\ [][PayloadNext]_payloadVars

---------------------------------------------------------------------------
(* Reading: by fid first, else the first field of the name in hash order.  *)

FindField(fs, fid, name) ==
  IF fid # 0 /\ HasKey(fs, fid) THEN At(fs, fid)
  ELSE SelectInSeq(fs, LAMBDA f : name # NoName /\ f.name = <<name>>)

(* Through the message: getBool and getChar convert nothing, getMsg and    *)
(* getOpaque and the numeric vectors are not implemented.                  *)
GetScalar(c, t) == IF t \in {"BOOL", "CHAR"} THEN GetExactly(c, t) ELSE GetAs(c, t)
GetObject(c, t) == IF t \in {"MSG", "OPAQUE"} THEN {Refused} ELSE GetAs(c, t)
GetNumberVector(c, t) == {Refused}
GetObjectVector(c, t) == GetExactly(c, t)

Reading(c, t) == CASE t \in Scalars       -> GetScalar(c, t)
                   [] t \in Objects       -> GetObject(c, t)
                   [] t \in ObjectVectors -> GetObjectVector(c, t)
                   [] OTHER               -> GetNumberVector(c, t)

Read(fid, name, t) ==
  LET i == FindField(payload, fid, name)
  IN IF i = 0 THEN {Refused} ELSE Reading(payload[i], t)

(* A field of the message through the field API (msgFieldPayload): every   *)
(* conversion; getMsg reports success and hands nothing out.               *)
FieldGetVector(c, t) == IF t \in ObjectVectors THEN GetExactly(c, t) ELSE {Refused}
FieldGet(c, t) == CASE t = "MSG" -> IF c.type = "MSG" THEN {Given(<<>>)} ELSE {Refused}
                    [] t \in (Scalars \cup Objects) \ {"MSG"} -> GetAs(c, t)
                    [] OTHER -> FieldGetVector(c, t)

---------------------------------------------------------------------------
(* Properties.                                                             *)

(* A walk with next from associate to the end returns every field of the   *)
(* message exactly once, in one order, whatever fields were assigned in    *)
(* the meantime, and hasNext tells when it is over: UpaPayloadFieldIterator*)
(* keeps MAMA's position in front of the first field in a flag beside a    *)
(* C++ iterator.  Two walks are not covered: one that begin rewinds, which *)
(* sees the first field again and goes on, and hasNext before the first    *)
(* field of a message of one field, which says there is none.              *)
EveryFieldVisited ==
  iter # NoIter /\ ~iter.rewound =>
    /\ IsPrefix(visited, Keys(payload))
    /\ iter.ended => visited = Keys(payload)
    /\ (visited # << >> \/ Len(payload) # 1) /\ ~iter.ended =>
         (HasNext <=> Len(visited) < Len(payload))

(* A message holds the fields that were put into it and no other, and      *)
(* every reader of a field - by fid, by a name no other field has, through *)
(* the message or the field - gets the content last accepted for it, and   *)
(* its number in every numeric type that can hold it, through additions,   *)
(* updates, assignments, copies and merges in any order.                   *)
ReadsAs(c, answers(_)) ==
  /\ c.type \notin {"MSG", "OPAQUE"} => answers(c.type) = {Given(c.v)}
  /\ c.type \in Numeric =>
       \A t \in Numeric : Holds(t, c.v[1]) => answers(t) = {Given(c.v)}
ReadBack ==
  /\ ToSet(Keys(payload)) = DOMAIN written
  /\ \A i \in DOMAIN payload :
       LET f == payload[i]
           ByFid(t)  == Read(f.fid, NoName, t)
           ByName(t) == Read(0, f.name[1], t)
           Direct(t) == FieldGet(f, t)
       IN /\ ReadsAs(written[f.fid], Direct)
          /\ f.fid # 0 => ReadsAs(written[f.fid], ByFid)
          /\ f.name # EmptyName /\ (\A j \in DOMAIN payload \ {i} : payload[j].name # f.name)
               => ReadsAs(written[f.fid], ByName)
=============================================================================
