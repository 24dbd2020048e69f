----------------------------- MODULE FieldCodec -----------------------------
(***************************************************************************)
(* A message between MAMA and the wire: the fields a client publishes are  *)
(* encoded by their type in the RMDS dictionary (UPAFieldEncoder.cpp), and *)
(* the fields of the feed are decoded into the MAMA type that the field    *)
(* map gives them (UPAFieldDecoder.cpp).                                   *)
(*                                                                         *)
(* One field is followed, content by content, through the encoder and back *)
(* through the decoder, next to a second field of the same message; or a   *)
(* value of the feed through the decoder.  Contents are those of Values.   *)
(***************************************************************************)
EXTENDS Values

CONSTANTS Fields,    \* descriptions of the followed field: [rwf, mf, mama], the
                     \* types of the RMDS dictionary and that of the field map
          Published, \* the contents a client publishes
          Decimals,  \* the numbers the feed sends in reals, floats and doubles
          EnumTable  \* the enumerated values of the field in the dictionary

ASSUME CodecAssumption ==
  /\ \A c \in Published : IsContent(c)
  /\ Decimals \subseteq Int
  /\ EnumTable \subseteq 0 .. Highest("U16")

VARIABLES field, published, precision, valid, beside,
          asString,  \* the option returnDateTimeAsString
          wire,      \* the field on the wire, or why it is not
          decoded,   \* the decoder has seen it
          received   \* the contents it has added to MAMA's message

codecVars == <<field, published, precision, valid, beside, asString, wire, decoded, received>>

(* On the wire: a blank, or a value; hint is that of a real, "whole" or    *)
(* "fine" (as decimals or a fraction that hold a half).  Not on the wire:  *)
(* not encoded yet, refused by the encoder, left out of the message, or    *)
(* dropped with the message.                                               *)
Sent(v, hint) == [is |-> "value", v |-> v, hint |-> hint]
NoValue(why)  == [is |-> why, v |-> << >>, hint |-> "whole"]
Blank      == NoValue("blank")
NotEncoded == NoValue("not encoded")
Refusal    == NoValue("refused")
Absent     == NoValue("left out")
Dropped    == NoValue("dropped")
IsBlank(w) == w.is = "blank"

(* A mamaPrice is valid or not, and has a precision.                       *)
Precisions == {"unknown", "whole", "fine", "other"}
HintOf(p)  == IF p \in {"unknown", "fine"} THEN "fine" ELSE "whole"

(* Displays of enumerated values are texts of their own.                   *)
Display(n) == <<n, 0, 0>>
NumberText(n) == <<2 * n>>
EmptyText == << >>

(* The RMDS type decides the MAMA type where the file has none.            *)
UpaToMamaFieldType(rwf, mf) ==
  CASE rwf = "BUFFER"   -> "OPAQUE"
    [] rwf = "UINT"     -> "U64"
    [] rwf = "INT"      -> "I64"
    [] rwf = "FLOAT"    -> "F32"
    [] rwf = "DOUBLE"   -> "F64"
    [] rwf = "REAL"     -> (CASE mf = "PRICE"   -> "PRICE"
                             [] mf = "INTEGER" -> "I64"
                             [] OTHER          -> "STRING")
    [] rwf = "ENUM"     -> "ENUM_AS_STRING"
    [] rwf = "DATE"     -> "DATE_AS_TIME"
    [] rwf = "TIME"     -> "TIME_AS_TIME"
    [] rwf = "DATETIME" -> "TIME"
    [] rwf = "ASCII"    -> "STRING"
    [] OTHER            -> "UNKNOWN"

TextTypes == {"STRING", "ENUM_AS_STRING"}
ToMamaFieldType(m) == CASE m = "ENUM_AS_STRING" -> "STRING"
                        [] m = "REAL_AS_F32"    -> "F32"
                        [] m \in {"DATE_AS_TIME", "TIME_AS_TIME"} -> "TIME"
                        [] OTHER                -> m

---------------------------------------------------------------------------
(* The encoder.  Each operator is the set of outcomes for the field:       *)
(* a Refusal makes the encoder fail the message, Absent leaves it out.     *)

Each(answers, Op(_)) == {IF a.ok THEN Op(a.v) ELSE Refusal : a \in answers}
AsInteger(v) == Sent(v, "whole")
AsFine(v) == Sent(v, "fine")

(* A price is rounded to what its hint can hold.                           *)
Rounded(v, hint) == IF hint = "whole" /\ v[1] % 2 = 1 THEN {<<v[1] - 1>>, <<v[1] + 1>>} ELSE {v}
EncodePrice(c) ==
  IF ~valid THEN {Blank}
  ELSE {Sent(v, HintOf(precision)) : v \in Rounded(c.v, HintOf(precision))}

EncodeReal(c) ==
  CASE c.type = "PRICE"   -> EncodePrice(c)
    [] c.type \in Ints    -> Each(GetI64(c), AsInteger)
    [] c.type \in Floats  -> Each(GetFloat(c), AsFine)
    [] OTHER              -> {Refusal}

\* A mutant: the year is that of another member of the broken-down time.
EncodeDateWrongYear(v) ==
  IF v[1] = None THEN Blank ELSE Sent(<<(v[1] + 1) % (LastDay + 1), None>>, "whole")
EncodeDate(v) == IF v[1] = None THEN Blank ELSE Sent(<<v[1], None>>, "whole")
EncodeTime(v) == IF v[2] = None THEN Blank ELSE Sent(<<None, v[2]>>, "whole")

(* The year of a date and time is computed from tm_yday; a value without a *)
(* date is not told apart, one without a time has a blank one.             *)
EncodeDateTime(v) == {Sent(<<d, v[2]>>, "whole") : d \in 0 .. LastDay}

(* A text is looked up among the displays; another one is read as a number *)
(* (atoi), whatever follows the digits.  A number must be in the table.    *)
FoundIn(v) == {n \in EnumTable : v = Display(n)}
Atoi(v) == IF Len(v) = 1 THEN {Wrapped(Truncated(v[1]), "U16")} ELSE 0 .. Highest("U16")
EncodeEnum(c) ==
  CASE c.type = "STRING" ->
         {Sent(<<2 * n>>, "whole") : n \in IF FoundIn(c.v) # {} THEN FoundIn(c.v) ELSE Atoi(c.v)}
    [] c.type \in Ints ->
         Each(Get16(c, "U16"),
              LAMBDA v : IF Truncated(v[1]) \in EnumTable THEN AsInteger(v) ELSE Absent)
    [] OTHER -> {Refusal}

EncodeField(f, c) ==
  CASE f.rwf = "INT"      -> Each(GetI64(c), AsInteger)
    [] f.rwf = "UINT"     -> Each(GetU64(c), AsInteger)
    [] f.rwf \in {"FLOAT", "DOUBLE"} -> Each(GetFloat(c), AsFine)
    [] f.rwf = "REAL"     -> EncodeReal(c)
    [] f.rwf = "DATE"     -> Each(GetDateTime(c), EncodeDate)
    [] f.rwf = "TIME"     -> Each(GetDateTime(c), EncodeTime)
    [] f.rwf = "DATETIME" -> UNION {IF a.ok THEN EncodeDateTime(a.v) ELSE {Refusal} :
                                      a \in GetDateTime(c)}
    [] f.rwf \in {"QOS", "ENUM"}     -> EncodeEnum(c)
    [] f.rwf \in {"BUFFER", "ASCII"} -> Each(GetString(c), AsInteger)
    [] OTHER              -> {Absent}

(* The whole message: it is sent only if no field of it was refused; a     *)
(* field that the map or the dictionary does not have is left out.         *)
Encode ==
  /\ wire = NotEncoded
  /\ \E w \in EncodeField(field, published) :
       wire' = IF w = Refusal \/ beside = "refused" THEN Dropped ELSE w
  /\ UNCHANGED <<field, published, precision, valid, beside, asString, decoded, received>>

---------------------------------------------------------------------------
(* The decoder.  Each operator is the set of contents it may add; {} when  *)
(* it adds nothing.                                                        *)

(* Numbers, n in units, x in halves.  The operators for unsigned numbers   *)
(* and for doubles do what those for signed numbers and floats do.         *)
DateTimeFromMidnightMs(n) == IF n >= 0 THEN {<<None, n % DayLength>>}
                                       ELSE {<<None, t>> : t \in 0 .. DayLength - 1}
AddRsslIntToMsg(m, n) ==
  LET type == ToMamaFieldType(m)
      add(v) == {Content(type, v)}
  IN CASE m \in TextTypes -> add(NumberText(n))
       [] m = "BOOL"      -> add(<<IF n # 0 THEN 1 ELSE 0>>)
       [] m \in Ints \cup {"CHAR"} -> add(<<2 * Wrapped(n, m)>>)
       [] m = "TIME"      -> {Content("TIME", v) : v \in DateTimeFromMidnightMs(n)}
       [] type \in Floats \cup {"PRICE"} -> add(<<2 * n>>)
       [] OTHER           -> {}
AddRsslUintToMsg(m, n) == AddRsslIntToMsg(m, n)

AddRsslFloatToMsg(m, x) ==
  LET type == ToMamaFieldType(m) IN
  CASE type \in Floats \cup {"PRICE", "STRING"} -> {Content(type, <<x>>)}
    [] m \in Ints \ {"I8", "U8"} -> {Content(m, a.v) : a \in Cast(Content("F64", <<x>>), m)}
    [] OTHER -> {}
AddRsslDoubleToMsg(m, x) == AddRsslFloatToMsg(m, x)

AddString(m, text) == IF m \in TextTypes THEN {Content("STRING", text)} ELSE {}

(* Dates and times: as text if the option says so, whatever the type.  A   *)
(* blank one is an empty value, or an empty text.                          *)
DateText(v) == <<v[1], None>>
AddDate(m, w) ==
  LET v == IF IsBlank(w) THEN <<None, None>> ELSE w.v IN
  IF asString THEN {Content("STRING", DateText(v))}
  ELSE CASE m \in {"TIME", "DATE_AS_TIME", "TIME_AS_TIME"} -> {Content("TIME", v)}
         [] m \in TextTypes -> {Content("STRING", IF IsBlank(w) THEN EmptyText ELSE DateText(v))}
         [] OTHER -> {}

AddTime(m, w) ==
  IF asString THEN {Content("STRING", IF IsBlank(w) THEN <<None, 0>> ELSE w.v)}
  ELSE CASE m \in {"TIME", "TIME_AS_TIME"} ->
              {Content("TIME", IF IsBlank(w) THEN <<None, None>> ELSE w.v)}
         [] m \in TextTypes -> {Content("STRING", IF IsBlank(w) THEN EmptyText ELSE w.v)}
         [] OTHER -> {}

(* The text of a date and time is that of its date; a blank time inside    *)
(* one is read as if it were hours, minutes and seconds.                   *)
Misread == {Content("TIME", <<d, t>>) : d \in 0 .. LastDay, t \in 0 .. DayLength - 1}
AddDateTime(m, w) ==
  IF asString THEN {Content("STRING", IF IsBlank(w) THEN <<0, None>> ELSE DateText(w.v))}
  ELSE CASE m \in {"TIME", "DATE_AS_TIME"} ->
              IF IsBlank(w) THEN {Content("TIME", <<None, None>>)}
              ELSE IF w.v[2] # None THEN {Content("TIME", w.v)}
              ELSE Misread
         [] m \in TextTypes -> {Content("STRING", IF IsBlank(w) THEN EmptyText ELSE DateText(w.v))}
         [] OTHER -> {}

(* A blank number is 0, a blank text is empty, a blank enumeration "0".    *)
Number(w) == IF IsBlank(w) THEN 0 ELSE w.v[1]
EnumText(n) == IF n \in EnumTable THEN Display(n) ELSE NumberText(n)

DecodeReal(f, w) ==
  CASE f.mf = "INTEGER" -> AddRsslIntToMsg(f.mama, Truncated(Number(w)))
    [] f.mf = "PRICE"   -> AddRsslDoubleToMsg(f.mama, Number(w))
    [] OTHER            -> AddString(f.mama, IF IsBlank(w) THEN EmptyText ELSE w.v)

DecodeFieldEntry(f, w) ==
  CASE f.rwf = "INT"      -> AddRsslIntToMsg(f.mama, Truncated(Number(w)))
    [] f.rwf = "UINT"     -> AddRsslUintToMsg(f.mama, Truncated(Number(w)))
    [] f.rwf = "FLOAT"    -> AddRsslFloatToMsg(f.mama, Number(w))
    [] f.rwf = "DOUBLE"   -> AddRsslDoubleToMsg(f.mama, Number(w))
    [] f.rwf = "REAL"     -> DecodeReal(f, w)
    [] f.rwf = "ENUM"     -> AddString(f.mama, IF IsBlank(w) THEN NumberText(0)
                                                    ELSE EnumText(Truncated(w.v[1])))
    [] f.rwf = "DATE"     -> AddDate(f.mama, w)
    [] f.rwf = "TIME"     -> AddTime(f.mama, w)
    [] f.rwf = "DATETIME" -> AddDateTime(f.mama, w)
    [] f.rwf \in {"BUFFER", "ASCII"} -> {Content("STRING", IF IsBlank(w) THEN EmptyText ELSE w.v)}
    [] OTHER              -> {}   \* QOS and STATE are decoded and not added

Decode ==
  /\ wire.is \in {"value", "blank"} /\ ~decoded
  /\ decoded' = TRUE
  /\ LET added == DecodeFieldEntry(field, wire) IN
       IF added = {} THEN received' = {} ELSE \E c \in added : received' = {c}
  /\ UNCHANGED <<field, published, precision, valid, beside, asString, wire>>

---------------------------------------------------------------------------
(* A message is published, or comes from the feed.                         *)

FromFeed == Content("UNKNOWN", << >>)

(* The integers of an RSSL type.                                           *)
Units(rwf) == CASE rwf = "INT"  -> Lowest("I64") .. Highest("I64")
                [] rwf = "UINT" -> 0 .. Highest("U64")
                [] rwf = "ENUM" -> 0 .. Highest("U16")

FeedValues(f) ==
  {Blank} \cup
  CASE f.rwf \in {"INT", "UINT", "ENUM"} -> {Sent(<<2 * n>>, "whole") : n \in Units(f.rwf)}
    [] f.rwf \in {"FLOAT", "DOUBLE"} -> {Sent(<<x>>, "fine") : x \in Decimals}
    [] f.rwf = "REAL"     -> {Sent(<<x>>, "fine") :
                                x \in {y \in Decimals : f.mf = "INTEGER" => Holds("I64", y)}}
    [] f.rwf = "DATE"     -> {Sent(<<d, None>>, "whole") : d \in 0 .. LastDay}
    [] f.rwf = "TIME"     -> {Sent(<<None, t>>, "whole") : t \in 0 .. DayLength - 1}
    [] f.rwf = "DATETIME" -> {Sent(v, "whole") : v \in (0 .. LastDay) \X (None .. DayLength - 1)}
    [] OTHER              -> {Sent(<<2>>, "whole")}

CodecInit ==
  /\ field \in Fields /\ asString \in BOOLEAN
  /\ decoded = FALSE /\ received = {}
  /\ \/ /\ published = FromFeed /\ wire \in FeedValues(field)
        /\ precision = "unknown" /\ valid = FALSE /\ beside = "taken"
     \/ /\ published \in Published /\ wire = NotEncoded
        /\ beside \in {"taken", "unmapped", "refused"}
        /\ IF published.type = "PRICE" THEN precision \in Precisions /\ valid \in BOOLEAN
                                       ELSE precision = "unknown" /\ valid = FALSE

CodecNext == Encode \/ Decode

CodecSpec == CodecInit /\ [][CodecNext]_codecVars

---------------------------------------------------------------------------
(* Properties.                                                             *)

(* The reference: which numbers, texts and times both types of the field   *)
(* can hold, and what MAMA's message then has to have.                     *)
NumberFields == {"INT", "UINT", "FLOAT", "DOUBLE", "REAL"}
AsUnits(f)   == f.rwf \in {"INT", "UINT"} \/ (f.rwf = "REAL" /\ f.mf = "INTEGER")

WireHolds(f, c) ==
  CASE f.rwf = "INT"  -> Holds("I64", c.v[1])
    [] f.rwf = "UINT" -> Holds("U64", c.v[1])
    [] f.rwf = "REAL" -> (CASE c.type = "PRICE" ->
                               valid /\ (c.v[1] % 2 = 0 \/ HintOf(precision) = "fine")
                           [] c.type \in Ints  -> Holds("I64", c.v[1])
                           [] OTHER            -> TRUE)
    [] OTHER -> TRUE

MamaHolds(f, x) ==
  LET numbers == Numeric \ (IF AsUnits(f) THEN {} ELSE {"I8", "U8"}) IN
  /\ AsUnits(f) => x % 2 = 0
  /\ \/ f.mama \in TextTypes
     \/ /\ f.rwf = "REAL" => f.mf \in {"PRICE", "INTEGER"}
        /\ ToMamaFieldType(f.mama) \in numbers /\ Holds(ToMamaFieldType(f.mama), x)

Carried(f, c) ==
  CASE f.rwf \in NumberFields -> c.type \in Numeric /\ WireHolds(f, c) /\ MamaHolds(f, c.v[1])
    [] f.rwf = "ENUM"  -> /\ f.mama \in TextTypes
                          /\ \/ c.type = "STRING" /\ FoundIn(c.v) # {}
                             \/ c.type \in Ints /\ Truncated(c.v[1]) \in EnumTable
    [] f.rwf = "ASCII" -> c.type = "STRING"
    [] f.rwf = "DATE"  -> c.type = "TIME" /\ ~asString /\ ToMamaFieldType(f.mama) = "TIME"
    [] f.rwf = "TIME"  -> c.type = "TIME" /\ ~asString /\ f.mama \in {"TIME", "TIME_AS_TIME"}
    [] OTHER -> FALSE

Expected(f, c) ==
  CASE f.rwf \in NumberFields -> Content(ToMamaFieldType(f.mama), c.v)
    [] f.rwf = "ENUM" /\ c.type # "STRING" -> Content("STRING", Display(Truncated(c.v[1])))
    [] f.rwf = "DATE" -> Content("TIME", <<c.v[1], None>>)
    [] f.rwf = "TIME" -> Content("TIME", <<None, c.v[2]>>)
    [] OTHER          -> c

(* What the feed sends, in the type the RMDS dictionary gives the field;   *)
(* a blank arrives as zero, no text, or no time.                           *)
BlankOf(type) == CASE type \in Numeric -> <<0>>
                   [] type = "TIME"   -> <<None, None>>
                   [] OTHER           -> EmptyText
EnumShown(w) == IF IsBlank(w) THEN NumberText(0) ELSE EnumText(Truncated(w.v[1]))
FeedExpected(f, w) ==
  LET type == ToMamaFieldType(f.mama)
  IN Content(type, IF f.rwf = "ENUM" THEN EnumShown(w)
                   ELSE IF IsBlank(w) THEN BlankOf(type) ELSE w.v)

(* A value that both types of its field can hold is sent and arrives       *)
(* unchanged, whatever MAMA type it was published as and whatever type the *)
(* field map names; it is held back only for another field of the message. *)
(* What the feed sends arrives in the natural type of the field.  Not      *)
(* covered, and not true: dates with a time, enumerated texts that are not *)
(* in the table, prices finer than their precision, numbers and texts      *)
(* published to date fields.                                               *)
ValueArrives ==
  /\ published # FromFeed /\ Carried(field, published) /\ wire # NotEncoded =>
       /\ wire = Dropped <=> beside = "refused"
       /\ decoded => received = {Expected(field, published)}
       /\ wire # Absent
  /\ published = FromFeed /\ field.mama = UpaToMamaFieldType(field.rwf, field.mf)
     /\ field.mama \notin {"OPAQUE", "UNKNOWN"} /\ ~asString /\ decoded
     /\ (field.rwf = "DATETIME" /\ ~IsBlank(wire) => wire.v[2] # None)
       => received = {FeedExpected(field, wire)}

(* "build an rssl date from the mama datetime" (UPAFieldEncoder.cpp:553):  *)
(* a date with a time arrives with its day, as one alone does.             *)
DateTimeArrives ==
  (/\ field = [rwf |-> "DATETIME", mf |-> "OTHER", mama |-> "TIME"]
   /\ published.type = "TIME" /\ None \notin {published.v[1], published.v[2]}
   /\ ~asString /\ decoded)
    => received = {published}
=============================================================================
