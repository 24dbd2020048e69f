------------------------------- MODULE Values -------------------------------
(***************************************************************************)
(* The value of a field of the payload library (upafieldpayload.h,         *)
(* upavaluetype.h): a boost variant tagged with a MAMA type, and the       *)
(* getters that convert it.                                                *)
(*                                                                         *)
(* A content is [type, v], v a tuple of integers: <<x>> for a number, x in *)
(* halves (so that fractions exist), for a character, for a boolean (0 or  *)
(* 1) and for a text that prints a number; <<day, time>> for a date and    *)
(* time, -1 standing for a part that is absent; a handle for a message, a  *)
(* blob or a vector.  An integer type of 8, 16, 32 or 64 bits has Spans[8],*)
(* Spans[16], Spans[32] or Spans[64] values: 2^8 and so on, or scaled down.*)
(* A getter is the set of answers it may give: it has more than one where  *)
(* C++ leaves the conversion undefined.                                    *)
(***************************************************************************)
EXTENDS Integers, Sequences, FiniteSets

CONSTANTS Spans,      \* sizes of the integer types, see above
          DayLength,  \* ticks of a day
          LastDay     \* bound on the days a date may name

ASSUME ValuesAssumption ==
  /\ \A bits \in {8, 16, 32, 64} : Spans[bits] \in Nat \ {0} /\ Spans[bits] % 2 = 0
  /\ DayLength \in Nat \ {0} /\ LastDay \in Nat

Ints    == {"I8", "I16", "I32", "I64", "U8", "U16", "U32", "U64"}
Floats  == {"F32", "F64"}
Numeric == Ints \cup Floats \cup {"PRICE"}

None == -1
DateTimes == {<<d, t>> : d \in None .. LastDay, t \in None .. DayLength - 1}

Content(type, v) == [type |-> type, v |-> v]

Kinds == Numeric \cup {"BOOL", "CHAR", "STRING", "TIME", "OPAQUE", "MSG",
                       "VECTOR_I8", "VECTOR_STRING", "VECTOR_MSG"}

(* The values of the integer types, in halves.                             *)
Span(t) == CASE t \in {"I8", "U8", "CHAR"} -> Spans[8]
             [] t \in {"I16", "U16"} -> Spans[16]
             [] t \in {"I32", "U32"} -> Spans[32]
             [] OTHER -> Spans[64]
Unsigned(t) == t \in {"U8", "U16", "U32", "U64"}
Lowest(t)   == IF Unsigned(t) THEN 0 ELSE -(Span(t) \div 2)
Highest(t)  == Lowest(t) + Span(t) - 1
Fits(n, t)  == Lowest(t) <= n /\ n <= Highest(t)

(* What the types of C++ let a program put into a field.                   *)
IsContent(c) ==
  /\ c = Content(c.type, c.v) /\ c.type \in Kinds
  /\ c.type \in Ints \cup {"CHAR"} =>
       \E n \in Lowest(c.type) .. Highest(c.type) : c.v = <<2 * n>>
  /\ c.type \in Floats \cup {"PRICE"} => c.v = <<c.v[1]>> /\ c.v[1] \in Int
  /\ c.type = "BOOL" => c.v \in {<<0>>, <<1>>}

Truncated(x) == IF x >= 0 THEN x \div 2 ELSE -((-x) \div 2)
Wrapped(n, t) == ((n - Lowest(t)) % Span(t)) + Lowest(t)

Refused == [ok |-> FALSE, v |-> << >>]
Given(v) == [ok |-> TRUE, v |-> v]

(* A C cast to an integer type: it wraps from an integer, truncates from a *)
(* floating point number, and is undefined for one that is out of range.   *)
Cast(c, t) ==
  LET n == Truncated(c.v[1]) IN
  IF c.type \in Ints \cup {"CHAR"} \/ Fits(n, t) THEN {Given(<<2 * Wrapped(n, t)>>)}
                                   ELSE {Given(<<2 * m>>) : m \in Lowest(t) .. Highest(t)}

ToInteger(c, t, accepted) == IF c.type \in accepted THEN Cast(c, t) ELSE {Refused}

Get8(c, t)  == ToInteger(c, t, Numeric)
Get16(c, t) == ToInteger(c, t, Numeric)
GetI32(c)   == ToInteger(c, "I32", Numeric \cup {"CHAR"})
GetU32(c)   == ToInteger(c, "U32", Numeric)
GetI64(c)   == ToInteger(c, "I64", Numeric)

(* A time is read as the microseconds since the epoch; the parts that are  *)
(* absent count as zero.                                                   *)
Ticks(v) == (IF v[1] = None THEN 0 ELSE v[1]) * DayLength + (IF v[2] = None THEN 0 ELSE v[2])
GetU64(c) == IF c.type = "TIME" THEN {Given(<<2 * Wrapped(Ticks(c.v), "U64")>>)}
                                ELSE ToInteger(c, "U64", Numeric)

GetFloat(c) == IF c.type \in Numeric THEN {Given(c.v)} ELSE {Refused}
GetPrice(c) == IF c.type \in Numeric THEN {Given(c.v)} ELSE {Refused}
GetChar(c)  == ToInteger(c, "CHAR", Ints \cup {"CHAR"})

(* Any time is true; of the texts, TrueTexts are.                          *)
TrueTexts == {<<2>>}
AsBool(b) == {Given(<<IF b THEN 1 ELSE 0>>)}
GetBool(c) ==
  CASE c.type \in Ints \cup {"CHAR", "BOOL"} -> AsBool(c.v[1] # 0)
    [] c.type = "TIME"   -> AsBool(TRUE)
    [] c.type = "STRING" -> AsBool(c.v \in TrueTexts)
    [] OTHER             -> {Refused}

(* A date and time comes from a count of microseconds, a count of seconds  *)
(* (both counted in ticks here) or a text.  The day of a text is parsed    *)
(* with month - 1 and day - 1 although GetSeconds counts both from 1: the  *)
(* day is lost when either gets 0, and is another one otherwise.           *)
OfTicks(n) == IF n >= 0 THEN {Given(<<n \div DayLength, n % DayLength>>)}
                        ELSE {Given(v) : v \in DateTimes}
ParsedDays(d) == (None .. LastDay) \ (IF d = None THEN {} ELSE {d})
ParsedText(v) == IF Len(v) = 2 THEN {Given(<<d, v[2]>>) : d \in ParsedDays(v[1])}
                               ELSE {Given(w) : w \in DateTimes}
GetDateTime(c) ==
  CASE c.type \in {"U64", "F64"} -> OfTicks(Truncated(c.v[1]))
    [] c.type = "TIME"   -> {Given(c.v)}
    [] c.type = "STRING" -> ParsedText(c.v)
    [] OTHER             -> {Refused}

(* The getters of the other types convert nothing.                         *)
GetExactly(c, type) == IF c.type = type THEN {Given(c.v)} ELSE {Refused}
GetString(c) == GetExactly(c, "STRING")
GetHandle(c, type) == GetExactly(c, type)

(* The getter of each type, through a field.  A field that was never set   *)
(* has no type and every getter refuses it.                                *)
GetAs(c, t) ==
  CASE c.type = "UNKNOWN"     -> {Refused}
    [] t \in {"I8", "U8"}     -> Get8(c, t)
    [] t \in {"I16", "U16"}   -> Get16(c, t)
    [] t = "I32"              -> GetI32(c)
    [] t = "U32"              -> GetU32(c)
    [] t = "I64"              -> GetI64(c)
    [] t = "U64"              -> GetU64(c)
    [] t \in Floats           -> GetFloat(c)
    [] t = "PRICE"            -> GetPrice(c)
    [] t = "CHAR"             -> GetChar(c)
    [] t = "BOOL"             -> GetBool(c)
    [] t = "TIME"             -> GetDateTime(c)
    [] t = "STRING"           -> GetString(c)
    [] OTHER                  -> GetHandle(c, t)

(* Field assignment: a field keeps the type it was created with.           *)
MaySet(c, new) == c.type \in {"UNKNOWN", new.type}

(* What a number is in a type that can hold it, by definition: the         *)
(* reference the conversions are compared with.                            *)
Holds(t, x) == IF t \in Floats \cup {"PRICE"} THEN TRUE
                                             ELSE x % 2 = 0 /\ Fits(x \div 2, t)
=============================================================================
