------------------------------- MODULE MCData -------------------------------
(* Small instances of the modules about data and of the small components.  *)
(* They share no state: a behaviour is one of a module's, the rest stands. *)
EXTENDS Payload, FieldMap, FieldCodec, OrderBook, PriceBook, Handshake, Snapshots, StreamManager

CONSTANTS s1, s2, s3, n1, n2, n3, n4, n5

VARIABLE part  \* the module that moves

Is(p) == part = p

\* One initial state of each module, for the behaviours of the others.
OneMap       == FieldMapInit /\ ~pass /\ start = 7
OneField     == /\ CodecInit /\ asString /\ field.mama = "OPAQUE"
                /\ published = FromFeed /\ IsBlank(wire)
OneHandshake == /\ HandshakeInit /\ ends = <<"bridge", "bridge">> /\ ~acceptsPosts
                /\ user = <<1>> /\ source = [name |-> <<1>>, id |-> 1]

DataInit ==
  /\ part \in {"payload", "map", "codec", "orders", "prices", "handshake", "snapshots", "ids"}
  /\ PayloadInit /\ BookInit /\ PriceBookInit
  /\ SnapshotsInit /\ Init
  /\ IF Is("map") THEN FieldMapInit ELSE OneMap
  /\ IF Is("codec") THEN CodecInit ELSE OneField
  /\ IF Is("handshake") THEN HandshakeInit ELSE OneHandshake

DataNext ==
  /\ UNCHANGED part
  /\ IF Is("payload") THEN PayloadNext ELSE UNCHANGED payloadVars
  /\ IF Is("map") THEN FieldMapNext ELSE UNCHANGED mapVars
  /\ IF Is("codec") THEN CodecNext ELSE UNCHANGED codecVars
  /\ IF Is("orders") THEN BookNext ELSE UNCHANGED bookVars
  /\ IF Is("prices") THEN PriceBookNext ELSE UNCHANGED priceVars
  /\ IF Is("handshake") THEN HandshakeNext ELSE UNCHANGED hsVars
  /\ IF Is("snapshots") THEN SnapshotsNext ELSE UNCHANGED snapshotVars
  /\ IF Is("ids") THEN Next ELSE UNCHANGED idVars

dataVars == <<part, payloadVars, mapVars, codecVars, bookVars, priceVars, hsVars,
              snapshotVars, idVars>>

DataSpec == DataInit /\ [][DataNext]_dataVars

---------------------------------------------------------------------------
(* Sizes, and contents at their edges: -2 does not fit an unsigned type,   *)
(* odd numbers are halves, <<1>> of a text is none that stands for a day.  *)
MCSpans == (8 :> 4) @@ (16 :> 8) @@ (32 :> 16) @@ (64 :> 32)
MCNameOf == (1 :> "a") @@ (2 :> NoName)
MCContents == {Content("I16", <<-2>>), Content("PRICE", <<1>>),
               Content("VECTOR_I8", <<7>>), Content("VECTOR_STRING", <<4>>)}

MCRmds == (-2 :> "odd") @@ (1 :> "bid") @@ (2 :> "ask")
MCMama == ("wBid" :> 4) @@ ("wAsk" :> 6)
Row(from, name, fid) == [source |-> from, name |-> name, fid |-> fid]
MCRows == {Row(1, "wBid", 0), Row(1, "wBid", 5), Row(2, "mine", 0),
           Row(2, "wAsk", 6), Row(2, "wAsk", 9)}

OfType(rwf, mf, mamas) == {[rwf |-> rwf, mf |-> mf, mama |-> m] : m \in mamas}
MCFields ==
  OfType("INT", "OTHER", {"I64", "U8", "I16", "F64", "PRICE", "STRING", "BOOL", "TIME", "CHAR"})
  \cup OfType("UINT", "OTHER", {"U64", "I8", "U32", "F32", "ENUM_AS_STRING", "TIME"})
  \cup OfType("FLOAT", "OTHER", {"F32", "I32", "U8", "STRING"})
  \cup OfType("DOUBLE", "OTHER", {"F64", "U16", "PRICE"})
  \cup OfType("REAL", "PRICE", {"PRICE", "F32", "REAL_AS_F32", "I64", "STRING"})
  \cup OfType("REAL", "INTEGER", {"I64", "U32", "PRICE"})
  \cup OfType("REAL", "OTHER", {"STRING", "F64"})
  \cup OfType("DATE", "OTHER", {"DATE_AS_TIME", "TIME", "STRING", "I64"})
  \cup OfType("TIME", "OTHER", {"TIME_AS_TIME", "TIME", "DATE_AS_TIME", "STRING"})
  \cup OfType("DATETIME", "OTHER", {"TIME", "STRING"})
  \cup OfType("ENUM", "OTHER", {"ENUM_AS_STRING", "STRING", "I16"})
  \cup OfType("BUFFER", "OTHER", {"OPAQUE"}) \cup OfType("ASCII", "OTHER", {"STRING", "I32"})
  \cup OfType("QOS", "OTHER", {"UNKNOWN"}) \cup OfType("ARRAY", "OTHER", {"UNKNOWN"})
AnyTime == {Content("TIME", <<d, t>>) : d, t \in {None, 1}}
MCPublished ==
  AnyTime \cup
  {Content("I16", <<-2>>), Content("I32", <<4>>), Content("U8", <<2>>),
   Content("U64", <<62>>), Content("I64", <<-32>>), Content("F32", <<3>>),
   Content("F64", <<4>>), Content("PRICE", <<1>>), Content("PRICE", <<2>>),
   Content("CHAR", <<2>>), Content("BOOL", <<1>>), Content("STRING", <<2>>),
   Content("STRING", <<0, 0, 0>>), Content("STRING", <<1, 1>>), Content("MSG", <<0>>)}

MCDecimals == -3 .. 4

MCTexts == {<<1>>, <<2>>, <<1, 2, 3>>}
MCServiceNames == {<<1>>, <<2>>}
MCNoServiceName == << >>

MCSnapshots == {n1, n2, n3, n4, n5}
MCUnknownSource == {n4}
MCBooks == {n3}
MCAlike == Permutations({n1, n2, n5})

MCSubs == {s1, s2, s3}
=============================================================================
