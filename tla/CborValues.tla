------------------------------ MODULE CborValues ------------------------------
(***************************************************************************)
(* The conversion between CBOR and the values of the component model, by   *)
(* the types of the export, that call_with_cbor uses for arguments and     *)
(* results (hosts/wasmtime/src/cbor_val.rs). All three are tagged tuples,  *)
(* written out in Shapes (types), MoreItems (CBOR) and MoreValues. What    *)
(* the code does by recursion on a type or a value is here a function of   *)
(* how deep it nests: each level is made from the one below.               *)
(***************************************************************************)
EXTENDS Integers, Sequences

CONSTANTS
    Ranges,     \* the integers of each integer type, by the name of the type
    Texts,      \* the strings
    Types,      \* the types of parameters and results, and those they are made of
    Depth,      \* types and items are at most this deep
    Exports,    \* the types of the exports that are called
    Sent,       \* the arguments that callers send
    Yielded     \* the results that guests return

Unit == <<"unit">>       \* the type and the value of no payload
Null == <<"null">>
Fail == <<"fail">>
RangeOf(s) == {s[i] : i \in DOMAIN s}
First(S) == CHOOSE i \in S : \A j \in S : i <= j

\* The fields of a record, and the cases of a variant, are pairs of a name and a type.
Shapes(T) ==
    {<<"bool">>, <<"string">>, <<"own">>} \cup {<<name>> : name \in DOMAIN Ranges}
    \cup ({"list", "option"} \X T) \cup ({"tuple"} \X Seq(T))
    \cup ({"record"} \X Seq(Texts \X T)) \cup ({"variant"} \X Seq(Texts \X (T \cup {Unit})))
    \cup ({"result"} \X (T \cup {Unit}) \X (T \cup {Unit})) \cup ({"enum", "flags"} \X Seq(Texts))
    \cup ({"map"} \X T \X T)

\* The types that a type is made of, and the types that nest at most n deep.
PartTypes(t) ==
    (CASE t[1] \in {"list", "option"} -> {t[2]}
       [] t[1] = "tuple" -> RangeOf(t[2])
       [] t[1] \in {"record", "variant"} -> {t[2][i][2] : i \in DOMAIN t[2]}
       [] t[1] \in {"result", "map"} -> {t[2], t[3]}
       [] OTHER -> {}) \ {Unit}
Nesting[n \in Nat] == IF n = 0 THEN {} ELSE {t \in Types : PartTypes(t) \subseteq Nesting[n - 1]}

NamesDiffer(entries) == \A i, j \in DOMAIN entries : entries[i][1] = entries[j][1] => i = j

MoreItems(I) ==
    {Null} \cup ({"bool"} \X BOOLEAN) \cup ({"int"} \X Int) \cup ({"text"} \X Texts)
    \cup ({"bytes"} \X Seq(Ranges["u8"])) \cup ({"array"} \X Seq(I)) \cup ({"map"} \X Seq(I \X I))
Items[n \in Nat] == IF n = 0 THEN MoreItems({}) ELSE MoreItems(Items[n - 1])

MoreValues(V) ==
    ({"bool"} \X BOOLEAN) \cup {v \in (DOMAIN Ranges) \X Int : v[2] \in Ranges[v[1]]} \cup ({"string", "enum"} \X Texts)
    \cup ({"flags"} \X Seq(Texts)) \cup ({"own"} \X Nat) \cup ({"list", "tuple"} \X Seq(V))
    \cup ({"record"} \X Seq(Texts \X V)) \cup ({"option"} \X (V \cup {Unit}))
    \cup ({"result", "variant"} \X Texts \X (V \cup {Unit})) \cup ({"map"} \X Seq(V \X V))
Values[n \in Nat] == IF n = 0 THEN {} ELSE MoreValues(Values[n - 1])

\* What the component model takes for the values of a type, given those of the types it is
\* made of: vals.  The names of flags are not compared with the type: the call does that.
Payloads(vals, t) == IF t = Unit THEN {Unit} ELSE vals[t]
Fitting(vals, t, V) ==
    CASE t[1] = "bool" -> {"bool"} \X BOOLEAN
      [] t[1] \in DOMAIN Ranges -> {t[1]} \X Ranges[t[1]]
      [] t[1] = "string" -> {"string"} \X Texts
      [] t[1] = "enum" -> {"enum"} \X RangeOf(t[2])
      [] t[1] = "flags" -> {"flags"} \X Seq(Texts)
      [] t[1] = "own" -> {"own"} \X Nat
      [] t[1] = "list" -> {"list"} \X Seq(vals[t[2]])
      [] t[1] = "tuple" ->
           {"tuple"} \X {vs \in Seq(V) : Len(vs) = Len(t[2]) /\ \A i \in DOMAIN vs : vs[i] \in vals[t[2][i]]}
      [] t[1] = "record" ->
           {"record"} \X {fs \in Seq(Texts \X V) :
              Len(fs) = Len(t[2]) /\ \A i \in DOMAIN fs : fs[i][1] = t[2][i][1] /\ fs[i][2] \in vals[t[2][i][2]]}
      [] t[1] = "map" -> {"map"} \X Seq(vals[t[2]] \X vals[t[3]])
      [] t[1] = "option" -> {"option"} \X (vals[t[2]] \cup {Unit})
      [] t[1] = "result" -> ({"result"} \X {"ok"} \X Payloads(vals, t[2]))
                      \cup ({"result"} \X {"err"} \X Payloads(vals, t[3]))
      [] t[1] = "variant" ->
           {v \in {"variant"} \X Texts \X (V \cup {Unit}) :
              \E i \in DOMAIN t[2] : v[2] = t[2][i][1] /\ v[3] \in Payloads(vals, t[2][i][2])}
ValuesOf[n \in Nat] ==
    IF n = 0 THEN [t \in Types |-> {}]
    ELSE [t \in Types |-> Fitting(ValuesOf[n - 1], t, Values[n - 1])]

ASSUME CborAssumption ==
    /\ "u8" \in DOMAIN Ranges
    /\ DOMAIN Ranges \subseteq {"s8", "u8", "s16", "u16", "s32", "u32", "s64", "u64"}
    /\ \A name \in DOMAIN Ranges : Ranges[name] \subseteq Int
    /\ {"ok", "err"} \subseteq Texts
    /\ Types \subseteq Shapes(Types) \cap Nesting[Depth]
    /\ \A t \in Types : t[1] \in {"record", "variant"} => NamesDiffer(t[2])
    /\ Depth \in Nat
    /\ Exports \subseteq [params : Seq(Types), results : Seq(Types)]
    /\ Sent \subseteq Items[Depth]
    /\ Yielded \subseteq Seq(Values[Depth])

-----------------------------------------------------------------------------

\* All of a sequence of conversions, or the failure of one of them.
All(tag, vs) == IF Fail \in RangeOf(vs) THEN Fail ELSE <<tag, vs>>
Pair(name, v) == IF v = Fail THEN Fail ELSE <<name, v>>
Both(k, v) == IF Fail \in {k, v} THEN Fail ELSE <<k, v>>
Around(tag, name, v) == IF v = Fail THEN Fail ELSE <<tag, name, v>>

\* The first entry of a map under a text.
Under(c, name) == {i \in DOMAIN c[2] : c[2][i][1] = <<"text", name>>}
MapHas(c, name) == Under(c, name) # {}
MapGet(c, name) == c[2][First(Under(c, name))][2]

\* The conversion to a type, given those to the types it is made of: dec.
ToInt(c, t) == IF c[1] = "int" /\ c[2] \in Ranges[t[1]] THEN <<t[1], c[2]>> ELSE Fail
ToFlags(c) ==
    IF c[1] = "array" /\ \A i \in DOMAIN c[2] : c[2][i][1] = "text"
    THEN <<"flags", [i \in DOMAIN c[2] |-> c[2][i][2]]>> ELSE Fail
ToSeq(dec, tag, items, types) == All(tag, [i \in DOMAIN items |-> dec[types[i]][items[i]]])
ToList(dec, c, t) ==
    IF t[2] = <<"u8">> /\ c[1] = "bytes" THEN <<"list", [i \in DOMAIN c[2] |-> <<"u8", c[2][i]>>]>>
    ELSE IF c[1] = "array" THEN ToSeq(dec, "list", c[2], [i \in DOMAIN c[2] |-> t[2]]) ELSE Fail
ToTuple(dec, tag, c, types) ==
    IF c[1] = "array" /\ Len(c[2]) = Len(types) THEN ToSeq(dec, tag, c[2], types) ELSE Fail
ToRecord(dec, c, t) ==
    IF c[1] = "map" /\ \A i \in DOMAIN t[2] : MapHas(c, t[2][i][1])
    THEN All("record", [i \in DOMAIN t[2] |->
           Pair(t[2][i][1], dec[t[2][i][2]][MapGet(c, t[2][i][1])])])
    ELSE Fail
ToMap(dec, c, t) ==
    IF c[1] = "map"
    THEN All("map", [i \in DOMAIN c[2] |-> Both(dec[t[2]][c[2][i][1]], dec[t[3]][c[2][i][2]])])
    ELSE Fail
ToOption(dec, c, t) ==
    IF c = Null THEN <<"option", Unit>>
    ELSE IF dec[t[2]][c] = Fail THEN Fail ELSE <<"option", dec[t[2]][c]>>
ToPayload(dec, c, t) == IF t = Unit THEN Unit ELSE dec[t][c]
ToResult(dec, c, t) ==
    IF c[1] = "map" /\ MapHas(c, "ok")
    THEN Around("result", "ok", ToPayload(dec, MapGet(c, "ok"), t[2]))
    ELSE IF c[1] = "map" /\ MapHas(c, "err")
    THEN Around("result", "err", ToPayload(dec, MapGet(c, "err"), t[3]))
    ELSE Fail
\* The first entry decides; others are ignored.
Cases(c, t) == {i \in DOMAIN t[2] : c[2][1][1] = <<"text", t[2][i][1]>>}
ToVariant(dec, c, t) ==
    IF c[1] = "map" /\ c[2] # <<>> /\ Cases(c, t) # {}
    THEN Around("variant", t[2][First(Cases(c, t))][1],
                ToPayload(dec, c[2][1][2], t[2][First(Cases(c, t))][2]))
    ELSE Fail

ToVal(dec, c, t) ==
    CASE t[1] = "bool" -> IF c[1] = "bool" THEN c ELSE Fail
      [] t[1] \in DOMAIN Ranges -> ToInt(c, t)
      [] t[1] = "string" -> IF c[1] = "text" THEN <<"string", c[2]>> ELSE Fail
      [] t[1] = "list" -> ToList(dec, c, t)
      [] t[1] = "tuple" -> ToTuple(dec, "tuple", c, t[2])
      [] t[1] = "record" -> ToRecord(dec, c, t)
      [] t[1] = "option" -> ToOption(dec, c, t)
      [] t[1] = "result" -> ToResult(dec, c, t)
      [] t[1] = "variant" -> ToVariant(dec, c, t)
      [] t[1] = "enum" -> IF c[1] = "text" /\ c[2] \in RangeOf(t[2]) THEN <<"enum", c[2]>> ELSE Fail
      [] t[1] = "flags" -> ToFlags(c)
      [] t[1] = "map" -> ToMap(dec, c, t)
      [] t[1] = "own" -> Fail

CborToVal[n \in Nat] ==
    IF n = 0 THEN [t \in Types |-> [c \in Items[Depth] |-> Fail]]
    ELSE [t \in Types |-> [c \in Items[Depth] |-> ToVal(CborToVal[n - 1], c, t)]]

\* An array with one item for each parameter; none at all may also be null.
DecodeParams(c, types) ==
    IF c = Null /\ types = <<>> THEN <<"args", <<>>>> ELSE ToTuple(CborToVal[Depth], "args", c, types)

-----------------------------------------------------------------------------

\* The conversion of a value, given that of the values it is made of: enc.
FromSeq(enc, vs) == All("array", [i \in DOMAIN vs |-> enc[vs[i]]])
FromPayload(enc, v) == IF v = Unit THEN Null ELSE enc[v]
OneEntry(name, c) == IF c = Fail THEN Fail ELSE <<"map", <<<<<<"text", name>>, c>>>>>>

\* Variant: an empty list is a byte string as well.
AnyBytes(enc, vs) ==
    IF \A i \in DOMAIN vs : vs[i][1] = "u8"
    THEN <<"bytes", [i \in DOMAIN vs |-> vs[i][2]]>> ELSE FromSeq(enc, vs)
FromList(enc, vs) ==
    IF vs # <<>> /\ \A i \in DOMAIN vs : vs[i][1] = "u8"
    THEN <<"bytes", [i \in DOMAIN vs |-> vs[i][2]]>> ELSE FromSeq(enc, vs)
FromRecord(enc, fields) == All("map", [i \in DOMAIN fields |-> Pair(<<"text", fields[i][1]>>, enc[fields[i][2]])])

FromMap(enc, entries) == All("map", [i \in DOMAIN entries |-> Both(enc[entries[i][1]], enc[entries[i][2]])])

FromVal(enc, v) ==
    CASE v[1] = "bool" -> v
      [] v[1] \in DOMAIN Ranges -> <<"int", v[2]>>
      [] v[1] \in {"string", "enum"} -> <<"text", v[2]>>
      [] v[1] = "list" -> FromList(enc, v[2])
      [] v[1] = "tuple" -> FromSeq(enc, v[2])
      [] v[1] = "record" -> FromRecord(enc, v[2])
      [] v[1] = "map" -> FromMap(enc, v[2])
      [] v[1] = "option" -> FromPayload(enc, v[2])
      [] v[1] \in {"result", "variant"} -> OneEntry(v[2], FromPayload(enc, v[3]))
      [] v[1] = "flags" -> <<"array", [i \in DOMAIN v[2] |-> <<"text", v[2][i]>>]>>
      [] v[1] = "own" -> Fail

ValToCbor[n \in Nat] ==
    IF n = 0 THEN <<>> ELSE [v \in Values[n] |-> FromVal(ValToCbor[n - 1], v)]

EncodeResults(vs) == FromSeq(ValToCbor[Depth], vs)

-----------------------------------------------------------------------------

\* A call of an export: its arguments and its results, and what becomes of them.
VARIABLES export, item, args, result, out
cborVars == <<export, item, args, result, out>>

HasTypes(vs, types) ==
    Len(vs) = Len(types) /\ \A i \in DOMAIN types : vs[i] \in ValuesOf[Depth][types[i]]

CborInit ==
    /\ export \in Exports /\ item \in Sent
    /\ args = Unit /\ result = <<>> /\ out = Unit

\* What was sent is not looked at again.
DecodesArgs ==
    /\ args = Unit
    /\ args' = DecodeParams(item, export.params)
    /\ item' = Null
    /\ UNCHANGED <<export, result, out>>
\* The guest returns; its arguments were its own.
EncodesResults ==
    /\ args[1] = "args"
    /\ args' = Null
    /\ \E vs \in Yielded : HasTypes(vs, export.results) /\ result' = vs
    /\ out' = EncodeResults(result')
    /\ UNCHANGED <<export, item>>

CborNext == DecodesArgs \/ EncodesResults
CborSpec == CborInit /\ [][CborNext]_cborVars

-----------------------------------------------------------------------------

\* The types that are in A or made, at any depth, of one that is.
Holding[n \in Nat] ==
    IF n = 0 THEN [A \in SUBSET Types |-> {}]
    ELSE [A \in SUBSET Types |-> A \cup {t \in Types : PartTypes(t) \cap Holding[n - 1][A] # {}}]

\* A none inside an option cannot be told from the none around it.
Ambiguous == {t \in Types : t[1] = "option" /\ t[2][1] = "option"}
Resources == {t \in Types : t[1] = "own"}
Hold(types, A) == RangeOf(types) \cap Holding[Depth][A] # {}

\* Whatever the caller sends, arguments that are accepted are values of the types of the
\* parameters (the names of flags apart, which only the call itself rejects).  And the
\* results that the guest returned are what their caller decodes, if no none is inside an
\* option; only results with handles to resources cannot be encoded.
ValuesKeepTheirTypes ==
    /\ args[1] = "args" => HasTypes(args[2], export.params)
    /\ out = Fail => Hold(export.results, Resources)
    /\ out \notin {Unit, Fail} =>
         \/ Hold(export.results, Ambiguous)
         \/ DecodeParams(out, export.results) = <<"args", result>>
=============================================================================
