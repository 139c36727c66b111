--------------------------- MODULE MCPlansAndGuests ---------------------------
EXTENDS PlanValidation, RdfPlans, EmitWiring, Sandbox, CborValues

\* A behaviour is about one of the computations that share no state: the validation of
\* a plan, a plan that becomes RDF and is read back, the composition of a plan, guests
\* under their limits, or one call of an export with one parameter, or none, and one
\* result of the same type.
VARIABLE part   \* "graph", "rdf", "wiring", "sandbox" or "cbor"
mcVars == <<part, vars, rdfVars, wiringVars, sandboxVars, cborVars>>

\* Every graph over the ids; those without a consumer have one binding; plans with a
\* flaw have all their components, and a binding if that is where the flaw is.
MCPlans ==
    LET PlansWith(bs, fs) == [components : SUBSET Ids, root : Ids, bindings : bs, flaws : fs]
        Graphs == PlansWith(SUBSET (Ids \X Ids), {{}})
        Loose == PlansWith({{<<None, d>>} : d \in Ids}, {{}})
        Flawed == {p \in PlansWith(SUBSET (Ids \X Ids), {{f} : f \in Flaws}) :
                     p.components = Ids /\ ("names" \in p.flaws => p.bindings # {})}
    IN Graphs \cup Loose \cup Flawed

\* Up to two components, of any two ids, one of them perhaps with a short digest, and
\* references to them or to a third; the other lists empty or with two entries.
MCGivenPlans ==
    LET Component(i, n) == [id |-> i, digest |-> <<n, i>>, source |-> IF i = 1 THEN Nil ELSE "file"]
        Components == {<<>>} \cup {<<Component(i, 32)>> : i \in 1..2}
                      \cup {<<Component(i, 32), Component(j, n)>> : i \in 1..2, j \in 1..2, n \in {31, 32}}
        Binding(p, c) == [import |-> "i", provider |-> p, export |-> "e", consumer |-> c]
        Bindings == {<<>>} \cup {<<Binding(p, c), Binding(q, 1)>> : p \in 1..3, q \in 1..2, c \in {1, Nil}}
        Plan(cs, r, bs, full) ==
            [version |-> 1, root |-> r, components |-> cs, bindings |-> bs,
             secrets |-> IF full THEN <<[id |-> "s", backend |-> "x"], [id |-> "t", backend |-> "y"]>> ELSE <<>>,
             policy |-> IF full THEN [determinism |-> "audit", cpu |-> 5, memory |-> Nil, io |-> 0, tenant |-> "t",
                                      capabilities |-> <<[name |-> 2, level |-> "optional"],
                                                         [name |-> 1, level |-> "required"]>>]
                        ELSE DefaultPolicy,
             linkage |-> IF full THEN "runtime" ELSE "static",
             exports |-> IF full THEN <<[source |-> 1, interface |-> "f"], [source |-> 2, interface |-> "g"]>> ELSE <<>>]
    IN {Plan(cs, r, bs, full) : cs \in Components, r \in 1..2, bs \in Bindings, full \in BOOLEAN}

\* A root with up to two imports, two providers with up to two exports, up to two
\* bindings and up to two explicit exports. i1 and i2 are versions of one interface.
I1 == <<"i", 1>>
I2 == <<"i", 2>>
J1 == <<"j", 1>>
F1 == <<"f", 1>>
MCJobs ==
    LET Of(n, t) == [name |-> n, type |-> t]
        Binding(c, n, p) == [consumer |-> c, import |-> n, provider |-> p]
        Export(s, n) == [source |-> s, interface |-> n]
        Offers == {{Of(I1, "t")}, {Of(I2, "t")}, {Of(I1, "u")}, {Of(I1, "t"), Of(J1, "u")}, {Of(J1, "u"), Of(F1, "v")}}
        BindingLists == {<<>>, <<Binding("r", I1, "p")>>, <<Binding("r", J1, "p")>>,
                         <<Binding("r", I1, "p"), Binding("r", J1, "p")>>,
                         <<Binding("r", I1, "p"), Binding("r", J1, "q")>>,
                         <<Binding("r", I1, "p"), Binding("q", I1, "q")>>,
                         <<Binding("p", J1, "q"), Binding("r", I1, "p")>>,
                         <<Binding("r", I1, "q"), Binding("p", J1, "r")>>}
        ExportLists == {<<>>, <<Export("r", F1)>>, <<Export("q", I1)>>, <<Export("q", J1)>>,
                        <<Export("q", I2), Export("p", I1)>>, <<Export("p", F1)>>, <<Export("p", J1), Export("q", J1)>>}
    IN {[loads |-> loads, root |-> "r", bindings |-> bs, exports |-> es,
         parts |-> [c \in {"p", "q", "r"} |->
                      CASE c = "p" -> [imports |-> <<>>, exports |-> p]
                        [] c = "q" -> [imports |-> <<>>, exports |-> q]
                        [] c = "r" -> [imports |-> is, exports |-> {Of(F1, "v")}]]] :
        loads \in BOOLEAN, bs \in BindingLists, es \in ExportLists, p \in Offers, q \in Offers,
        is \in {<<Of(I1, "t")>>, <<Of(I2, "t"), Of(J1, "u")>>, <<Of(J1, "u"), Of(I1, "t")>>}}

ValidatorRests ==
    /\ plan = [components |-> {}, root |-> CHOOSE c \in Ids : TRUE, bindings |-> {}, flaws |-> {}]
    /\ mode = "validate" /\ phase = "end" /\ visited = {} /\ recStack = {} /\ stack = <<>>
    /\ todo = [n \in Ids |-> {}] /\ rank = [n \in Ids |-> 0] /\ verdict = None
RdfRests == given = Nil /\ graph = Nil /\ kept = TRUE /\ back = Nil
EmitterRests ==
    /\ job = Undone /\ at = "end" /\ todo1 = <<>> /\ wires = Nothing /\ made = {}
    /\ outer = Nothing /\ outcome = Undone

MCRanges == [u8 |-> 0 .. 3, s8 |-> -2 .. 1]   \* narrow
MCTexts == {"a", "b", "ok", "err"}
Bool == <<"bool">>
U8 == <<"u8">>
Str == <<"string">>
Own == <<"own">>
MCNames == <<"a", "ok">>
OptU8 == <<"option", U8>>
MCTypes == {
    Bool, U8, <<"s8">>, Str, Own, <<"enum", MCNames>>, <<"flags", MCNames>>, <<"list", U8>>,
    <<"list", Str>>, <<"list", <<"list", U8>>>>, <<"list", Own>>, <<"tuple", <<U8, Str>>>>,
    <<"record", <<<<"a", U8>>, <<"ok", <<"option", Str>>>>>>>>, <<"option", Str>>, OptU8,
    <<"option", OptU8>>, <<"option", <<"list", U8>>>>, <<"result", Unit, Str>>,
    <<"result", OptU8, Unit>>, <<"map", Str, U8>>, <<"variant", <<<<"a", Unit>>, <<"ok", <<"list", Str>>>>>>>>}
Signatures == {<<>>} \cup {<<t>> : t \in MCTypes}
MCExports == {[params |-> ts, results |-> ts] : ts \in Signatures}

UpTo2(S) == {<<>>} \cup {<<a>> : a \in S} \cup {<<a, b>> : a, b \in S}
Atoms == {<<"bool", TRUE>>, <<"int", -1>>, <<"int", 3>>, <<"int", 4>>, <<"text", "a">>,
          <<"text", "b">>, <<"bytes", <<0, 3>>>>, Null, <<"array", <<>>>>, <<"array", <<<<"text", "a">>>>>>}
Keys == {<<"text", "a">>, <<"text", "ok">>, <<"text", "err">>}
Arguments == Atoms \cup {<<"array", s>> : s \in UpTo2(Atoms)} \cup {<<"map", s>> : s \in UpTo2(Keys \X Atoms)}
MCSent == {<<"array", <<c>>>> : c \in Arguments} \cup Atoms

\* Values of a type, whose lists have at most two elements.
RECURSIVE Some(_)
SomePayloads(t) == IF t = Unit THEN {Unit} ELSE Some(t)
Some(t) ==
    CASE t[1] = "bool" -> {<<"bool", b>> : b \in BOOLEAN}
      [] t[1] \in DOMAIN MCRanges -> {<<t[1], n>> : n \in MCRanges[t[1]]}
      [] t[1] \in {"string", "enum"} -> {<<t[1], s>> : s \in RangeOf(MCNames)}
      [] t[1] = "flags" -> {<<"flags", s>> : s \in UpTo2(RangeOf(MCNames))}
      [] t[1] = "list" -> {<<"list", s>> : s \in UpTo2(Some(t[2]))}
      [] t[1] = "tuple" -> {<<"tuple", <<a, b>>>> : a \in Some(t[2][1]), b \in Some(t[2][2])}
      [] t[1] = "record" ->
           {<<"record", <<<<t[2][1][1], a>>, <<t[2][2][1], b>>>>>> : a \in Some(t[2][1][2]), b \in Some(t[2][2][2])}
      [] t[1] = "map" -> {<<"map", s>> : s \in UpTo2(Some(t[2]) \X Some(t[3]))}
      [] t[1] = "option" -> {<<"option", v>> : v \in {Unit} \cup Some(t[2])}
      [] t[1] = "result" -> {<<"result", "ok", v>> : v \in SomePayloads(t[2])}
                       \cup {<<"result", "err", v>> : v \in SomePayloads(t[3])}
      [] t[1] = "variant" -> UNION {{<<"variant", t[2][i][1], v>> : v \in SomePayloads(t[2][i][2])} :
                                     i \in DOMAIN t[2]}
      [] OTHER -> {<<"own", 1>>}
MCYielded == {<<>>} \cup UNION {{<<v>> : v \in Some(t)} : t \in MCTypes}

CborRests ==
    /\ export = [params |-> <<>>, results |-> <<>>] /\ item = Null
    /\ args = Unit /\ result = <<>> /\ out = Unit

SandboxRests ==
    /\ now = MaxTime /\ epoch = 0 /\ slept = 0 /\ ticker = "none"
    /\ inst = [h \in Handles |-> Unset] /\ answer = [h \in Handles |-> "none"]

MCInit ==
    /\ part \in {"graph", "rdf", "wiring", "sandbox", "cbor"}
    /\ IF part = "graph" THEN Init ELSE ValidatorRests
    /\ IF part = "rdf" THEN RdfInit ELSE RdfRests
    /\ IF part = "wiring" THEN EmitInit ELSE EmitterRests
    /\ IF part = "sandbox" THEN SandboxInit ELSE SandboxRests
    /\ IF part = "cbor" THEN CborInit ELSE CborRests

MCNext ==
    /\ UNCHANGED part
    /\ \/ part = "graph" /\ Next /\ UNCHANGED <<rdfVars, wiringVars, sandboxVars, cborVars>>
       \/ part = "rdf" /\ RdfNext /\ UNCHANGED <<vars, wiringVars, sandboxVars, cborVars>>
       \/ part = "wiring" /\ EmitNext /\ UNCHANGED <<vars, rdfVars, sandboxVars, cborVars>>
       \/ part = "sandbox" /\ SandboxNext /\ UNCHANGED <<vars, rdfVars, wiringVars, cborVars>>
       \/ part = "cbor" /\ CborNext /\ UNCHANGED <<vars, rdfVars, wiringVars, sandboxVars>>

\* Nothing of what rests is enabled, so that its fairness asks for nothing.
MCSpec == MCInit /\ [][MCNext]_mcVars /\ WF_vars(Next) /\ SandboxFairness
=============================================================================
