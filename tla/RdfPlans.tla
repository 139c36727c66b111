------------------------------- MODULE RdfPlans -------------------------------
(***************************************************************************)
(* Plans as RDF (libs/compose-rdf): plan_to_rdf_with_iri writes a plan as  *)
(* triples, and plan_from_rdf reads what a graph returns for it.  A triple *)
(* is <<subject, predicate, object>>; a term is <<kind, content>>: an IRI  *)
(* is its namespace and its local name, a blank node the kind of entry it  *)
(* is for and its number.  Ids and capability names are numbers, which     *)
(* stand for strings in their order.                                       *)
(***************************************************************************)
EXTENDS Integers, Sequences, FiniteSets, SequencesExt

CONSTANTS
    Nil,        \* an optional field that is absent; nothing written or read yet
    Refused,    \* the reader's error
    GivenPlans  \* the plans that are written

VARIABLES
    given,   \* the plan the writer is given
    graph,   \* its triples, as the store returns them
    kept,    \* history: the store has changed neither their order nor their terms
    back     \* what the reader makes of them

rdfVars == <<given, graph, kept, back>>

Iri(name) == <<"iri", <<"comp", name>>>>
ThePlan == Iri("plan")
Lit(v) == <<"lit", v>>
Opt(p, v) == IF v = Nil THEN <<>> ELSE <<<<p, Lit(v)>>>>
About(s, props) == [i \in DOMAIN props |-> <<s, props[i][1], props[i][2]>>]

\* Variant: all entries of a kind have one label.
OneLabel(kind, i) == <<"blank", <<kind, 1>>>>
Blank(kind, i) == <<"blank", <<kind, i>>>>

\* Entries of a list: the parent points to a blank node, which has the properties.
Listed(parent, p, kind, entries) ==
    FlattenSeq([i \in DOMAIN entries |->
        <<<<parent, p, Blank(kind, i)>>>> \o About(Blank(kind, i), entries[i])])

ComponentProps(c) ==
    <<<<"type", Iri("Component")>>, <<"id", Lit(c.id)>>, <<"digest", Lit(c.digest)>>>>
    \o Opt("source", c.source)
BindingProps(b) ==
    <<<<"import", Lit(b.import)>>, <<"provider", Lit(b.provider)>>, <<"export", Lit(b.export)>>>>
    \o Opt("consumer", b.consumer)
SecretProps(s) == <<<<"secretId", Lit(s.id)>>, <<"backend", Lit(s.backend)>>>>
CapabilityProps(c) == <<<<"name", Lit(c.name)>>, <<"level", Lit(c.level)>>>>
ExportProps(e) == <<<<"sourceInstance", Lit(e.source)>>, <<"interfaceName", Lit(e.interface)>>>>

ByName(caps) == SortSeq(caps, LAMBDA a, b : a.name < b.name)
ById(cs) == SortSeq(cs, LAMBDA a, b : a.id < b.id)

Policy == Blank("pol", 1)
PolicyTriples(policy) ==
    LET caps == ByName(policy.capabilities) IN
    <<<<ThePlan, "policy", Policy>>, <<Policy, "determinism", Lit(policy.determinism)>>>>
    \o Listed(Policy, "capability", "cap", [i \in DOMAIN caps |-> CapabilityProps(caps[i])])
    \o About(Policy, Opt("cpuMs", policy.cpu) \o Opt("memoryBytes", policy.memory)
                     \o Opt("ioOps", policy.io) \o Opt("tenant", policy.tenant))

\* Static linkage is not written; the reader's default is the same.
LinkageTriples(l) == IF l = "static" THEN <<>> ELSE <<<<ThePlan, "linkage", Lit(l)>>>>

PlanToRdf(plan) ==
    About(ThePlan, <<<<"type", Iri("CompositionPlan")>>, <<"version", Lit(plan.version)>>,
                     <<"root", Lit(plan.root)>>>>)
    \o Listed(ThePlan, "component", "c",
              [i \in DOMAIN plan.components |-> ComponentProps(plan.components[i])])
    \o Listed(ThePlan, "binding", "b",
              [i \in DOMAIN plan.bindings |-> BindingProps(plan.bindings[i])])
    \o Listed(ThePlan, "secret", "s",
              [i \in DOMAIN plan.secrets |-> SecretProps(plan.secrets[i])])
    \o PolicyTriples(plan.policy)
    \o LinkageTriples(plan.linkage)
    \o Listed(ThePlan, "explicitExport", "xe",
              [i \in DOMAIN plan.exports |-> ExportProps(plan.exports[i])])

\* plan_to_turtle_with_artifact: two more triples about the plan.
Anchors(digest) ==
    About(ThePlan, <<<<"hasArtifact", Iri("url")>>>> \o Opt("compositionDigest", digest))

-----------------------------------------------------------------------------
\* The reader.

Objects(ts, s, p) ==
    LET of == SelectSeq(ts, LAMBDA t : t[1] = s /\ t[2] = p) IN [i \in DOMAIN of |-> of[i][3]]
HasOne(ts, s, p) == Objects(ts, s, p) # <<>>
Single(ts, s, p) == Objects(ts, s, p)[1]

\* as_string: a literal's value, the whole IRI, the label.
Literal(ts, s, p, default) == IF HasOne(ts, s, p) THEN Single(ts, s, p)[2] ELSE default

\* Of an IRI the local name.
ToComponentId(term) == IF term[1] = "iri" THEN term[2][2] ELSE term[2]
Reference(ts, s, p) == IF HasOne(ts, s, p) THEN ToComponentId(Single(ts, s, p)) ELSE Nil
HasAll(ts, s, ps) == \A p \in ps : HasOne(ts, s, p)

Determinisms == {"strict", "audit", "relaxed"}
Levels == {"required", "optional"}
Linkages == {"static", "runtime"}

\* A digest is 32 bytes, given by its length and its content.
ParseDigest(d) == d[1] = 32

ComponentFrom(ts, s) ==
    IF HasOne(ts, s, "digest") /\ ParseDigest(Literal(ts, s, "digest", Nil))
    THEN [id |-> Literal(ts, s, "id", ToComponentId(s)), digest |-> Literal(ts, s, "digest", Nil),
          source |-> Literal(ts, s, "source", Nil)]
    ELSE Refused

KnownProvider(provider, ids) == provider \in ids

BindingFrom(ts, s, ids) ==
    IF HasAll(ts, s, {"import", "provider", "export"}) /\ KnownProvider(Reference(ts, s, "provider"), ids)
    THEN [import |-> Literal(ts, s, "import", Nil), provider |-> Reference(ts, s, "provider"),
          export |-> Literal(ts, s, "export", Nil), consumer |-> Reference(ts, s, "consumer")]
    ELSE Refused
SecretFrom(ts, s) ==
    IF HasAll(ts, s, {"secretId", "backend"})
    THEN [id |-> Literal(ts, s, "secretId", Nil), backend |-> Literal(ts, s, "backend", Nil)]
    ELSE Refused
ExportFrom(ts, s) ==
    IF HasAll(ts, s, {"sourceInstance", "interfaceName"})
    THEN [source |-> Literal(ts, s, "sourceInstance", Nil),
          interface |-> Literal(ts, s, "interfaceName", Nil)]
    ELSE Refused
CapabilityFrom(ts, s) ==
    LET level == Literal(ts, s, "level", "required") IN
    IF HasOne(ts, s, "name") /\ level \in Levels
    THEN [name |-> Literal(ts, s, "name", Nil), level |-> level]
    ELSE Refused

DefaultPolicy == [determinism |-> "relaxed", capabilities |-> <<>>,
                  cpu |-> Nil, memory |-> Nil, io |-> Nil, tenant |-> Nil]

PolicyFrom(ts, s) ==
    LET refs == Objects(ts, s, "capability")
        caps == [i \in DOMAIN refs |-> CapabilityFrom(ts, refs[i])]
        determinism == Literal(ts, s, "determinism", DefaultPolicy.determinism)
        limits == [p \in {"cpuMs", "memoryBytes", "ioOps"} |-> Literal(ts, s, p, Nil)]
    IN IF Refused \in Range(caps) \/ determinism \notin Determinisms THEN Refused
       ELSE [determinism |-> determinism, capabilities |-> ByName(caps), cpu |-> limits["cpuMs"],
             memory |-> limits["memoryBytes"], io |-> limits["ioOps"],
             tenant |-> Literal(ts, s, "tenant", Nil)]

PlanFromRdf(ts) ==
    LET Each(p, From(_)) ==
            LET refs == Objects(ts, ThePlan, p) IN [i \in DOMAIN refs |-> From(refs[i])]
        components == Each("component", LAMBDA s : ComponentFrom(ts, s))
        ids == {c.id : c \in Range(components)}
        root == Reference(ts, ThePlan, "root")
        bindings == Each("binding", LAMBDA s : BindingFrom(ts, s, ids))
        secrets == Each("secret", LAMBDA s : SecretFrom(ts, s))
        exports == Each("explicitExport", LAMBDA s : ExportFrom(ts, s))
        policy == IF HasOne(ts, ThePlan, "policy") THEN PolicyFrom(ts, Single(ts, ThePlan, "policy"))
                  ELSE DefaultPolicy
        linkage == Literal(ts, ThePlan, "linkage", "static")
    IN IF /\ Iri("CompositionPlan") \in Range(Objects(ts, ThePlan, "type"))
          /\ Refused \notin Range(components)
          /\ Cardinality(ids) = Len(components) /\ root \in ids
          /\ Refused \notin Range(bindings) \cup Range(secrets) \cup Range(exports) \cup {policy}
          /\ linkage \in Linkages
       THEN [version |-> Literal(ts, ThePlan, "version", 1), root |-> root,
             components |-> ById(components), bindings |-> bindings, secrets |-> secrets,
             policy |-> policy, linkage |-> linkage, exports |-> exports]
       ELSE Refused

-----------------------------------------------------------------------------
\* A plan is written to a store, which may change how it is told, and read.

RdfInit == given \in GivenPlans /\ graph = Nil /\ kept = TRUE /\ back = Nil

Writes ==
    /\ graph = Nil
    /\ graph' = PlanToRdf(given)
    /\ UNCHANGED <<given, kept, back>>

WritesAnchored(digest) ==
    /\ graph = Nil
    /\ graph' = PlanToRdf(given) \o Anchors(digest)
    /\ UNCHANGED <<given, kept, back>>

Changes(ts) ==
    /\ graph # Nil /\ kept /\ back = Nil
    /\ graph' = ts
    /\ kept' = FALSE
    /\ UNCHANGED <<given, back>>

\* A store returns triples in an order of its own.
Reorders == Changes(Reverse(graph))
Rotates(k) == k < Len(graph) /\ Changes(SubSeq(graph, k + 1, Len(graph)) \o SubSeq(graph, 1, k))

\* The plan is told again with IRIs for its components, in two namespaces.
AsIri(t) ==
    IF t[1] = "blank" /\ t[2][1] = "c"
    THEN <<"iri", <<IF t[2][2] = 1 THEN "ns1" ELSE "ns2", given.components[t[2][2]].id>>>>
    ELSE t
Retold(t) ==
    <<AsIri(t[1]), t[2], IF t[2] \in {"root", "provider", "consumer"}
                         THEN <<"iri", <<"ref", t[3][2]>>>> ELSE AsIri(t[3])>>
TellsWithIris ==
    /\ graph # Nil
    /\ LET ts == SelectSeq(graph, LAMBDA t : t[2] # "id")
       IN Changes([i \in DOMAIN ts |-> Retold(ts[i])])

Reads ==
    /\ graph # Nil /\ back = Nil
    /\ back' = PlanFromRdf(graph)
    /\ UNCHANGED <<given, graph, kept>>

RdfNext ==
    \/ Writes \/ \E d \in {Nil, 1} : WritesAnchored(d)
    \/ Reorders \/ TellsWithIris \/ Reads
    \/ graph # Nil /\ \E k \in 1..Len(graph) : Rotates(k)

-----------------------------------------------------------------------------

\* What the reader itself asks of a plan: PlanValidator's schema, root and providers.
\* Explicit exports are not looked at: a source that is no component, or one export
\* twice, is read, and left to the validator (plan.rs:101-131).
Readable(p) ==
    /\ \A i, j \in DOMAIN p.components : i < j => p.components[i].id < p.components[j].id
    /\ \A c \in Range(p.components) : c.digest[1] = 32
    /\ \E c \in Range(p.components) : c.id = p.root
    /\ \A b \in Range(p.bindings) : \E c \in Range(p.components) : c.id = b.provider

Canonical(p) == [p EXCEPT !.components = ById(@), !.policy.capabilities = ByName(@)]
SameUpToOrder(p, q) ==
    /\ \A f \in {"version", "root", "components", "linkage"} : p[f] = q[f]
    /\ \A f \in {"bindings", "secrets", "exports"} : Range(p[f]) = Range(q[f]) /\ Len(p[f]) = Len(q[f])
    /\ p.policy = q.policy

\* The round trip of plan_to_rdf_with_iri: whatever plan is written, and however it is
\* told, the reader takes it just if its canonical form has components in order, whole
\* digests, its root and its providers.  What it reads is then that canonical form, its
\* exports included, good or bad; a store that returns the triples in another order, or
\* tells them with IRIs, changes at most the order of bindings, secrets and exports.
ReadsBack == back # Nil =>
    /\ back # Refused <=> Readable(Canonical(given))
    /\ back # Refused => SameUpToOrder(back, Canonical(given))
    /\ back # Refused /\ kept => back = Canonical(given)
=============================================================================
