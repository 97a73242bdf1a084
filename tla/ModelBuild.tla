------------------------------ MODULE ModelBuild ------------------------------
(***************************************************************************)
(* From the browsed nodes to the model: the class of a reference, the       *)
(* semantic profiles, and the hierarchy, composition and graph the builder  *)
(* makes of the references.                                                 *)
(*                                                                          *)
(* Source: i3x_server/model/builder.py, model/mapper.py,                    *)
(* model/semantic_profiles.py.                                              *)
(*                                                                          *)
(* A node is a number, and so is its element id: stable_i3x_id hashes the   *)
(* node id, and its collisions are left out.  A reference type is a record  *)
(* [name, ns, lineage]; a name and a namespace uri are sequences, the parts  *)
(* between their colons, so that ids put together (ns:name, inverseOf_name) *)
(* can be told from names or not, as in the code; an ns of <<>> could not   *)
(* be resolved.  The lineage is the set of normalized tokens of its id, its *)
(* name and its supertypes.                                                 *)
(***************************************************************************)
EXTENDS Naturals, Sequences, SequencesExt, FiniteSets, FiniteSetsExt

-----------------------------------------------------------------------------
(* mapper.py: the class of a reference                                      *)

HierarchyNames   == {"organizes", "haschild", "hierarchicalreferences"}
CompositionNames == {"hascomponent", "hasorderedcomponent", "hasproperty", "propertyof"}
TypeMetaNames    == {"hastypedefinition", "hassubtype"}
GraphNames       == {"nonhierarchicalreferences"}

\* _classify_hierarchical_family: HasComponent makes a hierarchy of objects.
HierarchicalFamily(tokens, target) ==
    IF tokens \cap {"hasproperty", "propertyof"} # {} THEN "composition"
    ELSE IF tokens \cap {"hascomponent", "hasorderedcomponent"} = {} THEN "hierarchy"
    ELSE IF target = "Variable" THEN "composition" ELSE "hierarchy"

\* A profile: the reference names it assigns, and the types it overrides.
Machinery == [id |-> "machinery", hierarchy |-> {"organizes"},
              composition |-> {"hasproperty", "dataitemtype"}, graph |-> {"flowsto"},
              overrides |-> [t \in {"functionalgrouptype", "dataitemtype"} |->
                  IF t = "dataitemtype" THEN [role |-> "datapoint", force |-> "composition"]
                                        ELSE [role |-> "group", force |-> "hierarchy"]]]
Generic == [id |-> "generic", hierarchy |-> HierarchyNames, composition |-> CompositionNames,
            graph |-> {"nonhierarchicalreferences", "generatesevent", "haseventsource"},
            overrides |-> <<>>]

\* Fault: a profile only knows hierarchical references.
ProfileClass_noGraph(tokens, profiles, target) ==
    LET knows(p) == tokens \cap (p.hierarchy \cup p.composition) # {}
    IN  IF \E k \in DOMAIN profiles : knows(profiles[k]) THEN HierarchicalFamily(tokens, target) ELSE "none"
\* _reference_class_from_profile_rules: the first profile that knows a token decides.
ProfileClass(tokens, profiles, target) ==
    LET knows(p) == tokens \cap (p.graph \cup p.hierarchy \cup p.composition) # {}
        hits == {k \in DOMAIN profiles : knows(profiles[k])}
    IN  IF hits = {} THEN "none"
        ELSE IF tokens \cap profiles[Min(hits)].graph # {} THEN "graph"
        ELSE HierarchicalFamily(tokens, target)

\* classify_opcua_reference
ClassifyByLineage(tokens, target) ==
    IF tokens \cap TypeMetaNames # {} THEN "type-meta"
    ELSE IF tokens \cap GraphNames # {} THEN "graph"
    ELSE IF tokens \cap (HierarchyNames \cup CompositionNames) # {} THEN HierarchicalFamily(tokens, target)
    ELSE "graph"

\* classify_opcua_reference_with_confidence; both roots at once overrule the profiles.
Classify(tokens, target, profiles) ==
    LET bothRoots == tokens \cap GraphNames # {} /\ tokens \cap HierarchyNames # {}
        byProfile == ProfileClass(tokens, profiles, target)
    IN  IF bothRoots \/ byProfile = "none" THEN ClassifyByLineage(tokens, target) ELSE byProfile

-----------------------------------------------------------------------------
(* semantic_profiles.py: m.types[n] is the type of n and its supertypes, as *)
(* records [name, machinery] (is it of the Machinery namespace?)            *)

\* matches_node and active_profiles_for_node
ActiveProfiles(m, n) ==
    IF \E k \in 1 .. Len(m.types[n]) : m.types[n][k].machinery
                                     /\ m.types[n][k].name \in DOMAIN Machinery.overrides
    THEN <<Machinery, Generic>> ELSE <<Generic>>

\* forced_relationship_class_for_node: the override of the nearest type that has one;
\* the generic profile has none.
ForcedClass(m, n) ==
    LET overrides == ActiveProfiles(m, n)[1].overrides
        hits == {k \in DOMAIN m.types[n] : m.types[n][k].name \in DOMAIN overrides}
    IN  IF hits = {} THEN "none" ELSE overrides[m.types[n][Min(hits)].name].force

-----------------------------------------------------------------------------
(* builder.py: m.nodes are the browsed nodes in order, m.parent[n] is the   *)
(* node n was found from, m.class[n] its class, m.refs[n] its references,   *)
(* as records [to, type].                                                   *)

Kind(m, n) == IF m.class[n] = "Variable" THEN "property"
              ELSE IF m.class[n] = "Method" THEN "action" ELSE "asset"

ChildSources(m, n) == {c \in ToSet(m.nodes) : m.parent[c] = n}

I3xNamespace == <<"i3x">>

OrganizesType   == [name |-> <<"Organizes">>, ns |-> I3xNamespace, lineage |-> {"organizes"}]
HasPropertyType == [name |-> <<"HasProperty">>, ns |-> I3xNamespace, lineage |-> {"hasproperty"}]

\* The references of n to nodes of the model; a node whose references could not be
\* read refers to the nodes found from it.
References(m, n) ==
    IF m.refs[n] = <<>>
    THEN {[to |-> c, type |-> IF m.class[c] = "Variable" THEN HasPropertyType ELSE OrganizesType] :
            c \in ChildSources(m, n)}
    ELSE {r \in ToSet(m.refs[n]) : r.to \in ToSet(m.nodes)}

\* Fault: the profile of the source, not of the target, forces a class.
ReferenceClass_source(m, n, r) ==
    IF ForcedClass(m, n) # "none" THEN ForcedClass(m, n)
    ELSE Classify(r.type.lineage, m.class[r.to], ActiveProfiles(m, n))
\* The class of a reference of n; the type of its target may force one.
ReferenceClass(m, n, r) ==
    IF ForcedClass(m, r.to) # "none" THEN ForcedClass(m, r.to)
    ELSE Classify(r.type.lineage, m.class[r.to], ActiveProfiles(m, n))

\* _hierarchy_relationship_priority
Priority(r) == CASE r.type.name = <<"Organizes">> -> 0 [] r.type.name = <<"HasComponent">> -> 1
                 [] r.type.name = <<"HasOrderedComponent">> -> 2 [] OTHER -> 99

\* The references of the model with their class, worked out once.
Edges(m) ==
    {[from |-> x[1], to |-> x[2].to, name |-> x[2].type.name, ns |-> x[2].type.ns,
      class |-> ReferenceClass(m, x[1], x[2]), priority |-> Priority(x[2])] :
        x \in UNION {{n} \X References(m, n) : n \in ToSet(m.nodes)}}

\* Fault: only a reference type with a priority makes a parent.
Candidates_known(edges, c, k) ==
    {[priority |-> e.priority, parent |-> e.from] :
        e \in {e \in edges : e.to = c /\ e.class = k /\ e.priority < 99}}
\* Who refers to c with a reference of class k.
Candidates(edges, c, k) ==
    {[priority |-> e.priority, parent |-> e.from] : e \in {e \in edges : e.to = c /\ e.class = k}}

\* Fault: the parent that was not selected is forgotten when it refers like the one selected.
OrganizedBy_priority(cands, selected) == {d \in cands : d.priority # selected.priority}
OrganizedBy(cands, selected) == cands \ {selected}

\* The least priority, then the least source id.
Selected(cands) ==
    CHOOSE c \in cands : \A d \in cands :
        c.priority < d.priority \/ (c.priority = d.priority /\ c.parent <= d.parent)

SelectedParent(edges, c, k) ==
    LET cands == Candidates(edges, c, k) IN IF cands = {} THEN 0 ELSE Selected(cands).parent

\* graph_related_by_source, and OrganizedBy for the hierarchy parents not selected.
GraphEntries(edges, nodes) ==
    {[from |-> e.from, name |-> e.name, ns |-> e.ns, to |-> e.to] :
        e \in {e \in edges : e.class \notin {"hierarchy", "composition"}}}
    \cup
    UNION {LET cands == Candidates(edges, c, "hierarchy") IN
           IF cands = {} THEN {}
           ELSE {[from |-> c, name |-> <<"OrganizedBy">>, ns |-> I3xNamespace, to |-> d.parent] :
                    d \in OrganizedBy(cands, Selected(cands))} :
           c \in nodes}

Reserved == {<<"HasParent">>, <<"HasChildren">>, <<"HasComponent">>, <<"ComponentOf">>}

\* Fault: a reference type may have the name of one of the model's own relations.
Qualified_reserved(entries, name) ==
    \/ Cardinality({e.ns : e \in {e \in entries : e.name = name}}) > 1
    \/ name[1] = "inverseOf" \/ Len(name) > 1
\* A name is qualified when several namespaces use it, or it could be taken for
\* another relation of the model or for a qualified name.
Qualified(entries, name) ==
    \/ Cardinality({e.ns : e \in {e \in entries : e.name = name}}) > 1
    \/ name \in Reserved \/ name[1] = "inverseOf" \/ Len(name) > 1

RelationshipId(entries, name, ns) == IF Qualified(entries, name) THEN ns \o name ELSE name
InverseOf(id) == <<"inverseOf">> \o id

\* Fault: the id put together is taken as it is.
Nameable_unchecked(entries) == \A e \in entries : e.ns # <<>>
\* A build fails when the namespace of a relation is unknown, or two relations get one id.
Nameable(entries) ==
    /\ \A e \in entries : e.ns # <<>>
    /\ \A e, f \in entries :
          RelationshipId(entries, e.name, e.ns) = RelationshipId(entries, f.name, f.ns) => e.name = f.name /\ e.ns = f.ns

\* relationships_by_id as triples <<source, relation, target>>; hier and comp are the
\* parents of the two planes.
Relations(nodes, hier, comp, entries) ==
    LET both(f, down, up) == UNION {{<<f[c], down, c>>, <<c, up, f[c]>>} : c \in {n \in nodes : f[n] # 0}}
        graph == {<<e.from, RelationshipId(entries, e.name, e.ns), e.to>> : e \in entries}
    IN  both(hier, <<"HasChildren">>, <<"HasParent">>) \cup both(comp, <<"HasComponent">>, <<"ComponentOf">>)
        \cup graph \cup {<<g[3], InverseOf(g[2]), g[1]>> : g \in graph}

\* ModelBuilder.build, which raises unless ok; a parent of 0 is none.
Build(m) ==
    LET nodes == ToSet(m.nodes)
        edges == Edges(m)
        entries == GraphEntries(edges, nodes)
        hier == [n \in nodes |-> SelectedParent(edges, n, "hierarchy")]
        comp == [n \in nodes |-> SelectedParent(edges, n, "composition")]
    IN  [ok        |-> Nameable(entries),
         nodes     |-> m.nodes, edges |-> edges, entries |-> entries,
         kind      |-> [n \in nodes |-> Kind(m, n)],
         hierarchy |-> hier, composition |-> comp,
         parent    |-> [n \in nodes |-> IF hier[n] # 0 THEN hier[n] ELSE comp[n]],
         children  |-> [n \in nodes |-> ChildSources(m, n)],
         roots     |-> {n \in nodes : hier[n] = 0 /\ comp[n] = 0},
         relations |-> Relations(nodes, hier, comp, entries)]
=============================================================================
