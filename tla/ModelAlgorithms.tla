--------------------------- MODULE ModelAlgorithms ---------------------------
(***************************************************************************)
(* The model made of the browsed nodes and the objects shown of it,         *)
(* compared with what they are meant to be.  ModelSpec takes any nodes and  *)
(* references; TLC takes those of DoBuild and DoClassify.                   *)
(***************************************************************************)
EXTENDS Computation, Objects

-----------------------------------------------------------------------------
(* Inputs                                                                   *)

\* Parts of names and uris, among them those the builder writes itself.
Texts       == STRING \cup {"i3x", "inverseOf", "Organizes", "HasProperty", "OrganizedBy"}
Names       == {name \in Seq(Texts) : name # <<>>}
\* A uri does not begin like the id of an inverse, inverseOf_: no scheme of a uri can.
\* <<>> is the uri that could not be resolved.
Namespaces  == {ns \in Seq(Texts) : ns # <<>> => ns[1] # "inverseOf"}
RefTypes    == [name : Names, ns : Namespaces, lineage : SUBSET STRING]

\* What browse_tree and the reads after it hand to the builder.
IsBrowsed(m) ==
    /\ m.nodes \in Seq(Nat \ {0})
    /\ \A n \in ToSet(m.nodes) :
         /\ m.parent[n] \in Nat
         /\ m.class[n] \in STRING
         /\ m.types[n] \in Seq([name : STRING, machinery : BOOLEAN])
         /\ m.refs[n] \in Seq([to : Nat \ {0}, type : RefTypes])

\* The reference types of the standard whose supertypes the code knows by itself.
StandardLineages ==
    {{"organizes"}, {"hascomponent"}, {"hasorderedcomponent", "hascomponent"}, {"hasproperty"},
     {"haseventsource"}, {"haschild"}}

BuildModel(m) == Idle("build") /\ IsBrowsed(m) /\ Run([m |-> m, b |-> Build(m)])

ClassifyStandard(names, target, profiles) ==
    /\ Idle("classify") /\ names \in StandardLineages /\ profiles \in {<<Generic>>, <<Machinery, Generic>>}
    /\ Run([name |-> names, target |-> target, profiles |-> profiles])

ModelInit == task \in {"build", "classify"} /\ input = <<>>
ModelNext == \/ \E m : BuildModel(m)
             \/ \E names, target, profiles : ClassifyStandard(names, target, profiles)
ModelSpec == ModelInit /\ [][ModelNext]_vars

-----------------------------------------------------------------------------
(* The inputs of TLC                                                        *)

RefType(name, ns, lineage) == [name |-> name, ns |-> ns, lineage |-> lineage]
Organizes    == RefType(<<"Organizes">>, <<"ua">>, {"organizes", "hierarchicalreferences"})
HasComponent == RefType(<<"HasComponent">>, <<"ua">>, {"hascomponent", "haschild", "hierarchicalreferences"})
\* Two companion specifications with a relation of the same name; two whose qualified
\* names are one text; one with the name of a relation of the model; and one whose
\* namespace is not known.
FeedsA       == RefType(<<"Feeds">>, <<"a">>, {"feeds", "nonhierarchicalreferences"})
FeedsB       == RefType(<<"Feeds">>, <<"a", "b">>, {"feeds", "nonhierarchicalreferences"})
FeedsC       == RefType(<<"b", "Feeds">>, <<"a">>, {"feeds", "nonhierarchicalreferences"})
OtherParent  == RefType(<<"HasParent">>, <<"a">>, {"hasparent", "nonhierarchicalreferences"})
Homeless     == RefType(<<"Feeds">>, <<>>, {"feeds", "nonhierarchicalreferences"})
NoRef        == RefType(<<"">>, <<>>, {})

DataItem == [name |-> "dataitemtype", machinery |-> TRUE]
Group    == [name |-> "functionalgrouptype", machinery |-> FALSE]

\* Node 1 is the root; r12 is the type of the reference from 1 to 2, and so on; the
\* references of node 2 may have failed to be read.
DoBuild ==
    Idle("build") /\ \E r12 \in {Organizes, HasComponent}, r13 \in {NoRef, Organizes, HasComponent, FeedsA},
       r23 \in {NoRef, Organizes, HasComponent, FeedsA, FeedsB, FeedsC, OtherParent},
       r32 \in {NoRef, Organizes, HasComponent, FeedsA, FeedsB, Homeless},
       r21 \in {NoRef, Organizes, FeedsC, OtherParent}, class2 \in {"Object", "Variable"},
       class3 \in {"Object", "Variable"}, type3 \in {<<>>, <<DataItem>>, <<Group, DataItem>>}, failed \in BOOLEAN :
      LET refs(row) == SelectSeq([j \in 1 .. 3 |-> [to |-> j, type |-> row[j]]], LAMBDA e : e.type # NoRef)
          one == refs(<<NoRef, r12, r13>>)
          two == refs(<<r21, NoRef, r23>>)
          three == refs(<<NoRef, r32, NoRef>>)
          \* browse_tree finds 2 from 1, and 3 from 1 or 2, or not at all
          above == IF r13 \in {Organizes, HasComponent} THEN 1
                   ELSE IF r23 \in {Organizes, HasComponent} THEN 2 ELSE 0
      IN  BuildModel([nodes  |-> IF above = 0 THEN <<1, 2>> ELSE <<1, 2, 3>>,
                      parent |-> <<0, 1, above>>,
                      class  |-> <<"Object", class2, class3>>,
                      types  |-> <<<<>>, <<>>, type3>>,
                      refs   |-> <<one, IF failed THEN <<>> ELSE two, three>>])

DoClassify ==
    Idle("classify") /\ \E names \in StandardLineages, target \in {"Object", "Variable", "Method"},
       profiles \in {<<Generic>>, <<Machinery, Generic>>} : ClassifyStandard(names, target, profiles)

-----------------------------------------------------------------------------
(* The model                                                                *)

Built == Ran("build") /\ input.b.ok

\* The pairs of nodes that a relation of the model b leads along, in all and from n.
Along(b, id) == {<<t[1], t[3]>> : t \in {t \in b.relations : t[2] = id}}
Targets(b, n, id) == {t[3] : t \in {t \in b.relations : t[1] = n /\ t[2] = id}}

\* The relation that leads back.
Opposite(id) == CASE id = <<"HasChildren">>  -> <<"HasParent">>
                 [] id = <<"HasParent">>    -> <<"HasChildren">>
                 [] id = <<"HasComponent">> -> <<"ComponentOf">>
                 [] id = <<"ComponentOf">>  -> <<"HasComponent">>
                 [] id[1] = "inverseOf"     -> Tail(id)
                 [] OTHER                   -> InverseOf(id)

\* The references of one type that are not of hierarchy or composition.
OfType(b, name, ns) ==
    {<<e.from, e.to>> : e \in {e \in b.edges : e.name = name /\ e.ns = ns
                                             /\ e.class \notin {"hierarchy", "composition"}}}

\* Every relation of the model has its inverse at the other end, and the relations of the
\* address space never mix with the model's own nor with each other: a node has at most
\* one HasParent, its hierarchy parent, and one ComponentOf, its composition parent, and
\* a relation of the address space has the references of one type, of one namespace, and
\* nothing else.
RelationshipsInverse ==
    Built =>
      LET b == input.b IN
      /\ \A t \in b.relations : <<t[3], Opposite(t[2]), t[1]>> \in b.relations
      /\ \A n \in ToSet(b.nodes) : /\ Targets(b, n, <<"HasParent">>) = {b.hierarchy[n]} \ {0}
                                   /\ Targets(b, n, <<"ComponentOf">>) = {b.composition[n]} \ {0}
      /\ \A e \in b.entries : e.ns # I3xNamespace =>
           OfType(b, e.name, e.ns) = Along(b, RelationshipId(b.entries, e.name, e.ns))

\* No reference between nodes of the model is lost: a hierarchical one is the parent of
\* its target or an OrganizedBy of it, one of composition gives its target an owner, any
\* other is a relation of the graph.
NoReferenceLost ==
    Built =>
      LET b == input.b
          related(n, name, ns, to) == <<n, RelationshipId(b.entries, name, ns), to>> \in b.relations
      IN  \A e \in b.edges :
            CASE e.class = "hierarchy"   -> \/ b.hierarchy[e.to] = e.from
                                            \/ related(e.to, <<"OrganizedBy">>, I3xNamespace, e.from)
              [] e.class = "composition" -> b.composition[e.to] # 0
              [] OTHER                   -> related(e.from, e.name, e.ns, e.to)

\* The nodes that n refers to with a reference of hierarchy or composition.
Below(b, n) == {e.to : e \in {e \in b.edges : e.from = n /\ e.class \in {"hierarchy", "composition"}}}

\* The references of hierarchy and composition have no cycle: no set of nodes has all of
\* them below another one of the set.
NoCycle(b) == \A S \in SUBSET ToSet(b.nodes) : S # {} => \E n \in S : \A p \in S : n \notin Below(b, p)

\* The nodes that nothing refers to are the roots; and whenever the references have no
\* cycle the parents make a forest below them: whoever goes up along the parents meets one.
ParentsForest ==
    Built =>
      LET b == input.b
          nodes == ToSet(b.nodes)
          upward(S) == \A n \in S : b.parent[n] # 0 => b.parent[n] \in S
      IN  /\ b.roots = nodes \ UNION {Below(b, n) : n \in nodes}
          /\ NoCycle(b) => \A S \in SUBSET nodes : S # {} /\ upward(S) => S \cap b.roots # {}

Overrides == {"dataitemtype", "functionalgrouptype"}

\* The nearest type of n that a companion specification has rules for is t.
Overridden(m, n, t) ==
    LET types == m.types[n] IN
    /\ \E k \in DOMAIN types : types[k].machinery /\ types[k].name \in Overrides
    /\ \E k \in DOMAIN types : types[k].name = t /\ \A j \in 1 .. k - 1 : types[j].name \notin Overrides

\* A node whose type forces a class is in that plane and no other, whoever refers to it.
ForcedClassHolds ==
    Built =>
      LET b == input.b
          only(n, plane, other) == other[n] = 0 /\ ((\E e \in b.edges : e.to = n) => plane[n] # 0)
      IN  \A n \in ToSet(b.nodes) :
            /\ Overridden(input.m, n, "dataitemtype") => only(n, b.composition, b.hierarchy)
            /\ Overridden(input.m, n, "functionalgrouptype") => only(n, b.hierarchy, b.composition)

\* The standard reference types have the same class whether or not their supertypes could
\* be resolved, with every set of profiles: a failed browse of reference types does not
\* move the nodes of a standard model.
StandardClassesStable ==
    Ran("classify") =>
      Classify(input.name \cup {"hierarchicalreferences", "references"}, input.target, input.profiles)
        = Classify(input.name, input.target, input.profiles)

\* The builder makes a model of all references, each in its plane (the parts above).
ModelFaithful ==
    /\ RelationshipsInverse /\ NoReferenceLost /\ ParentsForest
    /\ ForcedClassHolds /\ StandardClassesStable

-----------------------------------------------------------------------------
(* Objects                                                                  *)

\* The parents in the two planes have no cycle.
Acyclic(b) ==
    \A S \in SUBSET ToSet(b.nodes) : S # {} => \E n \in S : b.hierarchy[n] \notin S /\ b.composition[n] \notin S

\* A client that starts with the root objects and follows HasChildren and HasComponent
\* gets to every object of a model without cycles in which what has no parent is an asset;
\* a root object is nobody's child or component, and there is one whenever there is an
\* object at all.
ObjectsNavigable ==
    Built /\ Acyclic(input.b) =>
      LET b == input.b
          nodes == ToSet(b.nodes)
          down(n) == {x[2] : x \in RelatedObjects(b, n, <<"HasChildren">>) \cup RelatedObjects(b, n, <<"HasComponent">>)}
      IN  /\ (\A n \in b.roots : b.kind[n] = "asset") =>
               \A S \in SUBSET nodes : RootObjects(b) \subseteq S /\ (\A n \in S : down(n) \subseteq S) => S = nodes
          /\ nodes # {} => RootObjects(b) # {}
          /\ \A n \in RootObjects(b) : RelatedObjects(b, n, <<"HasParent">>) = {} /\ RelatedObjects(b, n, <<"ComponentOf">>) = {}

\* Where n was found below p, p refers to n by hierarchy or composition.
FoundByReference(m, b, n) == n \in Below(b, m.parent[n])

\* What the object n says of its parent agrees with its relations: parentId is its
\* HasParent; without one, a property with a single owner names its owner, the node it was
\* found from.  It is a composition if and only if it has a HasComponent.
ParentAgrees(m, b, n) ==
    LET object == ObjectInstance(b, n)
        owners == {e.from : e \in {e \in b.edges : e.to = n /\ e.class = "composition"}}
        up == Targets(b, n, <<"HasParent">>)
    IN  /\ up # {} => object.parentId \in up
        /\ up = {} /\ b.kind[n] = "property" /\ FoundByReference(m, b, n) /\ Cardinality(owners) = 1 =>
             object.parentId = object.owner
        /\ up = {} /\ b.kind[n] = "asset" => object.parentId = 0
        /\ object.isComposition <=> RelatedObjects(b, n, <<"HasComponent">>) # {}

\* It does for every object.
ParentIdAgrees == Built => \A n \in ToSet(input.b.nodes) : ParentAgrees(input.m, input.b, n)

\* The figures of the metrics endpoint fit together: the kinds add up to the nodes, and
\* each plane has as many edges as relations down and relations up.
MetricsAddUp ==
    Built =>
      LET m == Metrics(input.b)
          of(id) == IF id \in DOMAIN m.byRelation THEN m.byRelation[id] ELSE 0
      IN  /\ m.total = m.byKind["asset"] + m.byKind["property"] + m.byKind["action"]
          /\ m.hierarchy = of(<<"HasChildren">>) /\ m.hierarchy = of(<<"HasParent">>)
          /\ m.composition = of(<<"HasComponent">>) /\ m.composition = of(<<"ComponentOf">>)
          /\ \A id \in DOMAIN m.byRelation : id[1] = "inverseOf" => m.byRelation[id] = of(Tail(id))

\* The REST interface shows the objects of the model with their own relations.
ObjectsFaithful == ObjectsNavigable /\ ParentIdAgrees /\ MetricsAddUp
=============================================================================
