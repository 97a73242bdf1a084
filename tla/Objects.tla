------------------------------- MODULE Objects -------------------------------
(***************************************************************************)
(* What the REST interface shows of the model: the objects, their parents   *)
(* and relations, the root objects and the figures of the metrics.          *)
(*                                                                          *)
(* Source: i3x_server/api/v1/object_helpers.py, object_routes.py,           *)
(* monolithic.py.                                                           *)
(***************************************************************************)
EXTENDS ModelBuild

-----------------------------------------------------------------------------
(* Objects: b is a model as ModelBuild makes it                             *)

\* _reverse_parent_index: hierarchy first, then the tree the nodes were browsed in.
ReverseParent(b, n) ==
    LET owners == {p \in ToSet(b.nodes) : n \in b.children[p]}
    IN  IF b.hierarchy[n] # 0 THEN b.hierarchy[n]
        ELSE IF owners = {} THEN 0 ELSE CHOOSE p \in owners : TRUE

\* Fault: the parent is the one of the browse tree.
ParentId_browsed(b, n) ==
    LET owners == {p \in ToSet(b.nodes) : n \in b.children[p]}
    IN  IF n \in b.roots \/ owners = {} THEN 0 ELSE CHOOSE p \in owners : TRUE
\* _parent_id_for_node: an asset without a parent in the hierarchy has none.
ParentId(b, n) ==
    IF n \in b.roots THEN 0
    ELSE IF b.hierarchy[n] # 0 THEN b.hierarchy[n]
    ELSE IF b.kind[n] = "asset" THEN 0 ELSE ReverseParent(b, n)

\* _composition_children_for_node
ComponentsOf(b, n) == {c \in ToSet(b.nodes) : b.composition[c] = n}

\* _relationship_type_for_name: the parent of a property is called its owner.
RelationName(b, n, id) == IF id = <<"HasParent">> /\ b.kind[n] = "property" THEN <<"ComponentOf">> ELSE id

\* _build_related_objects_for_node: <<relation, target>>; filter <<>> asks for all.
RelatedObjects(b, n, filter) ==
    {<<RelationName(b, n, t[2]), t[3]>> :
        t \in {t \in b.relations : t[1] = n /\ filter \in {<<>>, RelationName(b, n, t[2])}}}

\* _to_object_instance
ObjectInstance(b, n) ==
    [id |-> n, parentId |-> ParentId(b, n), isComposition |-> ComponentsOf(b, n) # {},
     owner |-> b.composition[n]]

\* Fault: the owners of the composition are not asked.
RootObjects_hierarchy(b) == {n \in ToSet(b.nodes) : b.hierarchy[n] = 0 /\ b.kind[n] = "asset"}
\* get_objects_v1 with root=true
RootObjects(b) ==
    LET tops == {n \in ToSet(b.nodes) : b.hierarchy[n] = 0 /\ b.composition[n] = 0 /\ b.kind[n] = "asset"}
    IN  IF tops = {} THEN b.roots ELSE tops

\* Fault: every reference counts, not only those of the parents selected.
Metrics_edges(b) ==
    LET count(S) == Cardinality(S)
        nodes == ToSet(b.nodes)
    IN  [total       |-> count(nodes), roots |-> count(b.roots),
         byKind      |-> [k \in {"asset", "property", "action"} |-> count({n \in nodes : b.kind[n] = k})],
         hierarchy   |-> count({e \in b.edges : e.class = "hierarchy"}),
         composition |-> count({e \in b.edges : e.class = "composition"}),
         byRelation  |-> [id \in {t[2] : t \in b.relations} |-> count({t \in b.relations : t[2] = id})]]
\* _build_model_metrics
Metrics(b) ==
    LET count(S) == Cardinality(S)
        nodes == ToSet(b.nodes)
    IN  [total       |-> count(nodes), roots |-> count(b.roots),
         byKind      |-> [k \in {"asset", "property", "action"} |-> count({n \in nodes : b.kind[n] = k})],
         hierarchy   |-> count({n \in nodes : b.hierarchy[n] # 0}),
         composition |-> count({n \in nodes : b.composition[n] # 0}),
         byRelation  |-> [id \in {t[2] : t \in b.relations} |-> count({t \in b.relations : t[2] = id})]]
=============================================================================
