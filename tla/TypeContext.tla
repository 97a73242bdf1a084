----------------------------- MODULE TypeContext -----------------------------
(***************************************************************************)
(* The object types that are offered for a model: those of the server, one  *)
(* for each structure in their schemas, and one for each type that a node   *)
(* of the model has and that is in neither.                                 *)
(*                                                                          *)
(* A type id is <<form, namespace, value, case>>: "ns" with an index or     *)
(* "nsu" with a uri; value "null" is i=0, "num" and "str" are identifiers   *)
(* of numeric and string form, "builtin", "std" and "odd" ids of the OPC UA *)
(* namespace for a builtin data type, another standard data type and        *)
(* something that is no data type; case tells spellings apart.  NoType is   *)
(* the text of a property without a type.                                   *)
(*                                                                          *)
(* c is what the context is built from:                                     *)
(*   table   the uris of the indexes from 1 on                              *)
(*   nodes   the nodes of the model, [kind, type]; <<>> for no type         *)
(*   types   the object types, [id, members, structures]: its node id, the  *)
(*           data types of its variables and of the structures in its schema *)
(*   classes the expanded ids that build_data_type_schema knows a class for *)
(*   many    the ids that the batch call answers, one those that are        *)
(*           answered when asked alone; up[id] is the answer, without the   *)
(*           type itself: a sequence of "custom", "abstract", "concrete"    *)
(*   names   the ids whose browse name can be read; budget the reads allowed *)
(*                                                                          *)
(* Source: i3x_server/api/v1/objecttype_helpers.py, object_helpers.py.      *)
(***************************************************************************)
EXTENDS Integers, Sequences, FiniteSets, SequencesExt

NoType == <<"text", "", "unknown", "plain">>

\* _expanded_node_id
ExpandedTypeId(table, t) ==
    IF t[1] # "ns" THEN t
    ELSE IF t[2] = 0 THEN <<"nsu", "ua", t[3], t[4]>>
    ELSE IF t[2] \in DOMAIN table THEN <<"nsu", table[t[2]], t[3], t[4]>> ELSE t

\* _is_null_opcua_type_node_id
IsNullType(t) == t[3] = "null"
\* _is_standard_ua_namespace_node_id, of an expanded id
IsStandard(t) == t[1] = "nsu" /\ t[2] = "ua"

\* Fault: a type is found again only in the case it was first met in.
SourceKey_exact(t) == t
\* Types are found by their expanded id in lower case.
SourceKey(t) == [t EXCEPT ![4] = "plain"]

\* _virtual_object_type_element_id, _object_type_element_id: server and version are those
\* of the context, and a token is in lower case.
VirtualElementId(name, t) == <<"urn", t[2], name, t[3]>>
\* _unknown_type_element_id
UnknownTypeId == <<"urn", "ua", "UnknownType", "null">>

TypeItem(id, source, how) == [id |-> id, source |-> source, how |-> how]

\* _object_type_element_ids_by_node_id
TypeElementId(c, o) == VirtualElementId("Type", ExpandedTypeId(c.table, o.id))
TypesWithId(c, id) == SelectSeq(c.types, LAMBDA o : o.id = id)

-----------------------------------------------------------------------------
(* What the model asks for                                                  *)

PropertyType(c, n) == ExpandedTypeId(c.table, IF n.type = <<>> THEN NoType ELSE n.type)

\* _collect_referenced_type_element_ids
ReferencedTypes(c) ==
    LET asked(n) ==
          IF n.kind = "property"
          THEN {IF IsNullType(PropertyType(c, n)) THEN UnknownTypeId ELSE PropertyType(c, n)}
          ELSE IF n.type = <<>> THEN {UnknownTypeId}
          ELSE IF TypesWithId(c, n.type) # <<>> THEN {TypeElementId(c, TypesWithId(c, n.type)[1])}
          ELSE {t \in {ExpandedTypeId(c.table, n.type)} : ~IsNullType(t)}
    IN  UNION {asked(n) : n \in ToSet(c.nodes)}

\* _collect_property_type_element_ids, and the data types of the members of object types.
PropertyTypes(c) ==
    {t \in {PropertyType(c, n) : n \in {n \in ToSet(c.nodes) : n.kind = "property" /\ n.type # <<>>}} : ~IsNullType(t)}
    \cup UNION {{ExpandedTypeId(c.table, m) : m \in o.members} : o \in ToSet(c.types)}

-----------------------------------------------------------------------------
(* Custom data types                                                        *)

\* _scalar_schema_from_type_hierarchy: the nearest standard type that is not abstract, else
\* the nearest abstract one.
ScalarOf(up) ==
    LET standard == {s \in ToSet(up) : s # "custom"}
    IN  IF "concrete" \in standard THEN "concrete" ELSE IF standard = {} THEN "none" ELSE "abstract"

\* Fault: what the batch does not answer is not asked for again.
Hierarchies_batch(c, ids) == ids \cap c.many
\* _resolve_custom_scalar_datatype_schemas: first all at once, then one by one those that
\* were not answered; a failure leaves its ids out.
Hierarchies(c, ids) == (ids \cap c.many) \cup ((ids \ c.many) \cap c.one)

ResolvedCustom(c) ==
    LET asked == {t \in PropertyTypes(c) : t[1] # "text" /\ ~IsStandard(t)}
        answered == {t \in Hierarchies(c, asked) : ScalarOf(c.up[t]) # "none"}
    IN  {<<SourceKey(t), ScalarOf(c.up[t])>> : t \in answered}

-----------------------------------------------------------------------------
(* One type that is not known: the first of these that makes an item        *)

\* The namespace of an id; an id that is not expanded has the one of its index.
HasNamespace(c, t) == t[1] = "nsu" \/ (t[1] = "ns" /\ t[2] \in DOMAIN c.table) \/ t[1] \in {"text", "urn"}

\* _datatype_object_type_from_source_type_id
DatatypeItem(c, custom, t) ==
    LET scalars == {x \in custom : x[1] = SourceKey(t)} IN
    IF ~HasNamespace(c, t) THEN <<>>
    ELSE IF scalars # {} THEN <<TypeItem(VirtualElementId("Scalar", t), t, (CHOOSE x \in scalars : TRUE)[2])>>
    ELSE IF t \in c.classes THEN <<TypeItem(VirtualElementId("Structure", t), t, "class")>>
    ELSE IF IsStandard(t) /\ t[3] \in {"builtin", "std"} THEN <<TypeItem(VirtualElementId("Standard", t), t, "standard")>>
    ELSE <<>>

\* _opaque_datatype_object_type_from_source_type_id, for the types of properties only.
OpaqueItem(c, t) ==
    IF t \notin PropertyTypes(c) \/ ~HasNamespace(c, t) THEN <<>>
    ELSE <<TypeItem(VirtualElementId("DataType", t), t, "opaque")>>

\* _generic_object_type_from_source_type_id: a name is read for a numeric id that has none
\* ("num": no standard node has the same number).
Looks(t, left) == t[3] = "num" /\ left > 0
GenericItem(c, t, left) ==
    IF t[1] # "nsu" THEN <<>>
    ELSE <<TypeItem(VirtualElementId(IF Looks(t, left) /\ t \in c.names THEN "Read" ELSE "Inferred", t), t, "generic")>>

\* _unknown_type_placeholder keeps the id it stands for.
PlaceholderItem(t) == TypeItem(t, t, "unknown")

\* The body of the loop of _build_object_type_context for one id.
Resolved(c, custom, t, left) ==
    LET datatype == DatatypeItem(c, custom, t)
        opaque == OpaqueItem(c, t)
        generic == GenericItem(c, t, left)
    IN  IF datatype # <<>> THEN [item |-> datatype[1], left |-> left]
        ELSE IF opaque # <<>> THEN [item |-> opaque[1], left |-> left]
        ELSE IF generic # <<>> THEN [item |-> generic[1], left |-> IF Looks(t, left) THEN left - 1 ELSE left]
        ELSE [item |-> PlaceholderItem(t), left |-> left]

\* The ids are taken in some fixed order; items[k] wins for its key over those before it.
RECURSIVE ResolveAll(_, _, _, _, _)
ResolveAll(c, custom, items, left, pending) ==
    IF pending = <<>> THEN [items |-> items, left |-> left]
    ELSE LET t == pending[1]
             known == \E k \in DOMAIN items : SourceKey(items[k].source) = SourceKey(t)
             r == Resolved(c, custom, t, left)
         IN  IF known THEN ResolveAll(c, custom, items, left, Tail(pending))
             ELSE ResolveAll(c, custom, Append(items, r.item), r.left, Tail(pending))

\* _synthetic_object_types_from_structure_defs: one for each structure.
RECURSIVE Synthetic(_, _, _)
Synthetic(c, hints, items) ==
    IF hints = <<>> THEN items
    ELSE LET t == ExpandedTypeId(c.table, hints[1])
             known == \E k \in DOMAIN items : SourceKey(items[k].source) = SourceKey(t)
         IN  Synthetic(c, Tail(hints), IF known THEN items
                                       ELSE Append(items, TypeItem(VirtualElementId("Structure", t), t, "structure")))

\* _build_object_type_context
BuildContext(c) ==
    LET own == [k \in DOMAIN c.types |->
                  TypeItem(TypeElementId(c, c.types[k]), ExpandedTypeId(c.table, c.types[k].id), "type")]
        items == own \o Synthetic(c, FlattenSeq([k \in DOMAIN c.types |-> c.types[k].structures]), <<>>)
        missing == ReferencedTypes(c) \ {items[k].id : k \in DOMAIN items}
    IN  ResolveAll(c, ResolvedCustom(c), items, c.budget, SetToSeq(missing))

\* source_type_to_element_id
ElementIdBySource(items, t) ==
    LET same == {k \in DOMAIN items : SourceKey(items[k].source) = SourceKey(t)}
    IN  IF same = {} THEN t ELSE items[CHOOSE k \in same : \A j \in same : j <= k].id

\* _resolved_type_element_id_for_node
ResolvedTypeId(c, items, n) ==
    IF n.kind = "property"
    THEN IF IsNullType(PropertyType(c, n)) THEN UnknownTypeId ELSE ElementIdBySource(items, PropertyType(c, n))
    ELSE IF n.type = <<>> \/ IsNullType(n.type) THEN UnknownTypeId
    ELSE IF TypesWithId(c, n.type) # <<>> THEN TypeElementId(c, TypesWithId(c, n.type)[1])
    ELSE ElementIdBySource(items, ExpandedTypeId(c.table, n.type))
=============================================================================
