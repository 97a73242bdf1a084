----------------------------- MODULE TypeSchemas -----------------------------
(***************************************************************************)
(* The schemas of object types and data types: definitions that refer to    *)
(* each other by name, collected in a registry, merged over the supertypes, *)
(* shared when equal, and cut out again for a single data type.             *)
(*                                                                          *)
(* S describes the structured classes: S.fields[t] are the classes of the   *)
(* fields of class t (fields of scalars are left out), S.title[t] its name, *)
(* which several classes may have, and S.canon[t] its canonical key, 0 for  *)
(* most classes.  A definition is [title, refs, meta]: the names that it    *)
(* refers to and the data type it was registered for, 0 for none.           *)
(*                                                                          *)
(* Source: i3x_server/schemas/objecttype_schema.py,                         *)
(* i3x_server/api/v1/objecttype_helpers.py.                                 *)
(***************************************************************************)
EXTENDS Integers, Sequences, FiniteSets, SequencesExt

-----------------------------------------------------------------------------
(* _SchemaRegistry: names is a sequence of <<key, name>>, defs one of       *)
(* <<name, definition>> in the order in which the names were first defined. *)

EmptyRegistry == [names |-> <<>>, defs |-> <<>>]

Find(pairs, key) == SelectInSeq(pairs, LAMBDA p : p[1] = key)
HasKey(r, key) == Find(r.names, key) # 0
RefFor(r, key) == r.names[Find(r.names, key)][2]
Defined(defs, name) == Find(defs, name) # 0
DefinitionOf(defs, name) == defs[Find(defs, name)][2]
NamesOf(defs) == {p[1] : p \in ToSet(defs)}

Reserve(r, key, name) == [r EXCEPT !.names = Append(@, <<key, name>>)]
SetDefinition(r, name, d) ==
    [r EXCEPT !.defs = IF Defined(@, name) THEN [@ EXCEPT ![Find(@, name)] = <<name, d>>]
                       ELSE Append(@, <<name, d>>)]

\* A name and its numbered variants <<base, 2>>, <<base, 3>>, ..
Unused(base, used) ==
    <<base, CHOOSE i \in 1 .. Cardinality(used) + 1 :
              <<base, i>> \notin used /\ \A j \in 1 .. i - 1 : <<base, j>> \in used>>

\* Fault: a name that another key has is given again.
Allocate_again(r, key, preferred) == Reserve(r, key, <<preferred, 1>>)
\* allocate, for a key that has no name yet.
Allocate(r, key, preferred) == Reserve(r, key, Unused(preferred, {p[2] : p \in ToSet(r.names)}))

\* _merge_metadata_into_registered_definition: the first data type stays; a definition
\* that is still being built is not there yet.
MergeMetadata(r, key, meta) ==
    LET name == RefFor(r, key) IN
    IF meta = 0 \/ ~Defined(r.defs, name) \/ DefinitionOf(r.defs, name).meta # 0 THEN r
    ELSE SetDefinition(r, name, [DefinitionOf(r.defs, name) EXCEPT !.meta = meta])

FieldKey(t) == <<"field", t>>
DataKey(t)  == <<"data", t>>

\* _reference_or_register_structure_from_type; the name is reserved before the fields are
\* looked at, so that a class may contain itself.
RECURSIVE Register(_, _, _, _, _), RegisterFields(_, _, _)
Register(S, r, key, t, meta) ==
    LET canon == <<"canon", S.canon[t]>> IN
    IF HasKey(r, key) THEN MergeMetadata(r, key, meta)
    ELSE IF S.canon[t] # 0 /\ HasKey(r, canon) THEN MergeMetadata(Reserve(r, key, RefFor(r, canon)), key, meta)
    ELSE LET named == Allocate(r, key, S.title[t])
             name  == RefFor(named, key)
             inner == RegisterFields(S, IF S.canon[t] # 0 THEN Reserve(named, canon, name) ELSE named, S.fields[t])
         IN  SetDefinition(inner, name,
                 [title |-> S.title[t], meta |-> meta,
                  refs |-> [i \in DOMAIN S.fields[t] |-> RefFor(inner, FieldKey(S.fields[t][i]))]])
\* _structure_schema_for_type with _schema_for_annotation
RegisterFields(S, r, fields) ==
    IF fields = <<>> THEN r
    ELSE RegisterFields(S, Register(S, r, FieldKey(fields[1]), fields[1], 0), Tail(fields))

-----------------------------------------------------------------------------
(* Object types: O.parent[o] is the supertype of o, 0 for none or for one   *)
(* that is not known; O.members[o] a sequence of [name, class, required],   *)
(* class 0 for a scalar; S as above.                                        *)

\* _lineage: from the root down, until a type comes again.
RECURSIVE LineageFrom(_, _, _)
LineageFrom(O, o, chain) ==
    IF o = 0 \/ o \in ToSet(chain) THEN chain ELSE LineageFrom(O, O.parent[o], <<o>> \o chain)
Lineage(O, o) == LineageFrom(O, o, <<>>)

RECURSIVE RegisterMembers(_, _, _)
RegisterMembers(S, r, members) ==
    IF members = <<>> THEN r
    ELSE RegisterMembers(S, IF members[1].class = 0 THEN r
                            ELSE Register(S, r, DataKey(members[1].class), members[1].class, members[1].class),
                         Tail(members))

Scalar == <<<<"scalar", 0>>, 0>>
\* _schema_for_single_type: a later member with the same name replaces an earlier one.
LastNamed(members) == {i \in DOMAIN members : \A j \in i + 1 .. Len(members) : members[j].name # members[i].name}
TypeDefinition(r, o, members) ==
    LET ref(m) == IF m.class = 0 THEN Scalar ELSE RefFor(r, DataKey(m.class))
        kept == SetToSortSeq(LastNamed(members), LAMBDA i, j : i < j)
    IN  [title |-> <<"type", o>>, meta |-> 0, props |-> [k \in DOMAIN kept |-> <<members[kept[k]].name, ref(members[kept[k]])>>],
         refs |-> SelectSeq([k \in DOMAIN kept |-> ref(members[kept[k]])], LAMBDA n : n # Scalar)]

RECURSIVE RegisterLineage(_, _, _, _)
RegisterLineage(S, O, r, chain) ==
    IF chain = <<>> THEN r
    ELSE LET o == chain[1]
             inner == RegisterMembers(S, r, O.members[o])
         IN  RegisterLineage(S, O, SetDefinition(inner, <<<<"type", o>>, 1>>, TypeDefinition(inner, o, O.members[o])),
                             Tail(chain))

\* _dedupe_defs_and_rewrite_local_refs: the first of equal definitions stands for all.
Deduplicated(schema) ==
    LET defs == schema.defs
        first(i) == CHOOSE j \in 1 .. i : defs[j][2] = defs[i][2] /\ \A k \in 1 .. j - 1 : defs[k][2] # defs[i][2]
        alias(name) == IF Defined(defs, name) THEN defs[first(Find(defs, name))][1] ELSE name
        kept == SelectSeq([i \in DOMAIN defs |-> i], LAMBDA i : first(i) = i)
        rewritten(d) == [d EXCEPT !.refs = [i \in DOMAIN @ |-> alias(@[i])]]
    IN  [props |-> {<<p[1], alias(p[2])>> : p \in schema.props}, required |-> schema.required,
         allOf |-> [i \in DOMAIN schema.allOf |-> alias(schema.allOf[i])],
         defs  |-> [i \in DOMAIN kept |-> <<defs[kept[i]][1], rewritten(defs[kept[i]][2])>>]]

\* build_object_type_schema merges in the order of the lineage; what comes later wins.
BuildObjectTypeSchema(S, O, o) ==
    LET chain == Lineage(O, o)
        r == RegisterLineage(S, O, EmptyRegistry, chain)
        props(i) == ToSet(DefinitionOf(r.defs, <<<<"type", chain[i]>>, 1>>).props)
        names(i) == {p[1] : p \in props(i)}
    IN  Deduplicated(
          [props |-> UNION {{p \in props(i) : \A j \in i + 1 .. Len(chain) : p[1] \notin names(j)} : i \in DOMAIN chain},
           required |-> UNION {{m.name : m \in {m \in ToSet(O.members[chain[i]]) : m.required}} : i \in DOMAIN chain},
           allOf |-> [i \in DOMAIN chain |-> <<<<"type", chain[i]>>, 1>>],
           defs  |-> [i \in DOMAIN r.defs |-> <<r.defs[i][1],
                        [title |-> r.defs[i][2].title, meta |-> r.defs[i][2].meta, refs |-> r.defs[i][2].refs]>>]])

-----------------------------------------------------------------------------
(* One data type out of a schema                                            *)

\* _collect_transitive_defs: the names that a definition needs.
RECURSIVE TransitiveDefs(_, _, _)
TransitiveDefs(defs, pending, seen) ==
    IF pending \subseteq seen THEN {n \in seen : Defined(defs, n)}
    ELSE LET n == CHOOSE n \in pending \ seen : TRUE
         IN  TransitiveDefs(defs, pending \cup (IF Defined(defs, n) THEN ToSet(DefinitionOf(defs, n).refs) ELSE {}),
                            seen \cup {n})

\* Fault: only what the definition itself refers to comes along.
RequiredDefs_direct(defs, d) == ToSet(d.refs)
RequiredDefs(defs, d) == TransitiveDefs(defs, ToSet(d.refs), {})

\* _wrapped_value_schema: the definition moves below a name that is free.
Wrapped(defs, d) ==
    LET value == Unused(d.title, NamesOf(defs)) IN [root |-> value, defs |-> Append(defs, <<value, d>>)]

\* _synthetic_object_types_from_structure_defs for one definition: the last step keeps the
\* definitions that it needs and no others.
SyntheticSchema(schema, d) ==
    LET needed == RequiredDefs(schema.defs, d)
    IN  Wrapped(SelectSeq(schema.defs, LAMBDA p : p[1] \in needed), d)

\* Fault: the references of a reference are left as they are.
Expanded_flat(defs, name, stack) == IF name \in stack THEN {name} ELSE ToSet(DefinitionOf(defs, name).refs)
\* _expand_schema_refs: the references that stay, because they are being expanded already.
RECURSIVE Expanded(_, _, _)
Expanded(defs, name, stack) ==
    IF name \in stack THEN {name}
    ELSE UNION {Expanded(defs, ref, stack \cup {name}) : ref \in ToSet(DefinitionOf(defs, name).refs)}

\* build_data_type_schema: the definition takes the place of the reference, and its own
\* references are expanded; no definitions are kept.
BuildDataTypeSchema(S, t) ==
    LET r == Register(S, EmptyRegistry, DataKey(t), t, t)
        d == DefinitionOf(r.defs, RefFor(r, DataKey(t)))
    IN  [title |-> d.title, open |-> UNION {Expanded(r.defs, ref, {}) : ref \in ToSet(d.refs)}]
=============================================================================
