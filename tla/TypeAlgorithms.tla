---------------------------- MODULE TypeAlgorithms ----------------------------
(***************************************************************************)
(* The schemas and the object types offered for a model, compared with what *)
(* they are meant to be for every input up to a bound.                      *)
(***************************************************************************)
EXTENDS Algorithms, TypeSchemas, TypeContext

-----------------------------------------------------------------------------
(* Schemas                                                                  *)

Member(name, class, required) == [name |-> name, class |-> class, required |-> required]

DoSchema ==
    Idle("schema") /\ \E first \in BoundedSeq(1 .. 3, 2), second, third \in BoundedSeq(1 .. 3, 1),
       titles \in {1} \X {1, 2} \X {1, 3}, canon \in {<<0, 0, 0>>, <<1, 1, 0>>, <<0, 1, 1>>},
       parent \in {<<0, 1>>, <<2, 1>>},
       lower \in {<<Member("a", 2, TRUE)>>, <<Member("b", 2, FALSE), Member("c", 3, TRUE), Member("b", 0, TRUE)>>} :
      Run([S |-> [fields |-> <<first, second, third>>, title |-> [t \in 1 .. 3 |-> <<"class", titles[t]>>], canon |-> canon],
           O |-> [parent |-> parent, members |-> <<<<Member("a", 1, FALSE), Member("b", 3, TRUE)>>, lower>>]])

\* The definition called name describes class t, or one that counts as the same, down to a depth.
RECURSIVE Describes(_, _, _, _, _)
Describes(S, defs, name, t, depth) ==
    /\ Defined(defs, name)
    /\ \E u \in {t} \cup {u \in DOMAIN S.canon : S.canon[u] # 0 /\ S.canon[u] = S.canon[t]} :
         LET d == DefinitionOf(defs, name) IN
         /\ d.title = S.title[u] /\ Len(d.refs) = Len(S.fields[u])
         /\ depth > 0 => \A i \in DOMAIN d.refs : Describes(S, defs, d.refs[i], S.fields[u][i], depth - 1)

Closed(defs) == \A p \in ToSet(defs) : ToSet(p[2].refs) \subseteq NamesOf(defs)

\* The member that counts: the last one of its name, of the lowest type that has it.
AllMembers(O, o) == [i \in DOMAIN Lineage(O, o) |-> O.members[Lineage(O, o)[i]]]
Effective(O, o, name) ==
    LET all == SelectSeq(FlattenSeq(AllMembers(O, o)), LAMBDA m : m.name = name) IN all[Len(all)]

\* q is the schema of object type o: see SchemasFaithful.
IsSchemaOf(S, O, o, q) ==
    LET names == {m.name : m \in ToSet(FlattenSeq(AllMembers(O, o)))} IN
    /\ Closed(q.defs) /\ ToSet(q.allOf) \subseteq NamesOf(q.defs) /\ q.required \subseteq names
    /\ {p[1] : p \in q.props} = names /\ Cardinality(q.props) = Cardinality(names)
    /\ \A p \in q.props :
         LET m == Effective(O, o, p[1]) IN
         IF m.class = 0 THEN p[2] = Scalar ELSE Describes(S, q.defs, p[2], m.class, 3)

\* Whatever classes contain each other, share a name or count as one, and whatever the
\* supertypes define: the schema of an object type has one property for each name of a
\* member, that of the lowest type; each reference leads to the definition of the class it
\* stands for, all the way down, although equal definitions were merged; and every
\* required name is a property.
SchemasFaithful ==
    Ran("schema") =>
      \A o \in 1 .. 2 : IsSchemaOf(input.S, input.O, o, BuildObjectTypeSchema(input.S, input.O, o))

\* w is a schema by itself, of class t.
StandsAlone(S, w, t) ==
    /\ Closed(w.defs) /\ Cardinality(NamesOf(w.defs)) = Len(w.defs)
    /\ Describes(S, w.defs, w.root, t, 3)
\* Every structure registered in the schema q can be cut out of it.
CutsOut(S, q) == \A p \in {p \in ToSet(q.defs) : p[2].meta # 0} : StandsAlone(S, SyntheticSchema(q, p[2]), p[2].meta)

\* The type made of a structure inside a schema brings along every definition it needs and
\* still describes that structure, under a name that none of them has.
SyntheticSelfContained ==
    Ran("schema") => CutsOut(input.S, BuildObjectTypeSchema(input.S, input.O, 2))

\* The classes that t contains.
RECURSIVE ContainedIn(_, _)
ContainedIn(S, seen) ==
    LET more == seen \cup UNION {ToSet(S.fields[t]) : t \in seen} IN IF more = seen THEN seen ELSE ContainedIn(S, more)

\* The schema of a data type by itself has no reference left, unless a class in it contains
\* itself or one that counts as the same.
DataTypeExpanded ==
    Ran("schema") =>
      \A t \in 1 .. 3 :
        LET S == input.S
            same(u) == {v \in 1 .. 3 : v = u \/ (S.canon[u] # 0 /\ S.canon[v] = S.canon[u])}
            inside(u) == ContainedIn(S, ToSet(S.fields[u]))
        IN  BuildDataTypeSchema(S, t).open # {} =>
              \E u \in ContainedIn(S, {t}) : \E v \in same(u) : inside(u) \cap same(v) # {}

-----------------------------------------------------------------------------
(* Object types of a model                                                  *)

Num    == <<"ns", 1, "num", "plain">>
Str    == <<"ns", 1, "str", "plain">>
UpperStr == <<"nsu", "own", "str", "upper">>
Lost   == <<"ns", 2, "num", "plain">>
OtherNum == <<"ns", 3, "num", "plain">>
NullType == <<"ns", 0, "null", "plain">>
StandardTypes == {<<"ns", 0, v, "plain">> : v \in {"builtin", "odd"}}

\* The builder leaves out the type of an asset when it is null.
ModelNodes ==
    [kind : {"property"}, type : {<<>>, NullType, Num, Str, UpperStr, Lost, OtherNum} \cup StandardTypes]
    \cup [kind : {"asset"}, type : {<<>>, Num, Str, UpperStr, Lost, OtherNum, <<"ns", 0, "odd", "plain">>}]

DoTypes ==
    Idle("types") /\ \E a, b \in ModelNodes, c \in {[kind |-> "asset", type |-> Num], [kind |-> "property", type |-> Str]},
       types \in {<<>>, <<[id |-> Str, members |-> {Num}, structures |-> <<>>]>>,
                  <<[id |-> Num, members |-> {Str}, structures |-> <<Str, UpperStr>>]>>},
       answers \in {<<TRUE, FALSE>>, <<FALSE, TRUE>>, <<FALSE, FALSE>>},
       up \in {<<"custom">>, <<"custom", "abstract">>, <<"abstract", "concrete">>},
       known \in BOOLEAN, budget \in 0 .. 1 :
      LET table == <<"own", "", "third">>
          uris == [i \in {1, 3} |-> table[i]]
          ids == {ExpandedTypeId(uris, t) : t \in {Num, Str, UpperStr, Lost, OtherNum}}
      IN  Run([table |-> uris, nodes |-> <<a, b, c>>, types |-> types,
               classes |-> IF known THEN {ExpandedTypeId(uris, Num)} ELSE {},
               many |-> IF answers[1] THEN ids ELSE {}, one |-> IF answers[2] THEN ids ELSE {},
               up |-> [t \in ids |-> up], names |-> IF known THEN ids ELSE {}, budget |-> budget])

\* Every object has a type that is offered, under the id it is offered with, whatever the
\* type is and however it is written; one type is not offered twice; what has a namespace
\* is not offered as unknown; and no more names are read than allowed.
TypesRegistered ==
    Ran("types") =>
      LET b == BuildContext(input)
          items == b.items
          type(n) == ResolvedTypeId(input, items, n)
          written(n) == SourceKey(PropertyType(input, n))
      IN  /\ \A n \in ToSet(input.nodes) : \E k \in DOMAIN items : items[k].id = type(n)
          /\ \A m, n \in {n \in ToSet(input.nodes) : n.kind = "property" /\ n.type # <<>>} :
               written(m) = written(n) => type(m) = type(n)
          /\ \A j, k \in DOMAIN items : items[j].id = items[k].id => j = k
          /\ \A k \in DOMAIN items : items[k].how = "unknown" => items[k].source[1] # "nsu"
          /\ b.left >= 0

\* A custom data type of a property is offered as the standard type it is derived from,
\* the nearest that is not abstract, also when the batch that asks for the supertypes
\* fails and only single requests are answered.
CustomTypesResolved ==
    Ran("types") =>
      LET items == BuildContext(input).items IN
      \A n \in {n \in ToSet(input.nodes) : n.kind = "property" /\ n.type # <<>>} :
        LET t == PropertyType(input, n)
            answered == t \in (input.many \cup input.one) /\ t[1] = "nsu"
            standard == SelectSeq(input.up[t], LAMBDA s : s # "custom")
            item == CHOOSE i \in ToSet(items) : i.id = ResolvedTypeId(input, items, n)
        IN  answered /\ standard # <<>> /\ item.how \notin {"type", "structure"} =>
              item.how = IF "concrete" \in ToSet(standard) THEN "concrete" ELSE "abstract"

\* Schemas and the types that are offered describe what the server has (the parts above).
TypesFaithful ==
    /\ SchemasFaithful /\ SyntheticSelfContained /\ DataTypeExpanded
    /\ TypesRegistered /\ CustomTypesResolved

-----------------------------------------------------------------------------

TypeTasks == {"schema", "types"}
TypeNext == DoSchema \/ DoTypes
=============================================================================
