----------------------------- MODULE ObjectAccess -----------------------------
(***************************************************************************)
(* What the REST interface reads for an object: its value and history with  *)
(* those of its components, and the nodes that a registered object stands   *)
(* for.                                                                     *)
(*                                                                          *)
(* Source: i3x_server/api/v1/object_value_routes.py, monolithic.py,         *)
(* infrastructure/subscriptions/service.py.                                 *)
(***************************************************************************)
EXTENDS ModelTools

-----------------------------------------------------------------------------
(* Values: w is a model [size, kind, comp, tree, name, type, source];       *)
(* tree[n] is the node n was browsed from.  name, type and source are texts *)
(* as element ids are: one text can be the id of a node, the name of        *)
(* another and the type of a third.                                         *)

\* Fault: a name is looked for before an element id.
FindNode_name(w, text) ==
    LET named == {n \in 1 .. w.size : w.name[n] = text}
    IN  IF named # {} THEN CHOOSE n \in named : \A k \in named : n <= k
        ELSE IF text \in 1 .. w.size THEN text ELSE 0
\* _find_model_node: by element id, name, type, source; the first one of several.
FindNode(w, text) ==
    LET first(S) == CHOOSE n \in S : \A k \in S : n <= k
        named == {n \in 1 .. w.size : w.name[n] = text}
        typed == {n \in 1 .. w.size : w.type[n] = text}
        from == {n \in 1 .. w.size : w.source[n] = text}
    IN  IF text \in 1 .. w.size THEN text
        ELSE IF named # {} THEN first(named)
        ELSE IF typed # {} THEN first(typed)
        ELSE IF from # {} THEN first(from)
        ELSE 0

\* A depth of 0 is no limit.
WithinDepth(maxDepth, depth) == maxDepth = 0 \/ depth < maxDepth

\* The queue of _collect_value_component_nodes; properties are not searched further.
RECURSIVE Components(_, _, _, _)
Components(w, queue, visited, maxDepth) ==
    IF queue = <<>> THEN <<>>
    ELSE LET n == queue[1][1]
             depth == queue[1][2]
             below == Ascending({c \in 1 .. w.size : w.comp[c] = n})
             next == SelectSeq(below, LAMBDA c : w.kind[c] # "property")
         IN  IF n \in visited THEN Components(w, Tail(queue), visited, maxDepth)
             ELSE IF ~WithinDepth(maxDepth, depth) THEN Components(w, Tail(queue), visited \cup {n}, maxDepth)
             ELSE SelectSeq(below, LAMBDA c : w.kind[c] = "property")
                  \o Components(w, Tail(queue) \o [k \in 1 .. Len(next) |-> <<next[k], depth + 1>>],
                                visited \cup {n}, maxDepth)

\* _collect_value_component_nodes
ValueComponents(w, root, maxDepth) ==
    IF maxDepth = 1 THEN <<>> ELSE Components(w, <<<<root, 0>>>>, {}, maxDepth)

\* _vqt_from_data_value with _normalize_quality; value 0 is null.
Vqt(data) ==
    LET quality == IF data.status = "none" THEN "Good" ELSE data.status
    IN  [value |-> data.value, quality |-> IF data.value = 0 /\ quality # "Bad" THEN "GoodNoData" ELSE quality]
NoData == [value |-> 0, quality |-> "GoodNoData"]

\* The nodes read for one object: itself when it is a property, and its components.
ReadFor(w, n, maxDepth) ==
    (IF w.kind[n] = "property" THEN <<n>> ELSE <<>>) \o ValueComponents(w, n, maxDepth)

\* query_last_known_values_v1: data[n] is the answer for node n of the one bulk read;
\* results in the order of the request, 0 for an object that is not found.
ObjectValues(w, texts, maxDepth, data) ==
    LET found == [k \in 1 .. Len(texts) |-> FindNode(w, texts[k])]
        ids == FlattenAll([k \in 1 .. Len(texts) |->
                              IF found[k] = 0 THEN <<>> ELSE ReadFor(w, found[k], maxDepth)])
        answers == [k \in 1 .. Len(ids) |-> data[ids[k]]]
        valueOf(n) == IF n \in ToSet(ids) THEN Vqt(answers[CHOOSE k \in 1 .. Len(ids) : ids[k] = n]) ELSE NoData
    IN  [k \in 1 .. Len(texts) |->
            IF found[k] = 0 THEN <<>>
            ELSE <<valueOf(found[k]),
                   {<<c, valueOf(c)>> : c \in ToSet(ValueComponents(w, found[k], maxDepth))}>>]

\* Fault: the rows stay as they were read.
SortedRows_asRead(rows) == rows
SortedRows(rows) == SortSeq(rows, LAMBDA a, b : a < b)

\* query_historical_values_v1: rows[n] are the rows of one history read, each node asked
\* for once; an object without a property has no history.
ObjectHistories(w, texts, maxDepth, rows) ==
    LET sorted(n) == SortedRows(rows[n]) IN
    [k \in 1 .. Len(texts) |->
        LET n == FindNode(w, texts[k]) IN
        IF n = 0 THEN <<"notFound">>
        ELSE IF ReadFor(w, n, maxDepth) = <<>> THEN <<"noHistory">>
        ELSE <<IF w.kind[n] = "property" THEN sorted(n) ELSE <<>>,
               {<<c, sorted(c)>> : c \in ToSet(ValueComponents(w, n, maxDepth))}>>]

\* Fault: the depth of an object counts its first level of nodes.
TreeLimit_level(maxDepth, depth) == maxDepth = 0 \/ depth + 1 < maxDepth
TreeLimit(maxDepth, depth) == maxDepth = 0 \/ depth < maxDepth

\* The queue of _collect_property_source_mappings: along the tree, not the composition.
RECURSIVE PropertiesInTree(_, _, _)
PropertiesInTree(w, queue, maxDepth) ==
    IF queue = <<>> THEN {}
    ELSE LET n == queue[1][1]
             depth == queue[1][2]
             below == Ascending({c \in 1 .. w.size : w.tree[c] = n})
         IN  IF w.kind[n] = "property" THEN {n} \cup PropertiesInTree(w, Tail(queue), maxDepth)
             ELSE IF ~TreeLimit(maxDepth, depth) THEN PropertiesInTree(w, Tail(queue), maxDepth)
             ELSE PropertiesInTree(w, Tail(queue) \o [k \in 1 .. Len(below) |-> <<below[k], depth + 1>>], maxDepth)

\* _resolve_monitored_node_ids: <<node to monitor, object that is told>>; a text that is
\* neither id nor source is monitored as it is.
MonitoredNodes(w, registered) ==
    UNION {LET text == r[1]
               from == {n \in 1 .. w.size : w.source[n] = text}
               n == IF text \in 1 .. w.size THEN text ELSE IF from = {} THEN 0 ELSE CHOOSE k \in from : TRUE
           IN  IF n = 0 THEN {<<text, text>>}
               ELSE {<<w.source[p], p>> : p \in PropertiesInTree(w, <<<<n, 0>>>>, r[2])} : r \in registered}

=============================================================================
