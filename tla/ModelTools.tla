------------------------------ MODULE ModelTools ------------------------------
(***************************************************************************)
(* What the MCP tools compute from the cached model: pages, browse paths,   *)
(* relationship paths, subtrees, the values below a container and the       *)
(* instances of a type.                                                     *)
(*                                                                          *)
(* Source: i3x_server/mcp/model_tools.py, mcp/model_access.py,              *)
(* mcp/invocation.py.                                                       *)
(*                                                                          *)
(* A model t is a record: nodes 1 .. t.size, the parents hier[n] and        *)
(* comp[n] of the two planes (0 for none), the relations graph as pairs,    *)
(* name[n] and kind[n].  A name is a number: it stands for the text, and    *)
(* nodes may share it.                                                      *)
(***************************************************************************)
EXTENDS Browse

NodesOf(t) == 1 .. t.size
Ascending(S) == SetToSortSeq(S, LAMBDA a, b : a < b)

-----------------------------------------------------------------------------
(* Pages                                                                    *)

\* Fault: a full last page announces another one.
PageOf_extra(items, limit, offset) ==
    LET last == IF offset + limit < Len(items) THEN offset + limit ELSE Len(items)
    IN  [items |-> SubSeq(items, offset + 1, last), next |-> IF offset + limit <= Len(items) THEN last ELSE 0]
\* _page, _paginate_mcp_list, _pagination: a slice, and where the next one starts (0: nowhere).
PageOf(items, limit, offset) ==
    LET last == IF offset + limit < Len(items) THEN offset + limit ELSE Len(items)
        page == SubSeq(items, offset + 1, last)
    IN  [items |-> page, next |-> IF offset + Len(page) < Len(items) THEN offset + Len(page) ELSE 0]

-----------------------------------------------------------------------------
(* Browse paths                                                             *)

\* _parent: the hierarchy parent, otherwise the composition parent.
ParentOf(t, n) == IF t.hier[n] # 0 THEN t.hier[n] ELSE t.comp[n]

\* _segments: the names from the top to n; <<0>> is the error of a cyclic chain.
RECURSIVE Segments(_, _, _)
Segments(t, n, visited) ==
    IF n = 0 THEN <<>>
    ELSE IF n \in visited THEN <<0>>
    ELSE LET above == Segments(t, ParentOf(t, n), visited \cup {n})
         IN  IF above = <<0>> THEN above ELSE Append(above, t.name[n])

BrowsePath(t, n) == Segments(t, n, {})

\* _validate_parent_chains: no chain of the model may be cyclic.
ValidChains(t) == \A n \in NodesOf(t) : BrowsePath(t, n) # <<0>>

\* One segment: the children of the candidates that have its name.
RECURSIVE Matches(_, _, _)
Matches(t, segments, parents) ==
    IF segments = <<>> THEN parents
    ELSE LET here == {n \in NodesOf(t) : ParentOf(t, n) \in parents /\ t.name[n] = segments[1]}
         IN  IF here = {} THEN {} ELSE Matches(t, Tail(segments), here)

\* Fault: the first of several matches is taken.
ResolvePath_first(t, segments) ==
    LET found == Matches(t, segments, {0})
    IN  IF ~ValidChains(t) THEN <<"error">>
        ELSE IF found = {} THEN <<"none">> ELSE <<"found", CHOOSE n \in found : \A k \in found : n <= k>>
\* resolveBrowsePath: the element of a path, or why there is none.
ResolvePath(t, segments) ==
    LET found == Matches(t, segments, {0})
    IN  IF ~ValidChains(t) THEN <<"error">>
        ELSE IF Cardinality(found) > 1 THEN <<"ambiguous">>
        ELSE IF found = {} THEN <<"none">> ELSE <<"found", CHOOSE n \in found : TRUE>>

-----------------------------------------------------------------------------
(* Relationship paths: both ends of a relation carry it                     *)

\* _relationship_plane, and the relations of the wanted planes
Neighbors(t, planes, n) ==
    LET pairs == (IF "hierarchy" \in planes THEN {<<t.hier[c], c>> : c \in NodesOf(t)} ELSE {})
                 \cup (IF "composition" \in planes THEN {<<t.comp[c], c>> : c \in NodesOf(t)} ELSE {})
                 \cup (IF "graph" \in planes THEN t.graph ELSE {})
    IN  Ascending(({p[2] : p \in {p \in pairs : p[1] = n}} \cup {p[1] : p \in {p \in pairs : p[2] = n}}) \ {0})

NotFound(truncated) == [found |-> FALSE, truncated |-> truncated, path |-> <<>>]

\* Fault: one level more than asked for.
TooDeep_one(depth, maxDepth) == depth > maxDepth
TooDeep(depth, maxDepth) == depth >= maxDepth

\* The breadth-first search; an entry of the queue is a path.  The search ends with
\* the neighbor that fills maxNodes.
RECURSIVE Search(_, _, _, _, _)
Search(t, q, queue, visited, truncated) ==
    IF queue = <<>> THEN NotFound(truncated)
    ELSE LET path == queue[1]
             at   == Last(path)
             new  == SelectSeq(Neighbors(t, q.planes, at), LAMBDA n : n \notin visited)
             room == q.maxNodes - Cardinality(visited)
             seen == SubSeq(new, 1, IF room < Len(new) THEN room ELSE Len(new))
         IN  IF at = q.target THEN [found |-> TRUE, truncated |-> FALSE, path |-> path]
             ELSE IF TooDeep(Len(path) - 1, q.maxDepth)
             THEN Search(t, q, Tail(queue), visited, truncated \/ new # <<>>)
             ELSE IF q.target \in ToSet(seen)
             THEN [found |-> TRUE, truncated |-> FALSE, path |-> Append(path, q.target)]
             ELSE IF Len(new) >= room /\ new # <<>> THEN NotFound(TRUE)
             ELSE Search(t, q, Tail(queue) \o [k \in 1 .. Len(seen) |-> Append(path, seen[k])],
                         visited \cup ToSet(seen), truncated)

\* _trace_relationship_path
TracePath(t, q) == Search(t, q, <<<<q.source>>>>, {q.source}, FALSE)

-----------------------------------------------------------------------------
(* Subtrees                                                                 *)

\* _subtree_child_edges
ChildEdges(t, n) == Ascending({c \in NodesOf(t) : t.hier[c] = n}) \o Ascending({c \in NodesOf(t) : t.comp[c] = n})

\* Fault: what lies below the depth limit is not reported.
DepthCut_silent(acc, edges) == acc
DepthCut(acc, edges) == [acc EXCEPT !.truncated = @ \/ edges # <<>>]

\* visit; acc holds the nodes included, how often nodes were counted, and truncated.
\* The loop over the children of a node, at place k of its edges, is part of it.
RECURSIVE Visit(_, _, _, _, _)
RECURSIVE VisitChildren(_, _, _, _, _, _)
Visit(t, q, n, path, acc) ==
    LET counted == [acc EXCEPT !.included = @ \cup {n}, !.counted = @ + 1]
        edges == ChildEdges(t, n)
    IN  IF Len(path) - 1 >= q.maxDepth THEN DepthCut(counted, edges)
        ELSE VisitChildren(t, q, edges, 1, path, counted)
VisitChildren(t, q, edges, k, path, acc) ==
    IF k > Len(edges) THEN acc
    ELSE LET c == edges[k] IN
         IF c \in ToSet(path) \/ t.kind[c] \in q.without
         THEN VisitChildren(t, q, edges, k + 1, path, acc)
         ELSE IF Cardinality(acc.included) >= q.maxNodes THEN [acc EXCEPT !.truncated = TRUE]
         ELSE VisitChildren(t, q, edges, k + 1, path, Visit(t, q, c, Append(path, c), acc))

\* _summarize_subtree
Subtree(t, q) == Visit(t, q, q.root, <<q.root>>, [included |-> {}, counted |-> 0, truncated |-> FALSE])

-----------------------------------------------------------------------------
(* Values below a container, and the properties of a composition            *)

\* The loop of _invoke_container_values: the properties below in depth-first order,
\* children_by_id being below[n].  <<0>> is the error of a subtree too large.
RECURSIVE PropertiesBelow(_, _, _, _, _)
PropertiesBelow(t, below, pending, visited, maxNodes) ==
    IF pending = <<>> THEN <<>>
    ELSE LET n == pending[1]
             rest(next) == PropertiesBelow(t, below, next, visited \cup {n}, maxNodes)
         IN  IF n \in visited THEN PropertiesBelow(t, below, Tail(pending), visited, maxNodes)
             ELSE IF Cardinality(visited) >= maxNodes THEN <<0>>
             ELSE IF t.kind[n] = "property"
             THEN LET after == rest(Tail(pending)) IN IF after = <<0>> THEN after ELSE <<n>> \o after
             ELSE rest(below[n] \o Tail(pending))

\* Fault: results are matched with properties by place.
ResultOf_place(results, page, k) == IF k <= Len(results) THEN results[k] ELSE <<0, "none">>
\* values_by_id: a result is matched by its element id.
ResultOf(results, page, k) ==
    IF \E j \in 1 .. Len(results) : results[j][1] = page[k]
    THEN results[CHOOSE j \in 1 .. Len(results) : results[j][1] = page[k]] ELSE <<page[k], "none">>

\* _invoke_container_values for one page: the value endpoint is asked in batches, and may
\* leave an element out (absent).
ContainerPage(t, below, q, offset) ==
    LET all  == PropertiesBelow(t, below, <<q.root>>, {}, q.maxNodes)
        page == PageOf(all, q.limit, offset)
        answers(batch) == SelectSeq([k \in 1 .. Len(batch) |-> <<batch[k], "value">>],
                                    LAMBDA r : r[1] \notin q.absent)
        results == FlattenAll([c \in 1 .. Len(Chunks(page.items, q.batch)) |->
                                 answers(Chunks(page.items, q.batch)[c])])
    IN  IF all = <<0>> THEN [items |-> <<<<0, "large">>>>, next |-> 0]
        ELSE [items |-> [k \in 1 .. Len(page.items) |-> ResultOf(results, page.items, k)], next |-> page.next]

\* Fault: only the direct components.
ComposedBelow_children(t, pending, visited) == visited \cup {c \in NodesOf(t) : t.comp[c] \in pending}
\* getCompositionProperties: everything composed below root, properties of properties too.
RECURSIVE ComposedBelow(_, _, _)
ComposedBelow(t, pending, visited) ==
    LET more == {c \in NodesOf(t) : t.comp[c] \in pending} \ visited
    IN  IF pending = {} THEN visited ELSE ComposedBelow(t, more, visited \cup more)

CompositionProperties(t, root) ==
    {n \in ComposedBelow(t, {root}, {root}) \ {root} : t.kind[n] = "property"}

-----------------------------------------------------------------------------
(* _type_indexes: up[k] is the parent of type k (0 for none), of[n] the     *)
(* type of object n                                                         *)

\* Fault: only the direct supertype gets the instances.
Supertypes_direct(up, k, visited) == {up[k]} \ {0}
\* The supertypes of k, or {0} when they form a cycle.
RECURSIVE Supertypes(_, _, _)
Supertypes(up, k, visited) ==
    IF up[k] = 0 THEN {}
    ELSE IF up[k] \in visited THEN {0}
    ELSE {up[k]} \cup Supertypes(up, up[k], visited \cup {up[k]})

\* The instances of type k with those of its subtypes; {0} when a hierarchy is cyclic.
InstancesOf(up, of, k) ==
    LET above == [j \in DOMAIN up |-> Supertypes(up, j, {j})]
    IN  IF \E j \in DOMAIN up : 0 \in above[j] THEN {0}
        ELSE {n \in DOMAIN of : of[n] = k \/ k \in above[of[n]]}
=============================================================================
