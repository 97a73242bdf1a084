-------------------------------- MODULE Browse --------------------------------
(***************************************************************************)
(* How OpcUaClient walks the server's address space: references with their  *)
(* continuation points, the tree of instances, the object types with their  *)
(* members, the supertypes of a type, and the namespaces.                   *)
(*                                                                          *)
(* Source: i3x_server/infrastructure/opcua/client.py.                       *)
(*                                                                          *)
(* A server s is one of Reads with, in addition, s.refs[n], the references  *)
(* of node n in order, and s.page, how many of them one answer may hold.    *)
(***************************************************************************)
EXTENDS Reads

\* Members of a sequence that are not in seen, each once, in order (dict.fromkeys).
Fresh(q, seen) ==
    FoldLeft(LAMBDA acc, x : IF x \in seen \/ x \in ToSet(acc) THEN acc ELSE Append(acc, x), <<>>, q)

FlattenAll(q) == FoldLeft(LAMBDA acc, x : acc \o x, <<>>, q)
Reversed(q) == [k \in 1 .. Len(q) |-> q[Len(q) + 1 - k]]

-----------------------------------------------------------------------------
(* _browse_references_descriptions                                          *)

\* Browse or BrowseNext of one node: its references from place at on, and the
\* continuation point, 0 for none.
BrowsePage(s, n, at) ==
    LET last == IF at + s.page - 1 < Len(s.refs[n]) THEN at + s.page - 1 ELSE Len(s.refs[n])
    IN  [refs |-> SubSeq(s.refs[n], at, last), point |-> IF last < Len(s.refs[n]) THEN last + 1 ELSE 0]

\* Fault: only the first BrowseNext is made.
Continue_once(s, nodes, found, points) ==
    [k \in 1 .. Len(nodes) |-> IF points[k] = 0 THEN found[k]
                               ELSE found[k] \o BrowsePage(s, nodes[k], points[k]).refs]

\* BrowseNext for the nodes that have a continuation point, until none has.
RECURSIVE Continue(_, _, _, _)
Continue(s, nodes, found, points) ==
    IF \A k \in 1 .. Len(nodes) : points[k] = 0 THEN found
    ELSE LET page(k) == BrowsePage(s, nodes[k], points[k]) IN
         Continue(s, nodes,
                  [k \in 1 .. Len(nodes) |-> IF points[k] = 0 THEN found[k] ELSE found[k] \o page(k).refs],
                  [k \in 1 .. Len(nodes) |-> IF points[k] = 0 THEN 0 ELSE page(k).point])

\* One batch after the other; the references of nodes[k] are at place k.
BrowseReferences(s, nodes, size) ==
    FlattenAll([c \in 1 .. Len(Chunks(nodes, size)) |->
        LET batch == Chunks(nodes, size)[c]
            first(k) == BrowsePage(s, batch[k], 1)
        IN  Continue(s, batch, [k \in 1 .. Len(batch) |-> first(k).refs],
                               [k \in 1 .. Len(batch) |-> first(k).point])])

-----------------------------------------------------------------------------
(* browse_tree                                                              *)

\* Fault: a node already seen is only recognised inside its batch.
Unseen_batch(batch, visited) ==
    FoldLeft(LAMBDA acc, e : IF \E k \in 1 .. Len(acc) : acc[k].node = e.node THEN acc ELSE Append(acc, e),
             <<>>, batch)
\* The entries of a batch whose node is new, also within the batch.
Unseen(batch, visited) ==
    FoldLeft(LAMBDA acc, e :
               IF e.node \in visited \/ \E k \in 1 .. Len(acc) : acc[k].node = e.node
               THEN acc ELSE Append(acc, e),
             <<>>, batch)

\* fuel ends the recursion of a faulty walk.
RECURSIVE Walk(_, _, _, _, _, _)
Walk(s, stack, visited, out, size, fuel) ==
    IF stack = <<>> \/ fuel = 0 THEN out
    ELSE LET entries == Unseen(SubSeq(stack, 1, IF size < Len(stack) THEN size ELSE Len(stack)), visited)
             rest    == SubSeq(stack, size + 1, Len(stack))
             nodes   == [k \in 1 .. Len(entries) |-> entries[k].node]
             refs    == BrowseReferences(s, nodes, size)
             infos   == NodeInfos(s, nodes)
             parent(n) == (CHOOSE e \in ToSet(entries) : e.node = n).parent
             below   == FlattenAll([k \in 1 .. Len(nodes) |->
                            [j \in 1 .. Len(refs[k]) |-> [node |-> refs[k][j], parent |-> nodes[k]]]])
         IN  Walk(s, rest \o below, visited \cup ToSet(nodes),
                  out \o [k \in 1 .. Len(infos) |-> [node |-> infos[k].node, parent |-> parent(infos[k].node)]],
                  size, fuel - 1)

\* A configured root twice is one root; the parent of a root is 0.
BrowseTree(s, roots, size, fuel) ==
    LET configured == Fresh(roots, {}) IN
    Walk(s, [k \in 1 .. Len(configured) |-> [node |-> configured[k], parent |-> 0]], {}, <<>>, size, fuel)

-----------------------------------------------------------------------------
(* _load_object_types: below the root 1, a reference to a node of s.types   *)
(* leads to an object type, another one to a member of the type.            *)

\* The members of a type; a name again replaces the earlier member.
MembersOf(s, refs) == SelectSeq(refs, LAMBDA n : n \notin s.types)
LastByName(s, members) ==
    {members[k] : k \in {k \in 1 .. Len(members) :
                           \A j \in k + 1 .. Len(members) : s.name[members[j]] # s.name[members[k]]}}

RECURSIVE WalkTypes(_, _, _, _)
WalkTypes(s, stack, found, size) ==
    IF stack = <<>> THEN found
    ELSE LET batch == SubSeq(stack, 1, IF size < Len(stack) THEN size ELSE Len(stack))
             refs  == BrowseReferences(s, batch, size)
             edges == FlattenAll([k \in 1 .. Len(batch) |->
                        [j \in 1 .. Len(refs[k]) |-> [node |-> refs[k][j], parent |-> batch[k]]]])
             known == {found[k].node : k \in 1 .. Len(found)}
             new   == Unseen(SelectSeq(edges, LAMBDA e : e.node \in s.types), known)
         IN  WalkTypes(s, SubSeq(stack, size + 1, Len(stack)) \o [k \in 1 .. Len(new) |-> new[k].node],
                       found \o new, size)

\* Every type with the type that refers to it first and its members.
ObjectTypes(s, size) ==
    LET found == WalkTypes(s, <<1>>, <<>>, size) IN
    [k \in 1 .. Len(found) |->
        [node |-> found[k].node, parent |-> found[k].parent,
         members |-> LastByName(s, MembersOf(s, BrowseReferences(s, <<found[k].node>>, size)[1]))]]

\* Fault: the data types are taken from the place of the descriptions.
MemberOffset_zero(entries, attr, k) == k
\* The place of attribute attr of the k-th entry (of the k-th variable) in one list:
\* the descriptions of all entries, then the data types and the ranks of the variables.
MemberOffset(entries, attr, k) ==
    LET variables == Len(SelectSeq(entries, LAMBDA e : e.variable)) IN
    CASE attr = "description" -> k
      [] attr = "dataType"    -> Len(entries) + k
      [] attr = "rank"        -> Len(entries) + variables + k

\* _read_object_type_members_limited: one bulk read, or when it fails a read per attribute.
MemberAttributes(s, entries) ==
    LET variables == SelectSeq(entries, LAMBDA e : e.variable)
        items == [k \in 1 .. Len(entries) |-> <<"description", entries[k].node>>]
                 \o [k \in 1 .. Len(variables) |-> <<"dataType", variables[k].node>>]
                 \o [k \in 1 .. Len(variables) |-> <<"rank", variables[k].node>>]
        bulk  == ReadPairs(s, items)
        among(attr) == IF attr = "description" THEN entries ELSE variables
        place(attr, e) == CHOOSE k \in 1 .. Len(among(attr)) : among(attr)[k] = e
        raw(attr, e) == IF bulk.ok THEN bulk.out[MemberOffset(entries, attr, place(attr, e))]
                        ELSE LET r == Read(s, <<<<attr, e.node>>>>) IN IF r.ok THEN r.out[1] ELSE Null
    IN  [e \in ToSet(entries) |->
          [attr \in {"description"} \cup (IF e.variable THEN {"dataType", "rank"} ELSE {}) |->
             IF raw(attr, e)[1] = "value" THEN raw(attr, e) ELSE Null]]

-----------------------------------------------------------------------------
(* Supertypes: up[t] are the supertypes of type t, in order                 *)

\* resolve_type_definition_hierarchies, the reading of what is not cached: the types
\* whose parents are read, and the cached chains met on the way.
RECURSIVE ReadParents(_, _, _, _)
ReadParents(up, cached, pending, read) ==
    LET open == Fresh(pending, read \cup cached) IN
    IF open = <<>> THEN read
    ELSE ReadParents(up, cached, FlattenAll([k \in 1 .. Len(open) |-> up[open[k]]]), read \cup ToSet(open))

\* Fault: a cached chain ends the walk.
Splice_alone(chains, t, stack) == [add |-> chains[t], stack |-> <<>>]
\* A cached chain is taken whole, and the walk goes on with the rest of the stack.
Splice(chains, t, stack) == [add |-> chains[t], stack |-> stack]

RECURSIVE Climb(_, _, _, _)
Climb(up, chains, stack, chain) ==
    IF stack = <<>> THEN chain
    ELSE LET t == Last(stack)
             below == Front(stack)
             cut == Splice(chains, t, below)
         IN  IF t \in ToSet(chain) THEN Climb(up, chains, below, chain)
             ELSE IF t \in DOMAIN chains
             THEN Climb(up, chains, cut.stack, chain \o Fresh(cut.add, ToSet(chain)))
             ELSE Climb(up, chains, below \o Reversed(up[t]), Append(chain, t))

\* The chains of the requested types; chains holds the cached ones.
TypeHierarchies(up, chains, requested) ==
    LET read == ReadParents(up, DOMAIN chains, requested, {}) IN
    [t \in ToSet(requested) |-> IF t \in read THEN Climb(up, chains, <<t>>, <<>>) ELSE chains[t]]

\* Fault: only the first supertype is followed.
Above_first(up, failed, t) == IF t \in failed \/ up[t] = <<>> THEN <<>> ELSE <<up[t][1]>>
\* The supertypes browsed for t; a failed browse has none.
Above(up, failed, t) == IF t \in failed THEN <<>> ELSE up[t]

\* _resolve_reference_type_chain, with the cache and the types in progress threaded
\* through; a type of failed cannot be browsed and is cached without supertypes.
RECURSIVE ReferenceChain(_, _, _, _, _)
ReferenceChain(up, failed, t, cache, busy) ==
    IF t \in DOMAIN cache THEN [names |-> cache[t], cache |-> cache]
    ELSE IF t \in busy THEN [names |-> <<>>, cache |-> cache]
    ELSE LET step(acc, p) == LET r == ReferenceChain(up, failed, p, acc.cache, busy \cup {t})
                             IN  [names |-> acc.names \o Fresh(r.names, ToSet(acc.names)), cache |-> r.cache]
             all == FoldLeft(step, [names |-> <<t>>, cache |-> cache], Above(up, failed, t))
         IN  [names |-> all.names,
              cache |-> [x \in DOMAIN all.cache \cup {t} |-> IF x = t THEN all.names ELSE all.cache[x]]]

-----------------------------------------------------------------------------
(* Namespaces: component c describes uri s.uri[c] in version s.version[c];  *)
(* s.lost are the <<c, what>> that cannot be read, and with s.down nothing.  *)

\* Fault: the names and versions of a component are matched by position.
NamespaceInfos_position(s, uris) ==
    [k \in 1 .. Len(uris) |->
        LET there == k <= Len(s.components) /\ ~s.down IN
        [uri |-> uris[k], name |-> IF there THEN s.components[k] ELSE 0,
         version |-> IF there THEN s.version[s.components[k]] ELSE 0]]
\* _load_namespace_infos: the uris of the server with the name and version of the last
\* component that names them; 0 stands for the fallback name and for no version.
NamespaceInfos(s, uris) ==
    LET named == IF s.down THEN <<>>
                 ELSE SelectSeq(s.components, LAMBDA c : <<c, "uri">> \notin s.lost)
        about(u) == SelectSeq(named, LAMBDA c : s.uri[c] = u)
        versioned(u) == SelectSeq(about(u), LAMBDA c : <<c, "version">> \notin s.lost)
        orZero(q, val(_)) == IF q = <<>> THEN 0 ELSE val(Last(q))
    IN  [k \in 1 .. Len(uris) |->
          [uri |-> uris[k],
           name |-> orZero(about(uris[k]), LAMBDA c : IF <<c, "name">> \in s.lost THEN 0 ELSE c),
           version |-> orZero(versioned(uris[k]), LAMBDA c : s.version[c])]]
=============================================================================
