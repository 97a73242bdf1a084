------------------------------ MODULE Algorithms ------------------------------
(***************************************************************************)
(* The access to the address space and the tools on the model, compared     *)
(* with what they are meant to compute for every input up to a bound.       *)
(* ApiAlgorithms adds what the REST and MCP interfaces make of the model.   *)
(***************************************************************************)
EXTENDS ModelAlgorithms, ModelTools

CONSTANTS
    MaxItems       \* bound of the model: nodes in one request

ASSUME AlgorithmsAssumption == MaxItems \in Nat \ {0}

AccessTasks ==
         {"read", "history", "browse", "objectTypes", "members", "supertypes", "namespaces", "build", "classify",
          "page", "browsePath", "path", "subtree", "container", "instances"}

UpTo(k, S) == {T \in SUBSET S : Cardinality(T) <= k}

-----------------------------------------------------------------------------
(* Reads                                                                    *)

ReadItems == 1 .. MaxItems

\* Servers that accept less than they advertise, time out on a node, or send answers
\* that cannot be decoded; ids of a request may repeat.
DoRead ==
    Idle("read") /\ \E n \in 0 .. MaxItems, twice \in BOOLEAN, limit \in ReadItems, adv \in 0 .. MaxItems,
       poison \in UpTo(2, ReadItems), dead \in UpTo(1, ReadItems), short \in BOOLEAN :
      Run([items |-> [k \in 1 .. n |-> IF twice /\ k = n THEN 1 ELSE k],
                   s |-> [limit |-> limit, adv |-> adv, poison |-> poison, dead |-> dead,
                          bad |-> {2} \ poison, short |-> short]])

DoHistory ==
    Idle("history") /\ \E n \in 0 .. 3, limit \in 1 .. 2, adv \in 0 .. 2, dead \in UpTo(1, 1 .. 3),
       pages \in [1 .. 3 -> 1 .. 2], ends \in [1 .. 3 -> {"good", "nodata", "bad"}] :
      Run([items |-> [k \in 1 .. n |-> k],
                      s |-> [limit |-> limit, adv |-> adv, dead |-> dead,
                             pages |-> pages, ends |-> ends]])

\* The list a value read returns has one entry per node asked for, in order, and a node
\* that spoils its batch, by a timeout or an answer that cannot be decoded, costs no other
\* node its value: read_values never fails and has null for it; read_data_values has a
\* Bad value for it, or fails if and only if a node timed out.
ReadsAligned ==
    Ran("read") =>
      LET s == input.s
          items == input.items
          good(i) == i \notin s.poison \cup s.dead
          plain == [s EXCEPT !.short = FALSE]
          values == ReadValues(plain, items)
          data == ReadDataValues(s, items)
      IN  /\ values = Good([k \in 1 .. Len(items) |->
                              IF good(items[k]) THEN Answer(s, items[k]) ELSE Null])
          /\ data.ok <=> ToSet(items) \cap s.dead = {}
          /\ data.ok => data.out = [k \in 1 .. Len(items) |->
                              IF good(items[k]) THEN Answer(s, items[k]) ELSE BadNull]

\* A bulk read of attributes either fails or has the attribute of the right node at every
\* place, whatever number of operations the server accepts.
AttributesAligned ==
    Ran("read") =>
      LET r == ReadPairs(input.s, input.items)
          t == ReadLimited([input.s EXCEPT !.short = FALSE], input.items, BatchSize(input.s, input.items))
          want == [k \in 1 .. Len(input.items) |-> Answer(input.s, input.items[k])]
          clean == ToSet(input.items) \cap (input.s.poison \cup input.s.dead) = {}
      IN  /\ r.ok => r.out = want
          /\ t.ok <=> clean
          /\ t.ok => t.out = want
          /\ clean /\ ~input.s.short => r.ok

\* Every node that can be read on its own is in the result of a metadata read exactly
\* once and with its own attributes, and no other is: a batch that failed loses no node of the model, and an answer
\* with too few results gives no node the attributes of another.
NodeInfosComplete ==
    Ran("read") /\ IsInjective(input.items) =>
      LET s == input.s
          out == NodeInfos(s, input.items)
          nodes == [k \in 1 .. Len(out) |-> out[k].node]
      IN  /\ IsInjective(nodes)
          /\ \A k \in 1 .. Len(out) : out[k].attributes = Value(nodes[k])
          /\ ToSet(nodes) = IF s.short THEN {} ELSE ToSet(input.items) \ (s.poison \cup s.dead \cup s.bad)

\* A history read follows every continuation point of every node, each with its own,
\* also when the server makes the client split a request in the middle of the pages.
HistoryComplete ==
    Ran("history") =>
      LET s == input.s
          nodes == ToSet(input.items)
          r == ReadHistory(s, input.items)
          all(i) == IF s.ends[i] = "nodata" THEN <<>> ELSE [n \in 1 .. s.pages[i] |-> Page(i, n)]
      IN  /\ r.ok <=> \A i \in nodes : i \notin s.dead /\ s.ends[i] # "bad"
          /\ r.ok => r.out = [i \in nodes |-> all(i)]

\* Reads and history reads bring every value, each to its own node (the parts above).
ReadsComplete == ReadsAligned /\ AttributesAligned /\ NodeInfosComplete /\ HistoryComplete

-----------------------------------------------------------------------------
(* Browse                                                                   *)

Nodes3 == 1 .. 3
Lists(S) == {SetToSortSeq(T, LAMBDA a, b : a < b) : T \in SUBSET S}

\* What can be reached from S along the sequences refs[n].
Reach(refs, S) ==
    LET step(R) == R \cup UNION {ToSet(refs[n]) : n \in R} IN step(step(step(S)))

DoBrowse ==
    Idle("browse") /\ \E refs \in [Nodes3 -> Lists(Nodes3)], page \in 1 .. 2, size \in 1 .. 2,
       roots \in {<<1>>, <<2, 1>>, <<1, 3, 1>>}, bad \in UpTo(1, Nodes3) :
      Run([roots |-> roots, size |-> size,
                     s |-> [refs |-> refs, page |-> page, limit |-> 4, adv |-> 4, poison |-> {},
                            dead |-> {}, bad |-> bad, short |-> FALSE]])

\* Object types 2 and 3 below the root 1, with members 4 and 5.
DoObjectTypes ==
    Idle("objectTypes") /\ \E one, two, three \in Lists({2, 3, 4, 5}), page \in 1 .. 2, size \in 1 .. 2, same \in BOOLEAN :
      Run([size |-> size,
          s |-> [refs |-> <<one, two, three>>, page |-> page, types |-> {1, 2, 3},
                 name |-> [m \in {4, 5} |-> IF same THEN 4 ELSE m]]])

MemberKeys == {"description", "dataType", "rank"} \X (1 .. 2)

DoMembers ==
    Idle("members") /\ \E variable \in [1 .. 2 -> BOOLEAN], limit \in 1 .. 3, adv \in {0, 2}, poison \in UpTo(1, MemberKeys),
       bad \in UpTo(1, MemberKeys) :
      Run([entries |-> [k \in 1 .. 2 |-> [node |-> k, variable |-> variable[k]]],
                      s |-> [limit |-> limit, adv |-> adv, poison |-> poison, dead |-> {},
                             bad |-> bad, short |-> FALSE]])

DoSupertypes ==
    Idle("supertypes") /\ \E up \in [Nodes3 -> Lists(Nodes3)], cached \in SUBSET Nodes3, failed \in UpTo(1, Nodes3),
       requested \in {<<1>>, <<2, 1>>, <<3, 1, 2>>} :
      Run([up |-> up, cached |-> cached, failed |-> failed, requested |-> requested])

DoNamespaces ==
    Idle("namespaces") /\ \E uri \in [1 .. 2 -> 1 .. 2], lost \in UpTo(2, (1 .. 2) \X {"uri", "version", "name"}), down \in BOOLEAN :
      Run([components |-> <<1, 2>>, uri |-> uri, version |-> <<7, 8>>, lost |-> lost, down |-> down])

\* The nodes of out are those within reach of the roots that can be read, each once and
\* after its parent, which refers to it.
IsTreeOf(s, roots, out) ==
    LET nodes == [k \in 1 .. Len(out) |-> out[k].node] IN
    /\ IsInjective(nodes)
    /\ ToSet(nodes) = Reach(s.refs, ToSet(roots)) \ s.bad
    /\ \A k \in 1 .. Len(out) :
         IF out[k].node \in ToSet(roots) THEN out[k].parent = 0
         ELSE /\ out[k].node \in ToSet(s.refs[out[k].parent])
              /\ out[k].parent \in s.bad \/ \E j \in 1 .. k - 1 : out[j].node = out[k].parent

\* The instance tree holds every readable node that hierarchical references lead to from
\* the roots exactly once, whatever the batches and pages, in cyclic address spaces too;
\* a configured root has no parent, and every other node one that refers to it.
TreeComplete ==
    Ran("browse") => IsTreeOf(input.s, input.roots, BrowseTree(input.s, input.roots, input.size, 20))

\* out has the types below the root, each once, under one that refers to it, with a
\* member for each of its names.
AreTypesOf(s, out) ==
    LET below == [n \in 1 .. 3 |-> SelectSeq(s.refs[n], LAMBDA m : m \in s.types)] IN
    /\ {out[k].node : k \in 1 .. Len(out)} = UNION {ToSet(below[n]) : n \in Reach(below, {1})}
    /\ IsInjective([k \in 1 .. Len(out) |-> out[k].node])
    /\ \A k \in 1 .. Len(out) :
         /\ out[k].node \in ToSet(s.refs[out[k].parent])
         /\ {s.name[m] : m \in out[k].members} = {s.name[m] : m \in ToSet(s.refs[out[k].node]) \ s.types}
         /\ \A m, n \in out[k].members : m # n => s.name[m] # s.name[n]

\* Every object type is found once, and has a member for each declared name.
ObjectTypesComplete == Ran("objectTypes") => AreTypesOf(input.s, ObjectTypes(input.s, input.size))

\* Each member has its own description, data type and rank, from the one bulk read as
\* from the single reads, and lacks only what the server cannot give.
MembersAligned ==
    Ran("members") =>
      LET s == input.s IN
      \A e \in ToSet(input.entries) :
        LET m == MemberAttributes(s, input.entries)[e] IN
        \A attr \in DOMAIN m :
          m[attr] = IF <<attr, e.node>> \in s.bad \cup s.poison THEN Null ELSE Value(<<attr, e.node>>)

\* The chain of t: t, then each of its supertypes once and after a subtype of it.
IsChainOf(up, t, chain) ==
    /\ chain[1] = t /\ IsInjective(chain)
    /\ ToSet(chain) = Reach(up, {t})
    /\ \A k \in 2 .. Len(chain) : \E j \in 1 .. k - 1 : chain[k] \in ToSet(up[chain[j]])

\* A type's hierarchy starts with the type, holds each of its supertypes once and each
\* after a subtype of it, whichever chains were cached.
HierarchyComplete ==
    Ran("supertypes") =>
      LET up == input.up
          chains == [t \in input.cached |-> TypeHierarchies(up, <<>>, <<t>>)[t]]
      IN  \A t \in ToSet(input.requested) : IsChainOf(up, t, TypeHierarchies(up, chains, input.requested)[t])

\* The same of the names of a reference type; and where no type is its own supertype the
\* chains cached on the way are complete as well.  A type whose supertypes could not be
\* browsed counts as one without.
ReferenceChainComplete ==
    Ran("supertypes") =>
      LET up == [t \in Nodes3 |-> IF t \in input.failed THEN <<>> ELSE input.up[t]]
          r == ReferenceChain(input.up, input.failed, 1, <<>>, {})
          acyclic == \A t \in Nodes3 : t \notin Reach(up, ToSet(up[t]))
      IN  /\ r.names[1] = 1 /\ IsInjective(r.names) /\ ToSet(r.names) = Reach(up, {1})
          /\ acyclic => \A t \in DOMAIN r.cache : ToSet(r.cache[t]) = Reach(up, {t})

\* A namespace has the name and the version of a component that describes it, and lacks
\* them only when a read of such a component failed.
NamespacesComplete ==
    Ran("namespaces") =>
      LET s == input
          out == NamespaceInfos(s, <<1, 2, 3>>)
      IN  \A k \in 1 .. 3 :
            LET own == {c \in 1 .. 2 : s.uri[c] = out[k].uri}
                intact == ~s.down /\ s.lost \cap (own \X {"uri", "version", "name"}) = {}
            IN  /\ out[k].name \in own \cup {0}
                /\ out[k].version \in {s.version[c] : c \in own} \cup {0}
                /\ intact /\ own # {} => out[k].name # 0 /\ out[k].version # 0

\* Browsing brings every node, type, member, supertype and namespace (the parts above).
BrowsingComplete ==
    /\ TreeComplete /\ ObjectTypesComplete /\ MembersAligned
    /\ HierarchyComplete /\ ReferenceChainComplete /\ NamespacesComplete

-----------------------------------------------------------------------------
(* The tools on the model                                                   *)

Parents4 == {<<0, a, b, c>> : a, b, c \in 0 .. 3}

Model4(hier, comp, graph, name, kind4) ==
    [size |-> 4, hier |-> hier, comp |-> comp, graph |-> graph, name |-> name,
     kind |-> <<"asset", "asset", "asset", kind4>>]

DoPage ==
    Idle("page") /\ \E n \in 0 .. 6, limit \in 1 .. 4 : Run([items |-> [k \in 1 .. n |-> k], limit |-> limit])

DoBrowsePath ==
    Idle("browsePath") /\ \E hier \in Parents4, c \in 0 .. 2, name \in {<<1, 2, 3, 4>>, <<1, 2, 2, 2>>, <<1, 1, 2, 2>>} :
      Run(Model4(hier, <<0, 0, 0, c>>, {}, name, "asset"))

DoPath ==
    Idle("path") /\ \E hier \in Parents4, c \in {0, 2}, graph \in {{}, {<<1, 4>>}, {<<4, 2>>, <<2, 3>>}},
       source \in {1, 4}, target \in {2, 3}, maxDepth \in 1 .. 2, maxNodes \in {2, 3, 9},
       planes \in {{"hierarchy"}, {"hierarchy", "composition", "graph"}} :
      Run([t |-> Model4(hier, <<0, 0, 0, c>>, graph, <<1, 2, 3, 4>>, "asset"),
           q |-> [source |-> source, target |-> target, maxDepth |-> maxDepth, maxNodes |-> maxNodes,
                  planes |-> planes]])

DoSubtree ==
    Idle("subtree") /\ \E hier \in Parents4, b \in 0 .. 2, c \in 0 .. 3, kind4 \in {"asset", "property"},
       maxDepth \in 1 .. 3, maxNodes \in {1, 2, 9}, without \in {{}, {"property"}} :
      Run([t |-> Model4(hier, <<0, 0, b, c>>, {}, <<1, 2, 3, 4>>, kind4),
           q |-> [root |-> 1, maxDepth |-> maxDepth, maxNodes |-> maxNodes, without |-> without]])

DoContainer ==
    Idle("container") /\ \E parent \in [2 .. 5 -> 1 .. 3], kinds \in [3 .. 5 -> {"asset", "property"}],
       limit \in 1 .. 2, batch \in 1 .. 2, absent \in {{}, {4}}, maxNodes \in {3, 9} :
      Run([below |-> [n \in 1 .. 5 |-> Ascending({c \in 2 .. 5 : parent[c] = n})],
           t |-> [kind |-> [n \in 1 .. 5 |-> IF n < 3 THEN "asset" ELSE kinds[n]]],
           q |-> [root |-> 1, limit |-> limit, batch |-> batch, absent |-> absent, maxNodes |-> maxNodes]])

DoInstances ==
    Idle("instances") /\ \E up \in {<<a, b, c>> : a, b, c \in 0 .. 3}, of \in {<<a, b>> : a, b \in 1 .. 3}, k \in 1 .. 3 :
      Run([up |-> up, of |-> of, k |-> k])

RECURSIVE AllPages(_, _, _)
\* A client that follows next from offset on; fuel ends a faulty walk.
AllPages(page, offset, fuel) ==
    LET p == page[offset] IN
    <<p.items>> \o (IF p.next = 0 \/ fuel = 0 THEN <<>> ELSE AllPages(page, p.next, fuel - 1))

\* A client that follows nextOffset gets every item once and in order, and no empty page
\* unless there is nothing at all.
PagesCover ==
    Ran("page") =>
      LET pages == AllPages([o \in 0 .. 8 |-> PageOf(input.items, input.limit, o)], 0, 6) IN
      /\ FlattenAll(pages) = input.items
      /\ input.items # <<>> => \A k \in 1 .. Len(pages) : pages[k] # <<>>

\* getBrowsePath and resolveBrowsePath are inverse: the path of an element leads to the
\* element or is reported ambiguous, never to another one, and ambiguous only when another
\* element has the same path; one cyclic chain makes every path an error.
BrowsePathRoundTrip ==
    Ran("browsePath") =>
      \A n \in NodesOf(input) :
        LET path == BrowsePath(input, n)
            found == ResolvePath(input, path)
            same == {k \in NodesOf(input) : BrowsePath(input, k) = path}
        IN  IF \E k \in NodesOf(input) : k \in Reach([i \in 0 .. 4 |-> IF i = 0 THEN <<>> ELSE <<ParentOf(input, i)>>], {ParentOf(input, k)})
            THEN found = <<"error">>
            ELSE found = IF same = {n} THEN <<"found", n>> ELSE <<"ambiguous">>

\* traceRelationshipPath finds a path whenever there is one within the limits, and a
\* shortest one; when it finds none and does not say truncated there is none at all.
PathShortest ==
    Ran("path") =>
      LET t == input.t
          q == input.q
          near(R) == R \cup UNION {ToSet(Neighbors(t, q.planes, n)) : n \in R}
          one == near({q.source})
          ball == <<one, near(one), near(near(one))>>
          r == TracePath(t, q)
      IN  /\ r.found => /\ r.path[1] = q.source /\ Last(r.path) = q.target
                        /\ Len(r.path) - 1 <= q.maxDepth
                        /\ \A k \in 1 .. Len(r.path) - 1 :
                             r.path[k + 1] \in ToSet(Neighbors(t, q.planes, r.path[k]))
                        /\ Len(r.path) = 3 => q.target \notin one
          /\ ~r.found /\ ~r.truncated => q.target \notin ball[3]
          /\ q.maxNodes = 9 /\ q.target \in ball[q.maxDepth] => r.found

\* summarizeSubtree shows only what is below the root, at most maxNodes, and everything
\* unless it says truncated; its counts add up to more than the nodes shown only when a
\* node is a child in both planes.
SubtreeHonest ==
    Ran("subtree") =>
      LET t == input.t
          q == input.q
          r == Subtree(t, q)
          shown(n) == SelectSeq(ChildEdges(t, n), LAMBDA c : t.kind[c] \notin q.without)
          below == Reach([n \in 1 .. 4 |-> shown(n)], {1})
      IN  /\ r.included \subseteq below
          /\ Cardinality(r.included) <= q.maxNodes
          /\ ~r.truncated => r.included = below
          /\ r.counted > Cardinality(r.included) => \E n \in r.included : t.hier[n] # 0 /\ t.comp[n] # 0

\* The properties getCompositionProperties lists are those that a chain of composition
\* leads to, in cyclic models too.
CompositionClosed ==
    Ran("subtree") =>
      LET t == input.t IN
      CompositionProperties(t, 1) =
        {n \in Reach([k \in 1 .. 4 |-> Ascending({c \in 1 .. 4 : t.comp[c] = k})], {1}) \ {1} : t.kind[n] = "property"}

\* readContainerValues, page after page, gives every property below the container once,
\* each with its own result or the lack of one, or refuses the container as too large.
ContainerComplete ==
    Ran("container") =>
      LET q == input.q
          pages == FlattenAll(AllPages([o \in 0 .. 8 |-> ContainerPage(input.t, input.below, q, o)], 0, 6))
          \* nothing is looked for below a property
          open == [n \in 1 .. 5 |-> IF input.t.kind[n] = "property" THEN <<>> ELSE input.below[n]]
          reached == Reach(open, {1}) \cup UNION {ToSet(open[n]) : n \in Reach(open, {1})}
          want == {n \in reached : input.t.kind[n] = "property"}
      IN  IF pages = <<<<0, "large">>>> THEN Cardinality(reached) > q.maxNodes
          ELSE /\ {pages[k][1] : k \in 1 .. Len(pages)} = want /\ Len(pages) = Cardinality(want)
               /\ \A k \in 1 .. Len(pages) : pages[k][2] = IF pages[k][1] \in q.absent THEN "none" ELSE "value"

\* getInstancesOfType counts an object among the instances of its type and of every
\* supertype, and no others; a cyclic type hierarchy is an error for every type.
InstancesInherited ==
    Ran("instances") =>
      LET up == [k \in 0 .. 3 |-> IF k = 0 THEN <<>> ELSE <<input.up[k]>>]
          cyclic == \E k \in 1 .. 3 : k \in Reach(up, {input.up[k]})
      IN  InstancesOf(input.up, input.of, input.k) =
            IF cyclic THEN {0} ELSE {n \in 1 .. 2 : input.k \in Reach(up, {input.of[n]})}

-----------------------------------------------------------------------------

AccessNext == \/ DoRead \/ DoHistory
        \/ DoBrowse \/ DoObjectTypes \/ DoMembers \/ DoSupertypes \/ DoNamespaces
        \/ DoBuild \/ DoClassify
        \/ DoPage \/ DoBrowsePath \/ DoPath \/ DoSubtree \/ DoContainer \/ DoInstances
=============================================================================
