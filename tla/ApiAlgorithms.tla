---------------------------- MODULE ApiAlgorithms ----------------------------
(***************************************************************************)
(* The computations of the REST and MCP interfaces, compared with what they *)
(* are meant to compute for every input up to a bound, after those of       *)
(* Algorithms.                                                              *)
(***************************************************************************)
EXTENDS TypeAlgorithms, McpAlgorithms, WriteAlgorithms, McpServer, ObjectAccess

CONSTANTS
    MaxEvents       \* bound of the model: steps of the MCP transport

ASSUME ApiAssumption == MaxEvents \in Nat \ {0}

-----------------------------------------------------------------------------
(* MCP streams: the steps of McpAlgorithms up to a bound                    *)

DoTransport   == StartTransport
Early         == Ran("mcp") /\ input.steps < MaxEvents
DoOpenSession == Early /\ Len(input.st.log) < 2 /\ Connect
DoOpenStream  == Early /\ Len(input.st.streams) < 3 /\ \E s \in 1 .. 2 : Listen(s)
DoPublish     == Early /\ \E s \in 1 .. Len(input.st.log) : Notify(s, <<s, input.steps>>)
DoDelete      == Early /\ \E s \in input.st.live : Disconnect({s})
DoShutdown    == Early /\ Disconnect(input.st.live)
DoNextEvent   == Early /\ \E k \in Listening : Deliver(k)
DoAbandon     == Early /\ \E k \in Listening : Leave(k)

-----------------------------------------------------------------------------
(* Answers of tools                                                         *)

Item(success, values, components) ==
    [success |-> success, id |-> Len(values), values |-> values, components |-> components,
     next |-> 0, extra |-> {1}]

DoTool ==
    Idle("tool") /\ \E n \in 0 .. 3, k \in 0 .. 4, inner \in 0 .. 3, ok \in BOOLEAN, limit \in 1 .. 3,
                       status \in {200, 404} :
      LET upTo(j) == [i \in 1 .. j |-> i] IN
      Run([limit |-> limit, status |-> status,
           items |-> <<Item(TRUE, upTo(n), <<Item(TRUE, upTo(inner), <<>>)>>), Item(ok, upTo(k), <<>>)>>])

\* A client that repeats a history call with the next offset while any item or component
\* has one gets every value of every item and component once and in order; and the items
\* stay in their places.
ToolPagesComplete ==
    Ran("tool") =>
      LET page(o) == ToolAnswer(input.status, input.items, input.limit, o).items
          offsets == [j \in 1 .. 5 |-> (j - 1) * input.limit]
          gathered(value(_)) == FlattenAll([j \in 1 .. 5 |-> value(page(offsets[j]))])
          first(p) == p[1].values
          inner(p) == p[1].components[1].values
          second(p) == p[2].values
      IN  /\ gathered(first) = input.items[1].values
          /\ gathered(inner) = input.items[1].components[1].values
          /\ input.items[2].success => gathered(second) = input.items[2].values
          /\ \A j \in 1 .. 4 : /\ \A k \in 1 .. 2 : page(offsets[j])[k].success = input.items[k].success
                               /\ page(offsets[j])[1].next = 0 => first(page(offsets[j + 1])) = <<>>

\* An item that failed is shown whole on every page, and makes every page an error.
ToolErrorsShown ==
    Ran("tool") =>
      \A o \in 0 .. 5 :
        LET a == ToolAnswer(input.status, input.items, input.limit, o) IN
        /\ a.isError <=> input.status = 404 \/ ~input.items[2].success
        /\ ~input.items[2].success => a.items[2] = input.items[2]

-----------------------------------------------------------------------------
(* Context and search                                                       *)

DoContext ==
    Idle("context") /\ \E hier \in Parents4, c \in 0 .. 3, depth \in 0 .. 3, limit \in 1 .. 2,
       f \in SUBSET (1 .. 3), g \in {1 .. 4, {2, 4}} :
      Run([t |-> Model4(hier, <<0, 0, 0, c>>, {}, <<2, 1, 2, 1>>, "asset"), depth |-> depth, limit |-> limit,
           filters |-> {f, g}])

\* The ancestors are the chain of parents, as far as asked for, and none twice in a cyclic
\* model; every child is listed or the list says it is truncated and how many there are.
ContextHonest ==
    Ran("context") =>
      LET t == input.t IN
      \A n \in 1 .. 4 :
        LET x == ElementContext(t, n, input.depth, input.limit)
            chain == <<n>> \o x.ancestors
            below == {c \in 1 .. 4 : t.hier[c] = n}
        IN  /\ IsInjective(chain) /\ Len(x.ancestors) <= input.depth
            /\ \A k \in 2 .. Len(chain) : chain[k] = t.hier[chain[k - 1]]
            /\ Len(x.ancestors) < input.depth => t.hier[Last(chain)] \in ToSet(chain) \cup {0}
            /\ ToSet(x.hierarchy.items) \subseteq below /\ x.hierarchy.total = Cardinality(below)
            /\ IF x.hierarchy.truncated THEN Len(x.hierarchy.items) = input.limit
               ELSE ToSet(x.hierarchy.items) = below

\* A client that follows the pages of a search gets the elements that meet every filter,
\* each once.
SearchComplete ==
    Ran("context") =>
      LET all == SearchElements(input.t, input.filters)
          got == FlattenAll(AllPages([o \in 0 .. 6 |-> PageOf(all, input.limit, o)], 0, 6))
      IN  IsInjective(got) /\ ToSet(got) = {n \in 1 .. 4 : \A f \in input.filters : n \in f}

-----------------------------------------------------------------------------
(* Values of objects: node 4 has the name of node 2's id, or one of its own *)

ValueModels ==
    {[size |-> 4, kind |-> <<"asset", "asset", k3, "property">>, comp |-> <<c1, c2, c3, c4>>,
      tree |-> <<0, 1, t3, t4>>, name |-> <<11, 11, 13, n4>>, type |-> <<21, 21, 21, 22>>, source |-> <<31, 32, 33, 34>>] :
        k3 \in {"asset", "property"}, c1 \in {0, 2}, c2 \in 0 .. 1, c3 \in 0 .. 2, c4 \in 0 .. 3,
        t3 \in 1 .. 2, t4 \in 2 .. 3, n4 \in {2, 14}}

DoValues ==
    Idle("values") /\ \E w \in ValueModels, texts \in {<<1>>, <<2, 4>>, <<99, 11, 1>>, <<34, 4>>, <<22, 3>>}, maxDepth \in 0 .. 3 :
      Run([w |-> w, texts |-> texts, maxDepth |-> maxDepth])

\* The properties that composition leads to from n, through at most k components.
ComposedWithin(w, n, k) ==
    LET step(S) == S \cup {c \in 1 .. 4 : w.kind[c] # "property" /\ w.comp[c] \in S}
        owners == CASE k = 1 -> {n} [] k = 2 -> step({n}) [] OTHER -> step(step(step({n})))
    IN  {p \in 1 .. 4 : w.kind[p] = "property" /\ w.comp[p] \in owners}

\* A value query has one result for each element asked for, in order, an element id always
\* meaning the element with that id; the result has the value of the property itself and
\* of every property of its components as deep as asked for, each its own, in cyclic
\* compositions too.  A null is never called Good.
ValuesComplete ==
    Ran("values") =>
      LET w == input.w
          data == [n \in 1 .. 4 |-> [value |-> IF n = 3 THEN 0 ELSE n, status |-> IF n = 4 THEN "none" ELSE "Good"]]
          out == ObjectValues(w, input.texts, input.maxDepth, data)
          shown(n) == IF n = 3 THEN NoData ELSE [value |-> n, quality |-> "Good"]
      IN  /\ Len(out) = Len(input.texts)
          /\ \A k \in 1 .. Len(out) :
               LET n == CASE input.texts[k] = 99 -> 0 [] input.texts[k] = 11 -> 1
                          [] input.texts[k] \in {22, 34} -> 4 [] OTHER -> input.texts[k]
                   parts == IF input.maxDepth = 1 THEN {} ELSE ComposedWithin(w, n, IF input.maxDepth = 0 THEN 3 ELSE input.maxDepth)
               IN  IF n = 0 THEN out[k] = <<>>
                   ELSE /\ w.kind[n] = "property" => out[k][1] = shown(n)
                        /\ out[k][2] = {<<p, shown(p)>> : p \in parts}

\* The same of histories, whose rows are in the order of their timestamps; an element has
\* no history only when no property belongs to it.
HistoriesComplete ==
    Ran("values") =>
      LET w == input.w
          rows == [n \in 1 .. 4 |-> IF n = 4 THEN <<3, 1, 2>> ELSE <<n>>]
          out == ObjectHistories(w, input.texts, input.maxDepth, rows)
      IN  \A k \in 1 .. Len(out) :
            LET n == FindNode(w, input.texts[k])
                parts == IF input.maxDepth = 1 THEN {} ELSE ComposedWithin(w, n, IF input.maxDepth = 0 THEN 3 ELSE input.maxDepth)
                timed(p) == IF p = 4 THEN <<1, 2, 3>> ELSE <<p>>
            IN  CASE n = 0 -> out[k] = <<"notFound">>
                  [] n # 0 /\ w.kind[n] # "property" /\ parts = {} -> out[k] = <<"noHistory">>
                  [] OTHER -> out[k] = <<IF w.kind[n] = "property" THEN timed(n) ELSE <<>>, {<<p, timed(p)>> : p \in parts}>>

\* A registered object stands for the properties below it in the browse tree as deep as
\* asked for, each reported under its own element id; a property stands for itself.
MonitoredInTree ==
    Ran("values") =>
      LET w == input.w
          up == [n \in 0 .. 4 |-> IF n = 0 THEN <<>> ELSE <<w.tree[n]>>]
          depth(p, n) == CASE p = n -> 0 [] w.tree[p] = n -> 1 [] w.tree[w.tree[p]] = n -> 2 [] OTHER -> 3
          out == MonitoredNodes(w, {<<input.texts[k], input.maxDepth>> : k \in 1 .. Len(input.texts)})
          within(p, n) == /\ n \in Reach(up, {p}) /\ (p = n \/ w.kind[w.tree[p]] # "property")
                          /\ w.kind[n] = "property" => p = n
                          /\ input.maxDepth = 0 \/ depth(p, n) <= input.maxDepth
          objects == {IF t \in 31 .. 34 THEN t - 30 ELSE t : t \in ToSet(input.texts)}
      IN  out = {<<w.source[p], p>> : p \in {p \in 1 .. 4 : w.kind[p] = "property" /\ \E n \in objects \cap (1 .. 4) : within(p, n)}}
                \cup {<<t, t>> : t \in objects \ (1 .. 4)}

-----------------------------------------------------------------------------
(* What the interfaces answer                                               *)

\* The answers made from the model tell the truth about it, and say when limits cut them
\* short: pages, paths, subtrees, contexts and searches of the model tools, the pages and
\* errors of the other tools, and the values, histories and nodes of objects.
AnswersComplete ==
    /\ PagesCover /\ BrowsePathRoundTrip /\ PathShortest /\ SubtreeHonest /\ CompositionClosed
    /\ ContainerComplete /\ InstancesInherited /\ ContextHonest /\ SearchComplete
    /\ ToolPagesComplete /\ ToolErrorsShown
    /\ ValuesComplete /\ HistoriesComplete /\ MonitoredInTree

-----------------------------------------------------------------------------

Tasks == AccessTasks \cup TypeTasks \cup McpTasks \cup WriteTasks \cup {"tool", "context", "values"}

Init == task \in Tasks /\ input = <<>>

Next == \/ AccessNext \/ TypeNext
        \/ DoPost
        \/ DoTransport \/ DoOpenSession \/ DoOpenStream \/ DoPublish \/ DoDelete \/ DoShutdown \/ DoNextEvent \/ DoAbandon
        \/ DoTool \/ DoInvoke \/ DoIdentity \/ DoContext \/ DoResources
        \/ DoValues \/ DoWrite \/ DoHistories \/ NextValue \/ NextHistory

Spec == Init /\ [][Next]_vars
=============================================================================
