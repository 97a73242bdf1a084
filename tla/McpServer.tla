------------------------------ MODULE McpServer ------------------------------
(***************************************************************************)
(* What a tool call makes of the answer of the REST API, and the context    *)
(* and search of the model tools.                                           *)
(*                                                                          *)
(* Source: i3x_server/api/mcp/monolithic.py, mcp/invocation.py,             *)
(* mcp/model_tools.py.                                                      *)
(***************************************************************************)
EXTENDS ModelTools

-----------------------------------------------------------------------------
(* A bulk answer is a sequence of items [success, id, values, components];  *)
(* a component is an item too.                                              *)

\* Fault: the components are repeated on every page.
PageItem_flat(item, limit, offset) ==
    LET page == IF offset >= Len(item.values) THEN [items |-> <<>>, next |-> 0]
                ELSE PageOf(item.values, limit, offset)
    IN  [item EXCEPT !.values = page.items, !.next = page.next]
\* _paginate_history_result: the components are paged with the same offset.
RECURSIVE PageItem(_, _, _)
PageItem(item, limit, offset) ==
    LET page == IF offset >= Len(item.values) THEN [items |-> <<>>, next |-> 0]
                ELSE PageOf(item.values, limit, offset)
    IN  [item EXCEPT !.values = page.items, !.next = page.next,
                     !.components = [k \in 1 .. Len(@) |-> PageItem(@[k], limit, offset)]]

\* _paginate_mcp_related, _paginate_mcp_history: a failed item stays on every page.
PageBulk(items, limit, offset) ==
    [k \in 1 .. Len(items) |-> IF items[k].success THEN PageItem(items[k], limit, offset) ELSE items[k]]

\* _compact_bulk_results: fields of a result are left out, of a failure nothing.
Compact(items) == [k \in 1 .. Len(items) |-> IF items[k].success THEN [items[k] EXCEPT !.extra = {}] ELSE items[k]]

\* Fault: only the status of the answer counts.
IsError_status(status, items) == status >= 400
\* _tool_result
IsError(status, items) == status >= 400 \/ \E k \in 1 .. Len(items) : ~items[k].success

\* invoke_mcp_tool and tools/call on a bulk answer of the REST API
ToolAnswer(status, items, limit, offset) ==
    LET body == Compact(PageBulk(items, limit, offset)) IN [isError |-> IsError(status, body), items |-> body]

-----------------------------------------------------------------------------
(* Search and context, on a model of ModelTools                             *)

\* Fault: the first filter that accepts ends the test.
SearchElements_any(t, filters) ==
    SetToSortSeq({n \in NodesOf(t) : \E f \in filters : n \in f}, LAMBDA a, b : a < b)
\* _search_model_elements: filters are sets of nodes, one per argument; sorted by name,
\* then by id.
SearchElements(t, filters) ==
    SetToSortSeq({n \in NodesOf(t) : \A f \in filters : n \in f},
                 LAMBDA a, b : t.name[a] < t.name[b] \/ (t.name[a] = t.name[b] /\ a < b))

\* Fault: an ancestor met before is followed again.
Ancestors_again(t, n, visited, depth) ==
    LET up == t.hier[n] IN IF depth = 0 \/ up = 0 THEN <<>> ELSE <<up>> \o <<up>>
\* The ancestors of getElementContext: by hierarchy alone, up to depth, until a cycle.
RECURSIVE Ancestors(_, _, _, _)
Ancestors(t, n, visited, depth) ==
    LET up == t.hier[n] IN
    IF depth = 0 \/ up = 0 \/ up \in visited THEN <<>>
    ELSE <<up>> \o Ancestors(t, up, visited \cup {up}, depth - 1)

\* _bounded_context_items
Bounded(items, limit) ==
    [total |-> Len(items), truncated |-> Len(items) > limit,
     items |-> SubSeq(items, 1, IF limit < Len(items) THEN limit ELSE Len(items))]

\* _get_element_context
ElementContext(t, n, depth, limit) ==
    [ancestors   |-> Ancestors(t, n, {n}, depth),
     parents     |-> {<<"HasParent", t.hier[n]>>, <<"ComponentOf", t.comp[n]>>} \ {<<"HasParent", 0>>, <<"ComponentOf", 0>>},
     hierarchy   |-> Bounded(Ascending({c \in NodesOf(t) : t.hier[c] = n}), limit),
     composition |-> Bounded(Ascending({c \in NodesOf(t) : t.comp[c] = n}), limit)]
=============================================================================
