----------------------------- MODULE McpProtocol -----------------------------
(***************************************************************************)
(* The MCP endpoint: which requests are answered and how, the sessions and  *)
(* their event streams, which tool calls are let through to whom, how node  *)
(* ids and element ids are translated, and which resources there are.       *)
(*                                                                          *)
(* Source: i3x_server/api/mcp/monolithic.py, mcp/invocation.py,             *)
(* domain/utils.py.                                                         *)
(*                                                                          *)
(* Versions: "l1" and "l2" are the legacy ones ("l1" the default), "new" is *)
(* the modern one, "odd" is unknown and "none" is absent.                   *)
(***************************************************************************)
EXTENDS Integers, Sequences, FiniteSets, FiniteSetsExt

Legacy == {"l1", "l2"}

-----------------------------------------------------------------------------
(* A POST q is a record of what the code looks at: origin (allowed?), body  *)
(* ("object" or not), header and meta (its versions), caps, method,         *)
(* methodHeader (does it match?), nameHeader, id, rpc, params, session,     *)
(* wanted (the version initialize asks for) and tool (what a call does).    *)

IsModern(q) == q.header \in {"new", "odd"} \/ q.meta # "none" \/ q.method = "discover"

\* Fault: the headers are compared only when they are there.
ModernError_optional(q) ==
    IF q.meta = "none" \/ ~q.caps THEN "metadata"
    ELSE IF q.header \notin {"none", q.meta} THEN "mismatch"
    ELSE IF q.nameHeader = "other" THEN "mismatch"
    ELSE IF q.meta # "new" THEN "version"
    ELSE "none"
\* _modern_request_error: a proxy decides by the headers, so they must say what the
\* body says.
ModernError(q) ==
    IF q.meta = "none" \/ ~q.caps THEN "metadata"
    ELSE IF q.header # q.meta THEN "mismatch"
    ELSE IF q.method = "bad" \/ ~q.methodHeader THEN "mismatch"
    ELSE IF q.nameHeader # (IF q.method = "call" THEN "same" ELSE "none") THEN "mismatch"
    ELSE IF q.meta # "new" THEN "version"
    ELSE "none"

NoReply == [kind |-> "none", id |-> "null", code |-> "none"]
RpcError(id, code) == [kind |-> "error", id |-> IF id = "absent" THEN "null" ELSE id, code |-> code]
RpcResult(id, what) == [kind |-> "result", id |-> id, code |-> what]

\* tools/call: an argument error is an error of the protocol, the answer of the tool, good
\* or bad, a result.
CallTool(q) ==
    IF q.tool \in {"unknown", "badArguments", "refused"} THEN RpcError(q.id, "params")
    ELSE IF q.tool = "crashes" THEN RpcError(q.id, "internal")
    ELSE RpcResult(q.id, q.tool)

\* _handle_jsonrpc; the methods that only read are one, "ping".
Handle(q) ==
    IF q.id \in {"null", "list"} THEN RpcError("null", "request")
    ELSE IF ~q.rpc \/ q.method = "bad" THEN RpcError(q.id, "request")
    ELSE IF q.id = "absent" THEN NoReply
    ELSE IF q.params = "other" THEN RpcError(q.id, "params")
    ELSE IF q.method \in {"initialize", "call"} /\ q.params = "none" THEN RpcError(q.id, "params")
    ELSE IF q.method = "initialize" /\ q.wanted = "none" THEN RpcError(q.id, "params")
    ELSE IF q.method = "initialize" THEN RpcResult(q.id, IF q.wanted \in Legacy THEN q.wanted ELSE "l1")
    ELSE IF q.method = "call" THEN CallTool(q)
    ELSE IF q.method \in {"ping", "discover"} THEN RpcResult(q.id, "done")
    ELSE RpcError(q.id, "method")

Refused(status, id, code) ==
    [status |-> status, reply |-> RpcError(id, code), created |-> "none", session |-> 0]

\* mcp_post; sessions[s] is the version of session s.  created is the version of a new
\* session, session the id the answer names (0: none).
McpPost(q, sessions) ==
    LET modern == IsModern(q)
        reply  == Handle(q)
        opens  == ~modern /\ q.method = "initialize" /\ reply.kind = "result"
    IN  IF ~q.origin THEN Refused(403, "null", "origin")
        ELSE IF q.body # "object" THEN Refused(200, "null", "parse")
        ELSE IF modern /\ ModernError(q) # "none" THEN Refused(400, q.id, ModernError(q))
        ELSE IF modern /\ q.method = "initialize" THEN Refused(400, q.id, "method")
        ELSE IF ~modern /\ q.session # 0 /\ q.session \notin DOMAIN sessions THEN Refused(404, "null", "session")
        ELSE IF ~modern /\ q.session # 0 /\ q.header \notin {"none", sessions[q.session]} THEN Refused(400, "null", "version")
        ELSE [status  |-> IF reply = NoReply THEN 202 ELSE 200, reply |-> reply,
              created |-> IF opens THEN reply.code ELSE "none",
              session |-> IF opens THEN Len(sessions) + 1
                          ELSE IF ~modern /\ q.method = "initialized" THEN q.session ELSE 0]

-----------------------------------------------------------------------------
(* Sessions and streams.  st.live are the sessions, st.log[s] everything    *)
(* ever published to s; a stream is [session, from, queue, got, open],      *)
(* from being the place of log where it joined.                             *)

\* None in a queue, which no message is
End == <<0, 0>>
NoTransport == [live |-> {}, log |-> <<>>, streams |-> <<>>]

OpenSession(st) ==
    [live |-> st.live \cup {Len(st.log) + 1}, log |-> Append(st.log, <<>>), streams |-> st.streams]

\* mcp_get
OpenStream(st, s) ==
    IF s \notin st.live THEN st
    ELSE [live |-> st.live, log |-> st.log,
          streams |-> Append(st.streams, [session |-> s, from |-> Len(st.log[s]), queue |-> <<>>, got |-> <<>>, open |-> TRUE])]

\* put_nowait into the streams of the sessions S
PutAll(streams, S, x) ==
    [k \in 1 .. Len(streams) |->
        IF streams[k].session \in S /\ streams[k].open
        THEN [streams[k] EXCEPT !.queue = Append(@, x)] ELSE streams[k]]

\* publish_mcp_notification
Publish(st, s, x) ==
    IF s \notin st.live THEN st
    ELSE [live |-> st.live, log |-> [st.log EXCEPT ![s] = Append(@, x)], streams |-> PutAll(st.streams, {s}, x)]

\* Fault: the session goes, its streams are not told.
CloseSessions_quiet(st, S) == [live |-> st.live \ S, log |-> st.log, streams |-> st.streams]
\* mcp_delete for one session, shutdown_mcp_transport for all
CloseSessions(st, S) == [live |-> st.live \ S, log |-> st.log, streams |-> PutAll(st.streams, S \cap st.live, End)]

\* The state with stream k made x.
PutStream(st, k, x) == [live |-> st.live, log |-> st.log, streams |-> [st.streams EXCEPT ![k] = x]]

\* event_stream takes the next message, or ends.
NextEvent(st, k) ==
    LET stream == st.streams[k]
        x == Head(stream.queue)
    IN  PutStream(st, k, [session |-> stream.session, from |-> stream.from, queue |-> Tail(stream.queue),
                          got |-> IF x = End THEN stream.got ELSE Append(stream.got, x), open |-> (x # End)])

\* A keepalive finds the client gone; messages still queued are lost with it.
Abandon(st, k) == PutStream(st, k, [st.streams[k] EXCEPT !.open = FALSE, !.queue = <<>>])

-----------------------------------------------------------------------------
(* A tool call c: kind says who answers ("list", "paged" and "plain" the    *)
(* REST API; "model" a model that is built if need be; "identity" and       *)
(* "access" only a cached model; "container"), params and required are the  *)
(* parameters of the tool, given the arguments by name, valid whether those *)
(* of a model tool pass its checks, page = <<limit, offset>>, body whether  *)
(* a body is required, path whether the path can be resolved.  app is       *)
(* [cached, provider, upstream]: the state of what answers.                 *)

PageNames == {"limit", "offset"}

AllowedArguments(c) ==
    c.params \cup (CASE c.kind = "list" -> PageNames [] c.kind = "container" -> PageNames \cup {"container"}
                     [] c.kind \in {"model", "identity", "access"} -> {"element", "limit"}
                     [] c.kind = "paged" -> {"body"} [] OTHER -> {})

\* Fault: zero is a limit.
PageOk_zero(page, most) == page[1] \in 0 .. most /\ page[2] >= 0
\* _validate_mcp_page
PageOk(page, most) == page[1] \in 1 .. most /\ page[2] >= 0

\* The checks of invoke_mcp_tool before anything is called, _validate_model_tool_arguments
\* among them; an error there is the client's, except a path that cannot be resolved.
Refusal(c) ==
    IF c.given \ AllowedArguments(c) # {} THEN 400
    ELSE IF c.required \ c.given # {} THEN 400
    ELSE IF c.kind \in {"model", "identity", "access"} /\ ~c.valid THEN 400
    ELSE IF c.kind = "list" /\ ~PageOk(c.page, 500) THEN 400
    ELSE IF ~c.path THEN 500
    ELSE IF c.kind = "paged" /\ "body" \in c.given /\ ~PageOk(c.page, 500) THEN 400
    ELSE IF c.body /\ "body" \notin c.given THEN 400
    ELSE IF c.kind = "container" /\ ~PageOk(c.page, 50) THEN 400
    ELSE 0

\* invoke_mcp_tool: who was asked, the status of the answer, and what of the arguments the
\* REST API was given.
InvokeTool(c, app) ==
    LET answer(status, asked, forwarded) == [status |-> status, asked |-> asked, forwarded |-> forwarded]
    IN  IF Refusal(c) # 0 THEN answer(Refusal(c), "nobody", {})
        ELSE IF c.kind \in {"identity", "access"} THEN answer(IF app.cached THEN 200 ELSE 503, "cache", {})
        ELSE IF c.kind \in {"model", "container"} THEN answer(IF app.provider THEN 200 ELSE 500, "provider", {})
        ELSE answer(IF app.upstream = "garbled" THEN 502 ELSE IF app.upstream = "fails" THEN 500 ELSE 200,
                    "rest", (c.given \cap c.params) \ PageNames)

-----------------------------------------------------------------------------
(* Node ids: <<"ns", index, value, form>> or <<"nsu", uri, value, form>>;   *)
(* a value has one canonical form, "plain".  table[i] is the uri of index   *)
(* i; index 0 is always the OPC UA namespace.                               *)

UaUri == "ua"
UriOf(table, index) == IF index = 0 THEN UaUri ELSE IF index \in DOMAIN table THEN table[index] ELSE "none"

\* expanded_node_id: the text keeps its form.
ExpandedNodeId(table, n) ==
    IF n[1] = "nsu" \/ UriOf(table, n[2]) = "none" THEN n
    ELSE <<"nsu", UriOf(table, n[2]), n[3], n[4]>>

\* Fault: the form of the identifier is kept.
CanonicalNodeId_form(table, n) == ExpandedNodeId(table, n)
\* canonical_node_id
CanonicalNodeId(table, n) == [ExpandedNodeId(table, n) EXCEPT ![4] = "plain"]

\* stable_i3x_id hashes the expanded id.
ElementId(table, n) == <<"id", ExpandedNodeId(table, n)>>

\* The two indexes of the model, element_id_by_expanded_node_id and element_id_by_node_id:
\* the nodes with key k.
ByExpanded(table, nodes, k) ==
    {j \in DOMAIN nodes : k \in {CanonicalNodeId(table, nodes[j]), ExpandedNodeId(table, nodes[j]),
                                 CanonicalNodeId(table, ExpandedNodeId(table, nodes[j]))}}
ByNodeId(table, nodes, k) ==
    {j \in DOMAIN nodes : k = nodes[j] \/ (k = CanonicalNodeId(table, nodes[j]) /\ k[1] = "ns")}

\* _resolve_node_ids_to_element_ids for one id; "none" when it is not in the model.  The
\* first node with a key keeps it.
ResolveNodeId(table, nodes, n) ==
    LET byUri == ByExpanded(table, nodes, CanonicalNodeId(table, n))
        found == IF byUri # {} THEN byUri ELSE ByNodeId(table, nodes, n)
    IN  IF found = {} THEN <<"none">> ELSE ElementId(table, nodes[Min(found)])

-----------------------------------------------------------------------------
(* Resources: cache is [roots, nodes] or <<>> before the first model        *)

\* Fault: every root is listed.
Catalog_roots(cache, prompts) ==
    {<<"root", r>> : r \in IF cache = <<>> THEN {} ELSE cache.roots} \cup {<<"prompt", p>> : p \in prompts}
\* _resource_catalog with _roots_catalog: a root is listed when its node is in the model.
Catalog(cache, prompts) ==
    {<<"fixed", x>> : x \in {"overview", "mapping", "identity", "openapi", "overrides"}}
    \cup (IF cache = <<>> THEN {} ELSE {<<"root", r>> : r \in cache.roots \cap cache.nodes})
    \cup {<<"prompt", p>> : p \in prompts}

\* _read_resource_content, _root_resource_content: can uri be read?
ReadResource(cache, prompts, hasOverrides, uri) ==
    CASE uri[1] = "fixed"  -> uri[2] # "overrides" \/ hasOverrides
      [] uri[1] = "root"   -> cache # <<>> /\ uri[2] \in cache.roots /\ uri[2] \in cache.nodes
      [] uri[1] = "prompt" -> uri[2] \in prompts
=============================================================================
