---------------------------- MODULE McpAlgorithms ----------------------------
(***************************************************************************)
(* The MCP endpoint, compared with what it promises.  McpSpec takes any     *)
(* request, any history of the transport, any tool call, any nodes and any  *)
(* resources; TLC takes those of the Do actions.                            *)
(***************************************************************************)
EXTENDS Computation, McpProtocol

-----------------------------------------------------------------------------
(* Requests                                                                 *)

Versions == Legacy \cup {"none", "new", "odd"}

Requests ==
    [origin : BOOLEAN, body : STRING, header : Versions, meta : Versions, caps : BOOLEAN, method : STRING,
     methodHeader : BOOLEAN, nameHeader : {"none", "same", "other"}, id : STRING, rpc : BOOLEAN,
     params : {"none", "dict", "other"}, session : Nat, wanted : Versions, tool : STRING]

\* What is in the place of an id and is none.
NoIds == {"absent", "null", "list"}

PostRequest(q, sessions) ==
    Idle("post") /\ q \in Requests /\ sessions \in Seq(Legacy) /\ Run([q |-> q, sessions |-> sessions])

Post(header, meta, method, headers, call, session, wanted, tool) ==
    [origin |-> TRUE, body |-> "object", header |-> header, meta |-> meta, caps |-> TRUE, method |-> method,
     methodHeader |-> headers # "otherMethod", nameHeader |-> IF headers = "otherMethod" THEN "none" ELSE headers,
     id |-> call[1], rpc |-> call[2], params |-> call[3], session |-> session, wanted |-> wanted, tool |-> tool]

DoPost ==
    Idle("post") /\ \E header \in {"none", "l1", "l2", "new", "odd"}, meta \in {"none", "l1", "new", "odd"},
       method \in {"initialize", "initialized", "discover", "ping", "call", "unknown", "bad"},
       headers \in {"none", "same", "other", "otherMethod"},
       call \in {<<"absent", TRUE, "dict">>, <<"absent", FALSE, "dict">>, <<"null", TRUE, "dict">>,
                 <<"list", TRUE, "dict">>, <<"7", TRUE, "dict">>, <<"7", FALSE, "dict">>,
                 <<"7", TRUE, "none">>, <<"7", TRUE, "other">>},
       session \in {0, 1, 3}, wanted \in {"none", "l2", "odd"},
       tool \in {"unknown", "refused", "crashes", "good", "failed"} :
      /\ method # "initialize" => wanted = "none"
      /\ method # "call" => tool = "good"
      /\ call[3] # "dict" => meta = "none"
      /\ LET q == Post(header, meta, method, headers, call, session, wanted, tool) IN
         \E p \in {q, [q EXCEPT !.caps = FALSE], [q EXCEPT !.origin = FALSE], [q EXCEPT !.body = "list"]} :
           (p = q \/ (headers = "same" /\ session = 0)) /\ PostRequest(p, <<"l1", "l2">>)

\* A request gets one answer, with its own id unless it was refused before the id could be
\* trusted; only a notification gets none.  A tool runs, or a session is made, only for an
\* allowed origin and the version agreed on: of a modern request the headers say what the
\* body says, so that a proxy that looks only at them is not deceived, and a legacy one
\* never uses another version than its session's, which is the one that initialize told
\* the client.
McpOneReply ==
    Ran("post") =>
      LET q == input.q
          r == McpPost(q, input.sessions)
          done == r.reply.kind = "result"
      IN  /\ r.status = 202 <=> r.reply.kind = "none"
          /\ r.status = 202 => q.id = "absent" /\ q.rpc
          /\ r.reply.id \in {q.id, "null"}
          /\ q.id \notin NoIds /\ r.status = 200 /\ q.body = "object" => r.reply.id = q.id
          /\ done \/ r.status = 202 =>
               /\ q.origin
               /\ IF q.header \in {"new", "odd"} \/ q.meta # "none"
                  THEN q.header = "new" /\ q.meta = "new" /\ q.caps /\ q.methodHeader
                       /\ (q.nameHeader = "same" <=> q.method = "call")
                  ELSE q.session # 0 => /\ q.session \in DOMAIN input.sessions
                                        /\ q.header \in {"none", input.sessions[q.session]}
          /\ r.created # "none" => done /\ r.reply.code = r.created /\ r.created \in Legacy
                                   /\ r.session \notin DOMAIN input.sessions /\ q.header \notin {"new", "odd"}

-----------------------------------------------------------------------------
(* Streams: here the input is the state of the transport, with the steps    *)
(* taken and the streams whose client left.                                 *)

StartTransport == Idle("mcp") /\ Run([st |-> OpenSession(NoTransport), steps |-> 0, left |-> {}])

Step(st, left) ==
    st # input.st /\ Run([st |-> st, steps |-> input.steps + 1, left |-> input.left \cup left])

Listening == {k \in 1 .. Len(input.st.streams) : input.st.streams[k].open}

\* A message names the session it is for.
Messages == (Nat \ {0}) \X Nat

\* What a client, the server or the network does to the transport.
Connect      == Ran("mcp") /\ Step(OpenSession(input.st), {})
Listen(s)    == Ran("mcp") /\ Step(OpenStream(input.st, s), {})
Notify(s, x) == Ran("mcp") /\ x \in Messages /\ Step(Publish(input.st, s, x), {})
Disconnect(S) == Ran("mcp") /\ S \subseteq input.st.live /\ Step(CloseSessions(input.st, S), {})
Deliver(k)   == Ran("mcp") /\ k \in Listening /\ input.st.streams[k].queue # <<>> /\ Step(NextEvent(input.st, k), {})
Leave(k)     == Ran("mcp") /\ k \in Listening /\ input.st.streams[k].queue = <<>> /\ Step(Abandon(input.st, k), {k})

\* A stream carries what was published to its session since it joined, each message once
\* and in order and nothing of another session; it ends exactly when the session does,
\* after the last message, unless its client left.
StreamsInStep ==
    Ran("mcp") =>
      \A k \in (1 .. Len(input.st.streams)) \ input.left :
        LET stream == input.st.streams[k]
            log == input.st.log[stream.session]
            since == SubSeq(log, stream.from + 1, Len(log))
        IN  IF stream.session \in input.st.live THEN stream.open /\ stream.got \o stream.queue = since
            ELSE IF stream.open THEN stream.got \o stream.queue = Append(since, End)
            ELSE stream.got = since

-----------------------------------------------------------------------------
(* Tool calls                                                               *)

ToolKinds == {"list", "paged", "plain", "model", "identity", "access", "container"}

ToolCalls ==
    [kind : ToolKinds, params : SUBSET STRING, required : SUBSET STRING, given : SUBSET STRING,
     valid : BOOLEAN, page : Int \X Int, body : BOOLEAN, path : BOOLEAN]
Apps == [cached : BOOLEAN, provider : BOOLEAN, upstream : {"good", "garbled", "fails"}]

CallOf(c, app) == Idle("invoke") /\ c \in ToolCalls /\ app \in Apps /\ Run([c |-> c, app |-> app])

DoInvoke ==
    Idle("invoke") /\ \E kind \in ToolKinds, given \in SUBSET {"path", "limit", "body", "element", "extra"},
       required \in {{}, {"path"}}, valid, body, path \in BOOLEAN, limit \in {0, 1, 50, 51, 500, 501}, offset \in {-1, 0},
       cached, provider \in BOOLEAN, upstream \in {"good", "garbled", "fails"} :
      /\ kind \notin {"list", "paged", "plain"} => upstream = "good" /\ ~body
      /\ kind \in {"list", "paged", "plain"} => cached /\ provider
      /\ CallOf([kind |-> kind, params |-> {"path"} \cup (IF body THEN {"body"} ELSE {}), required |-> required,
                 given |-> given, valid |-> valid, page |-> <<limit, offset>>, body |-> body, path |-> path],
                [cached |-> cached, provider |-> provider, upstream |-> upstream])

\* A call with wrong arguments asks nobody: no request, no build of a model; and a page is
\* never empty by its limit.  The tools that answer from the cached model never start a
\* build, and say so when there is none.  The API never sees the page of the tool.
ToolCallsChecked ==
    Ran("invoke") =>
      LET c == input.c
          r == InvokeTool(c, input.app)
          wrong == c.given \ AllowedArguments(c) # {} \/ c.required \ c.given # {}
      IN  /\ wrong => r.asked = "nobody" /\ r.status = 400
          /\ r.asked = "nobody" => r.status \in {400, 500} /\ (r.status = 500 => ~c.path)
          /\ c.kind \in {"identity", "access"} => r.asked # "provider" /\ (r.status = 503 => ~input.app.cached)
          /\ c.kind \in {"list", "container"} /\ r.asked # "nobody" => c.page[1] > 0 /\ c.page[2] >= 0
                                                                      /\ c.page[1] <= IF c.kind = "list" THEN 500 ELSE 50
          /\ r.forwarded \subseteq (c.params \cap c.given) \ {"limit", "offset"}

-----------------------------------------------------------------------------
(* Node ids and element ids                                                 *)

Forms   == {"plain", "other"}
NodeIds == {"ns"} \X Nat \X Nat \X Forms

\* No uri has two indexes; "none" is an entry without one.
IsTable(table) ==
    /\ table \in Seq(STRING)
    /\ \A i, j \in 0 .. Len(table) : UriOf(table, i) = UriOf(table, j) /\ UriOf(table, i) # "none" => i = j

\* The nodes of one model, after a restart of the server with the table moved.
Translate(table, nodes, moved) ==
    /\ Idle("identity") /\ IsTable(table) /\ IsTable(moved) /\ nodes \in Seq(NodeIds)
    /\ \A j, k \in DOMAIN nodes : nodes[j][2] = nodes[k][2] /\ nodes[j][3] = nodes[k][3] => j = k
    /\ Run([table |-> table, nodes |-> nodes, moved |-> moved])

DoIdentity ==
    Idle("identity") /\ \E table \in {<<"a", "b">>, <<"b", "a">>, <<"a">>, <<"a", "none">>}, i, j \in 0 .. 2, v \in 1 .. 2, f, g \in Forms :
      Translate(table, <<<<"ns", i, 1, f>>, <<"ns", j, v, g>>>>, <<"b", "a">>)

\* Every way to write the id of a node of the model, by index or by uri, is translated to
\* the node's element id and to no other; a node whose namespace is unknown is found by
\* its id as the server writes it.  An element id does not change when the server gives
\* the namespaces other indexes.
IdentityRoundTrip ==
    Ran("identity") =>
      LET table == input.table
          resolve(n) == ResolveNodeId(table, input.nodes, n)
          known(n) == UriOf(table, n[2]) # "none"
      IN  \A k \in DOMAIN input.nodes :
            LET n == input.nodes[k] IN
            /\ known(n) => \A f \in Forms :
                 /\ resolve(<<"ns", n[2], n[3], f>>) = ElementId(table, n)
                 /\ resolve(<<"nsu", UriOf(table, n[2]), n[3], f>>) = ElementId(table, n)
            /\ ~known(n) => resolve(n) = ElementId(table, n)
            /\ \A j \in DOMAIN input.nodes : j # k => ElementId(table, n) # ElementId(table, input.nodes[j])
            /\ \A f \in Forms, i \in 0 .. Len(table) + 1, j \in DOMAIN input.nodes :
                 LET v == input.nodes[j][3] IN
                 resolve(<<"ns", i, v, f>>) = ElementId(table, n) => i = n[2] /\ v = n[3]
            /\ \A i \in 0 .. Len(input.moved) : known(n) /\ UriOf(input.moved, i) = UriOf(table, n[2]) =>
                 ElementId(input.moved, [n EXCEPT ![2] = i]) = ElementId(table, n)

-----------------------------------------------------------------------------
(* Resources                                                                *)

Catalogue(cache, prompts, file) == Idle("resources") /\ Run([cache |-> cache, prompts |-> prompts, file |-> file])

DoResources ==
    Idle("resources") /\ \E roots, nodes \in SUBSET (1 .. 2), built \in BOOLEAN, prompts \in SUBSET {1}, file \in BOOLEAN :
      Catalogue(IF built THEN [roots |-> roots, nodes |-> nodes] ELSE <<>>, prompts, file)

\* Every resource that is listed can be read, but for the overrides file when there is none.
ResourcesReadable ==
    Ran("resources") =>
      \A uri \in Catalog(input.cache, input.prompts) :
        ReadResource(input.cache, input.prompts, input.file, uri) \/ (uri = <<"fixed", "overrides">> /\ ~input.file)

-----------------------------------------------------------------------------

\* The MCP endpoint answers, streams, checks and translates as its parts above say.
McpConforms ==
    /\ McpOneReply /\ StreamsInStep /\ ToolCallsChecked /\ IdentityRoundTrip /\ ResourcesReadable

McpTasks == {"post", "mcp", "invoke", "identity", "resources"}

McpInit == task \in McpTasks /\ input = <<>>
McpNext == \/ \E q, sessions : PostRequest(q, sessions)
           \/ StartTransport \/ Connect \/ (\E s : Listen(s)) \/ (\E s, x : Notify(s, x))
           \/ (\E S : Disconnect(S)) \/ (\E k : Deliver(k)) \/ (\E k : Leave(k))
           \/ \E c, app : CallOf(c, app)
           \/ \E table, nodes, moved : Translate(table, nodes, moved)
           \/ \E cache, prompts, file : Catalogue(cache, prompts, file)
McpSpec == McpInit /\ [][McpNext]_vars
=============================================================================
