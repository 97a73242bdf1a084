-------------------------------- MODULE Reads --------------------------------
(***************************************************************************)
(* How OpcUaClient turns a list of nodes into Read and HistoryRead requests *)
(* and the answers into one list: batches, halves of batches, nodes alone.  *)
(*                                                                          *)
(* Source: i3x_server/infrastructure/opcua/client.py.                       *)
(*                                                                          *)
(* Items are numbers.  A server s is a record: the operations it accepts    *)
(* per request (limit), the limit it advertises (adv, 0 for none), the      *)
(* items whose presence makes a request fail (poison: an answer that cannot *)
(* be decoded; dead: a timeout), the items it answers with a bad status     *)
(* (bad), and whether it leaves out the last result (short).  A request is  *)
(* sent again once after a reconnect, which Session models; here it is one  *)
(* step.  An operation returns [ok, out] or [ok, err].                      *)
(***************************************************************************)
EXTENDS Naturals, Sequences, SequencesExt, FiniteSets

LOCAL Greater(a, b) == IF a > b THEN a ELSE b
LOCAL Lesser(a, b)  == IF a < b THEN a ELSE b

Good(out) == [ok |-> TRUE, out |-> out]
Raise(err) == [ok |-> FALSE, err |-> err]

\* Two results one after the other; the first exception wins.
Join(a, b) == IF ~a.ok THEN a ELSE IF ~b.ok THEN b ELSE Good(a.out \o b.out)

\* _chunked, _chunked_nodes
Chunks(items, size) ==
    [k \in 1 .. ((Len(items) + size - 1) \div size) |->
        SubSeq(items, (k - 1) * size + 1, Lesser(k * size, Len(items)))]

\* The results of one operation per chunk.
OverChunks(results) == FoldLeft(Join, Good(<<>>), results)

AdvertisedSize(adv, n) == IF adv = 0 THEN n ELSE adv

-----------------------------------------------------------------------------
(* The server                                                               *)

Value(i) == <<"value", i>>
BadStatus(i) == <<"bad", i>>
\* What the code itself puts in the place of a value it could not get.
BadNull == <<"badNull">>
Null == <<"null">>

Answer(s, i) == IF i \in s.bad THEN BadStatus(i) ELSE Value(i)

Read(s, items) ==
    IF Len(items) > s.limit THEN Raise("tooMany")
    ELSE IF ToSet(items) \cap s.dead # {} THEN Raise("transport")
    ELSE IF ToSet(items) \cap s.poison # {} THEN Raise("other")
    ELSE LET all == [k \in 1 .. Len(items) |-> Answer(s, items[k])]
         IN  Good(IF s.short THEN Front(all) ELSE all)

-----------------------------------------------------------------------------
(* Attributes                                                               *)

\* Fault: the right half loses its first item.
Halves_gap(items) ==
    LET at == Greater(1, Len(items) \div 2)
    IN  <<SubSeq(items, 1, at), SubSeq(items, at + 2, Len(items))>>
Halves(items) ==
    LET at == Greater(1, Len(items) \div 2)
    IN  <<SubSeq(items, 1, at), SubSeq(items, at + 1, Len(items))>>

\* _read_attribute_pairs_batch: a request too large is halved, a wrong number of
\* results is an error.
RECURSIVE ReadPairsBatch(_, _)
ReadPairsBatch(s, items) ==
    LET r == Read(s, items) IN
    IF r.ok THEN IF Len(r.out) # Len(items) THEN Raise("other") ELSE r
    ELSE IF r.err = "tooMany" /\ Len(items) > 1
    THEN Join(ReadPairsBatch(s, Halves(items)[1]), ReadPairsBatch(s, Halves(items)[2]))
    ELSE r

\* _read_attribute_pairs
ReadPairs(s, items) ==
    IF items = <<>> THEN Good(<<>>)
    ELSE LET chunks == Chunks(items, AdvertisedSize(s.adv, Len(items)))
         IN  OverChunks([k \in DOMAIN chunks |-> ReadPairsBatch(s, chunks[k])])

\* _read_attribute_batch_limited: a chunk too large is read in chunks of half its size.
RECURSIVE ReadLimited(_, _, _)
ReadLimited(s, items, size) ==
    IF items = <<>> THEN Good(<<>>)
    ELSE LET chunks == Chunks(items, size)
             one(c) == LET r == Read(s, c) IN
                 IF r.ok \/ r.err # "tooMany" \/ Len(c) <= 1 THEN r
                 ELSE ReadLimited(s, c, Greater(1, Len(c) \div 2))
         IN  OverChunks([k \in DOMAIN chunks |-> one(chunks[k])])

-----------------------------------------------------------------------------
(* Values                                                                   *)

BatchSize(s, items) == Greater(1, Lesser(AdvertisedSize(s.adv, Len(items)), Len(items)))

\* Fault: a timeout is taken for the failure of one node.
ReadOne_swallow(s, i) ==
    LET r == Read([s EXCEPT !.short = FALSE], <<i>>) IN IF r.ok THEN r ELSE Good(<<BadNull>>)
\* _read_one: a failure is a Bad value, unless the transport failed.
ReadOne(s, i) ==
    LET r == Read([s EXCEPT !.short = FALSE], <<i>>) IN
    IF r.ok \/ r.err = "transport" THEN r ELSE Good(<<BadNull>>)

\* _read_data_values_per_node
ReadPerNode(s, items) ==
    FoldLeft(LAMBDA acc, i : IF acc.ok THEN Join(acc, ReadOne(s, i)) ELSE acc, Good(<<>>), items)

\* read_data_values: one failed or incomplete batch sends every node alone.
ReadDataValues(s, items) ==
    LET r == ReadLimited(s, items, BatchSize(s, items)) IN
    IF items = <<>> THEN Good(<<>>)
    ELSE IF r.ok /\ Len(r.out) = Len(items) THEN r
    ELSE IF ~r.ok /\ r.err = "transport" THEN r
    ELSE ReadPerNode(s, items)

\* _read_values_batch_with_fallback: any failure halves the batch; null for a node alone.
RECURSIVE ReadValuesBatch(_, _)
ReadValuesBatch(s, items) ==
    LET r == Read(s, items) IN
    IF items = <<>> THEN Good(<<>>)
    ELSE IF r.ok THEN r
    ELSE IF Len(items) <= 1 THEN Good(<<Null>>)
    ELSE Join(ReadValuesBatch(s, Halves(items)[1]), ReadValuesBatch(s, Halves(items)[2]))

\* read_values
ReadValues(s, items) ==
    IF items = <<>> THEN Good(<<>>)
    ELSE LET chunks == Chunks(items, BatchSize(s, items))
         IN  OverChunks([k \in DOMAIN chunks |-> ReadValuesBatch(s, chunks[k])])

-----------------------------------------------------------------------------
(* Node infos: two attributes stand for _NODE_INFO_ATTRIBUTES               *)

NodeInfoAttributes == 2

\* _read_node_info: can the attributes of n be read without the other nodes?
NodeInfo(s, n) ==
    LET r == ReadPairs(s, [k \in 1 .. NodeInfoAttributes |-> n]) IN r.ok /\ r.out[1] = Value(n)

\* _read_node_infos_fallback; an info is a node with the attributes found for it.
NodeInfosFallback(s, nodes) ==
    LET read == SelectSeq(nodes, LAMBDA n : NodeInfo(s, n))
    IN  [k \in 1 .. Len(read) |-> [node |-> read[k], attributes |-> Value(read[k])]]

\* Fault: the attributes of a node are looked for at the place of the node.
AttributePlace_node(k) == k
\* The attributes of the k-th node are NodeInfoAttributes in a row.
AttributePlace(k) == (k - 1) * NodeInfoAttributes + 1

\* One batch of _read_node_infos_limited: the nodes read in bulk first, then those whose
\* mandatory attributes are missing, one by one; a batch that fails goes one by one.
NodeInfosBatch(s, nodes) ==
    LET pairs == [k \in 1 .. Len(nodes) * NodeInfoAttributes |->
                    nodes[((k - 1) \div NodeInfoAttributes) + 1]]
        r     == ReadPairs(s, pairs)
        found == [k \in 1 .. Len(nodes) |-> [node |-> nodes[k], attributes |-> r.out[AttributePlace(k)]]]
        given(e) == e.attributes[1] = "value"
        missing == SelectSeq(found, LAMBDA e : ~given(e))
    IN  IF r.ok
        THEN SelectSeq(found, given) \o NodeInfosFallback(s, [k \in 1 .. Len(missing) |-> missing[k].node])
        ELSE NodeInfosFallback(s, nodes)

\* _read_node_infos_limited: a batch fills at most one Read request.
NodeInfos(s, nodes) ==
    IF nodes = <<>> THEN <<>>
    ELSE FoldLeft(LAMBDA acc, c : acc \o NodeInfosBatch(s, c), <<>>,
                  Chunks(nodes, Greater(1, Lesser(AdvertisedSize(s.adv, Len(nodes)) \div NodeInfoAttributes,
                                                  Len(nodes)))))

-----------------------------------------------------------------------------
(* History: s.pages[i] is the number of pages of node i, and s.ends[i] what *)
(* the status of its last page says: "good", "nodata" or "bad".             *)

Page(i, n) == <<"page", i, n>>

\* The server answers a continuation point <<node, page>> only for its node.
HistoryResult(s, i, point) ==
    LET n == IF point = <<>> THEN 1 ELSE point[2] IN
    IF point # <<>> /\ point[1] # i THEN [status |-> "bad", data |-> <<>>, point |-> <<>>]
    ELSE [status |-> IF n = s.pages[i] THEN s.ends[i] ELSE "good",
          data   |-> <<Page(i, n)>>,
          point  |-> IF n < s.pages[i] THEN <<i, n + 1>> ELSE <<>>]

\* Fault: the second half of a split starts from the beginning again.
RestOf_restart(points, at) == [k \in 1 .. (Len(points) - at) |-> <<>>]
RestOf(points, at) == SubSeq(points, at + 1, Len(points))

\* _read_history_batch: nodes and continuation points are split alike.
RECURSIVE ReadHistoryBatch(_, _, _)
ReadHistoryBatch(s, nodes, points) ==
    IF Len(nodes) > s.limit
    THEN IF Len(nodes) = 1 THEN Raise("tooMany")
         ELSE LET h == Halves(nodes) IN
              Join(ReadHistoryBatch(s, h[1], SubSeq(points, 1, Len(h[1]))),
                   ReadHistoryBatch(s, h[2], RestOf(points, Len(h[1]))))
    ELSE IF ToSet(nodes) \cap s.dead # {} THEN Raise("transport")
    ELSE Good([k \in 1 .. Len(nodes) |-> HistoryResult(s, nodes[k], points[k])])

\* read_history_batch, the loop over continuation points; acc[i] are the values so far.
RECURSIVE HistoryPages(_, _, _, _)
HistoryPages(s, nodes, points, acc) ==
    LET r == ReadHistoryBatch(s, nodes, points)
        new == [i \in DOMAIN acc |->
                  IF \E k \in 1 .. Len(nodes) : nodes[k] = i
                  THEN LET k == CHOOSE k \in 1 .. Len(nodes) : nodes[k] = i IN
                       IF r.out[k].status = "nodata" THEN <<>> ELSE acc[i] \o r.out[k].data
                  ELSE acc[i]]
        more == SelectSeq([k \in 1 .. Len(nodes) |-> <<nodes[k], r.out[k].point>>],
                          LAMBDA p : p[2] # <<>>)
    IN  IF ~r.ok THEN r
        ELSE IF \E k \in 1 .. Len(nodes) : r.out[k].status = "bad" THEN Raise("other")
        ELSE IF more = <<>> THEN Good(new)
        ELSE HistoryPages(s, [k \in 1 .. Len(more) |-> more[k][1]],
                          [k \in 1 .. Len(more) |-> more[k][2]], new)

\* read_history_values: the first batch that fails fails the request.
ReadHistory(s, nodes) ==
    LET batches == Chunks(nodes, Greater(1, AdvertisedSize(s.adv, Len(nodes))))
        result(b) == HistoryPages(s, b, [k \in 1 .. Len(b) |-> <<>>], [i \in ToSet(b) |-> <<>>])
        results == [k \in 1 .. Len(batches) |-> result(batches[k])]
    IN  IF \E k \in 1 .. Len(batches) : ~results[k].ok THEN Raise("other")
        ELSE Good([i \in ToSet(nodes) |->
                     LET k == CHOOSE k \in 1 .. Len(batches) : i \in DOMAIN results[k].out
                     IN  results[k].out[i]])
=============================================================================
