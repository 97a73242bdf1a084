--------------------------- MODULE WriteAlgorithms ---------------------------
(***************************************************************************)
(* Requests to write values and histories, round by round, compared with    *)
(* what they promise.  WriteSpec takes any updates; TLC takes those of      *)
(* DoWrite and DoHistories.                                                 *)
(***************************************************************************)
EXTENDS Computation, Writes

UpdateRecords ==
    [id : {"ok", "bad"}, node : {"property", "asset", "none"}, schema : {"accepts", "rejects", "missing"},
     access : {"ok", "denied", "raises", "service"}, same : BOOLEAN, variant : {"ok", "raises", "other"},
     write : {"ok", "unsupported", "raises", "service", "operation", "argument"}]

\* The input is the request and w, how far it is.
StartWrite(updates, context) ==
    /\ Idle("write") /\ updates \in Seq(UpdateRecords) /\ context \in BOOLEAN
    /\ Run([updates |-> updates, context |-> context, w |-> NewWrites])
StartHistories(updates, context, known) ==
    /\ Idle("writeHistory") /\ updates \in Seq(UpdateRecords) /\ context \in BOOLEAN
    /\ known \in {"unknown", "supported", "unsupported"}
    /\ Run([updates |-> updates, context |-> context, known |-> known, w |-> NewHistories(known)])

Pending == Len(input.w.results) < Len(input.updates)
Current == input.updates[Len(input.w.results) + 1]

NextValue   == Ran("write") /\ Pending /\ Run([input EXCEPT !.w = WriteValue(input.w, input.context, Current)])
NextHistory == Ran("writeHistory") /\ Pending /\ Run([input EXCEPT !.w = WriteHistory(input.w, input.context, Current)])

WriteTasks == {"write", "writeHistory"}

WriteInit == task \in WriteTasks /\ input = <<>>
WriteNext == \/ \E updates, context : StartWrite(updates, context)
             \/ \E updates, context, known : StartHistories(updates, context, known)
             \/ NextValue \/ NextHistory
WriteSpec == WriteInit /\ [][WriteNext]_vars

-----------------------------------------------------------------------------
(* The inputs of TLC                                                        *)

Update(node, schema, access, same, variant, write, id) ==
    [id |-> id, node |-> node, schema |-> schema, access |-> access, same |-> same, variant |-> variant, write |-> write]

\* One for each way an update can go.
Updates ==
    {Update(node, schema, "ok", FALSE, "ok", "ok", id) :
        node \in {"property", "asset", "none"}, schema \in {"accepts", "rejects", "missing"}, id \in {"ok", "bad"}}
    \cup {Update("property", "accepts", access, same, "ok", "ok", "ok") :
        access \in {"denied", "raises", "service"}, same \in BOOLEAN}
    \cup {Update("property", "accepts", "ok", FALSE, variant, "ok", "ok") : variant \in {"raises", "other"}}
    \cup {Update("property", "accepts", "ok", FALSE, "ok", write, "ok") :
        write \in {"unsupported", "raises", "service", "operation", "argument"}}

Triples == {<<a, b, c>> : a, b \in Updates, c \in {Update("property", "accepts", "ok", FALSE, "ok", "ok", "ok")}}
           \cup {<<a, b, a>> : a, b \in Updates}

DoWrite     == Idle("write") /\ \E updates \in Triples, context \in BOOLEAN : StartWrite(updates, context)
DoHistories == Idle("writeHistory") /\ \E updates \in Triples, context \in BOOLEAN, known \in {"unknown", "unsupported"} :
                 StartHistories(updates, context, known)

-----------------------------------------------------------------------------

\* Nothing is sent to the server unless the update has a valid id, names a property, fits
\* its schema and its type, and the server allows it; a success is reported only for what
\* the server accepted or had already; one update's failure keeps no other from being
\* written; and the types are resolved at most once, also when that fails.
WritesGuarded ==
    Ran("write") =>
      LET r == input.w IN
      /\ Len(r.results) <= Len(input.updates) /\ r.validator.tried <= 1
      /\ \A k \in 1 .. Len(r.results) :
           LET u == input.updates[k]
               allowed == u.id = "ok" /\ u.node = "property" /\ input.context /\ u.schema = "accepts" /\ u.access = "ok"
           IN  /\ r.results[k][2] = "sent" <=> allowed /\ u.variant = "ok"
               /\ r.results[k][1] = 200 =>
                    IF r.results[k][2] = "sent" THEN u.write = "ok"
                    ELSE u.access = "denied" /\ u.same

\* The history service is given up only after an update that was sent was answered with
\* unsupported, and then nothing more is sent; the whole request is Not Implemented only
\* when no update succeeded; the failure of one update, its read of the rights included,
\* keeps no other from being written.
HistoryLatch ==
    Ran("writeHistory") =>
      LET r == input.w
          refused(k) == r.results[k][2] = "sent" /\ input.updates[k].write = "service"
          done == 1 .. Len(r.results)
      IN  /\ \A k \in done :
               LET u == input.updates[k]
                   given == input.known = "unsupported" \/ \E j \in 1 .. k - 1 : refused(j)
                   allowed == u.node = "property" /\ input.context /\ u.schema = "accepts" /\ u.access = "ok"
               IN  /\ r.results[k][2] = "sent" <=> allowed /\ ~given
                   /\ r.results[k][1] = 200 => r.results[k][2] = "sent" /\ u.write = "ok"
          /\ HistoryStatus(r) = 501 => /\ \A k \in done : r.results[k][1] # 200
                                       /\ input.known = "unsupported" \/ \E j \in done : refused(j)

\* Updates of values and of histories are checked, sent and reported one by one.
UpdatesGuarded == WritesGuarded /\ HistoryLatch
=============================================================================
