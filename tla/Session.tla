------------------------------- MODULE Session -------------------------------
(***************************************************************************)
(* The OPC UA session of the gateway: the request gate and the slots of the *)
(* application requests, the reconnects of asyncua's supervisor and what    *)
(* the gateway does after each, and the requests that are repeated (reads,  *)
(* browses) or never repeated (writes, method calls) after a lost session.  *)
(*                                                                          *)
(* Source: i3x_server/infrastructure/opcua/client.py.                       *)
(*                                                                          *)
(* asyncua itself is external: its supervisor is modelled by the states the *)
(* client asks for and by the order in which it calls the client's hooks.   *)
(* A request that reached the server may be processed at any later time,    *)
(* also when its caller has given up.                                       *)
(***************************************************************************)
EXTENDS Naturals, FiniteSets, Sequences

CONSTANTS
    Callers,        \* tasks with one operation each
    Tracked,        \* asyncua subscriptions to restore after a reconnect
    MaxLoss,        \* bound of the model: losses of the transport or the session
    Plant           \* the value of the node when no request wrote it

ASSUME SessionAssumption == MaxLoss \in Nat /\ Plant \notin Callers

VARIABLES
    link,        \* uaclient.state, with the stages of a reconnect told apart
    valid,       \* the server still knows the session
    losses,
    hung,        \* tracked subscriptions whose restore does not return
    todo,        \* tracked subscriptions _recreate_subscriptions has still to do
    reused,      \* the supervisor re-activated the session it had
    boot,        \* progress of connect() and disconnect()
    snapshot,    \* _connection_state
    changes,     \* states the watcher has still to mirror
    event,       \* _reconnected_event
    recreated,   \* _reconnect_session_recreated
    handler,     \* the task of _reconnect_handler_loop
    typedefs,    \* type definitions since the last new session: "loaded", "missing", "failed"
    unheard,     \* history: a reconnect after the start of the last listener run
    call,        \* the request of each task
    node,        \* the task whose write the node shows, or Plant
    applied      \* history: times the server applied a write or call

linkVars    == <<link, valid, losses, hung, todo, reused>>
handlerVars == <<event, recreated, handler, typedefs, unheard>>
dataVars    == <<node, applied>>
vars == <<linkVars, boot, snapshot, changes, handlerVars, call, dataVars>>

\* stage: an operation of two requests is at its first or second.
NoCall == [pc |-> "idle", kind |-> "none", stage |-> 1, tries |-> 0, sent |-> FALSE,
           out |-> "none"]

Init ==
    /\ link = "closed" /\ valid = FALSE /\ losses = 0
    /\ hung = {} /\ todo = {} /\ reused = FALSE
    /\ boot = "off" /\ snapshot = "Disconnected" /\ changes = <<>>
    /\ event = FALSE /\ recreated = FALSE /\ handler = "off"
    /\ typedefs = "missing" /\ unheard = FALSE
    /\ call = [c \in Callers |-> NoCall]
    /\ node = Plant /\ applied = [c \in Callers |-> 0]

Reconnecting == {"lost", "channel", "restoring"}

-----------------------------------------------------------------------------
(* What becomes of a request                                                *)

\* Stage 1 of a write or call changes the server; stage 2 of a write reads the value
\* back.  Stage 2 of a browse asks for the references the first answer left out.
Changes(c) == call[c].kind \in {"write", "call"} /\ call[c].stage = 1

\* External: the effect of a request.  A server need not keep the quality and the
\* timestamp of a write.
Apply(c) ==
    /\ applied' = IF Changes(c) THEN [applied EXCEPT ![c] = @ + 1] ELSE applied
    /\ IF Changes(c) /\ call[c].kind = "write" THEN node' \in {c, Plant}
                                               ELSE node' = node

\* Fault: a write or call is repeated like a read.
ShouldRetry_writes(c, r) == call[c].tries = 1 /\ r \in {"lost", "closed"}
\* _should_retry_after_disconnect, asked by reads and browses only, once per request;
\* never for a timeout, nor when the gate has waited already.
ShouldRetry(c, r) == /\ call[c].kind \in {"read", "browse"} /\ call[c].tries = 1
                     /\ r \in {"lost", "closed"}

\* The task is done; a write or call may still reach the server.
Ended(c, o) == [NoCall EXCEPT !.pc = "end", !.kind = call[c].kind, !.out = o,
                              !.sent = (o = "error" /\ call[c].sent /\ Changes(c))]

\* A request that is not repeated fails; the read-back leaves the write uncertain.
Failure(c) == IF call[c].kind = "write" /\ call[c].stage = 2 THEN "uncertain" ELSE "error"

\* What write_value makes of the value it has read back.
Verdict(c) == IF call[c].kind = "write" /\ node # c THEN "unsupported" ELSE "ok"

\* The task goes on with the outcome r of its request: the next stage, one more try
\* after the reconnect, or the end.
After(c, r) ==
    IF r = "ok"
    THEN IF call[c].stage = 1 /\ call[c].kind \in {"write", "browse"}
         THEN [call[c] EXCEPT !.pc = "gate", !.stage = 2, !.tries = 1, !.sent = FALSE]
         ELSE Ended(c, Verdict(c))
    ELSE IF ShouldRetry(c, r) THEN [call[c] EXCEPT !.pc = "await", !.sent = FALSE]
         ELSE Ended(c, Failure(c))

-----------------------------------------------------------------------------
(* connect and disconnect                                                   *)

\* The watcher, while it runs, is told of every new state.  It makes no difference
\* between the states of a reconnect, so only the first of them is kept here.
LinkBecomes(l) ==
    /\ link' = l
    /\ changes' = IF boot \in {"typedefs", "up"} /\ {link, l} \cap {"connected"} # {}
                  THEN Append(changes, l) ELSE changes

\* connect() up to its first request: the session, the gate, the two tasks.
Connect ==
    /\ boot = "off"
    /\ boot' = "typedefs" /\ link' = "connected" /\ snapshot' = "Connected"
    /\ valid' = TRUE /\ handler' = "wait"
    /\ UNCHANGED <<losses, hung, todo, reused, changes, event, recreated, typedefs, unheard,
                   call, dataVars>>

\* load_additional_typedefinitions: both dictionaries may fail, nothing is raised.
LoadTypedefs == \/ link = "connected" /\ valid /\ typedefs' = "loaded"
                \/ typedefs' = "failed"

\* The rest of connect(); the operational limits are MetadataCache's.
FinishConnect ==
    /\ boot = "typedefs" /\ boot' = "up"
    /\ LoadTypedefs
    /\ UNCHANGED <<linkVars, snapshot, changes, event, recreated, handler, unheard,
                   call, dataVars>>

\* disconnect(): cancel and await both tasks, wherever they are ...
StopConnectionTasks ==
    /\ boot = "up" /\ boot' = "stopping"
    /\ handler' = "off" /\ changes' = <<>>
    /\ UNCHANGED <<linkVars, snapshot, event, recreated, typedefs, unheard,
                   call, dataVars>>

\* Requests on the wire fail.
FailOnWire == call' = [c \in Callers |-> IF call[c].pc = "wire" THEN After(c, "closed")
                                         ELSE call[c]]

\* ... then close the client.
Disconnect ==
    /\ boot = "stopping" /\ boot' = "down"
    /\ link' = "closed" /\ valid' = FALSE /\ todo' = {} /\ hung' = {}
    /\ snapshot' = "Disconnected"
    /\ FailOnWire
    /\ UNCHANGED <<losses, reused, changes, handlerVars, dataVars>>

-----------------------------------------------------------------------------
(* asyncua's supervisor                                                     *)

LoseTransport ==
    /\ link \in {"connected", "channel", "restoring"} /\ losses < MaxLoss
    /\ losses' = losses + 1
    /\ LinkBecomes("lost") /\ todo' = {} /\ hung' = {}
    /\ FailOnWire
    /\ UNCHANGED <<valid, reused, boot, snapshot, handlerVars, dataVars>>

\* The server drops the session; the transport looks healthy until somebody asks.
DropSession ==
    /\ valid /\ losses < MaxLoss
    /\ losses' = losses + 1 /\ valid' = FALSE
    /\ UNCHANGED <<link, hung, todo, reused, boot, snapshot, changes, handlerVars,
                   call, dataVars>>

Watchdog ==
    /\ link = "connected" /\ ~valid
    /\ LinkBecomes("lost")
    /\ FailOnWire
    /\ UNCHANGED <<valid, losses, hung, todo, reused, boot, snapshot, handlerVars,
                   dataVars>>

Reopen ==
    /\ link = "lost" /\ LinkBecomes("channel")
    /\ UNCHANGED <<valid, losses, hung, todo, reused, boot, snapshot, handlerVars,
                   call, dataVars>>

\* _try_reactivate_existing_session, else a new session.  Either is a request of
\* the supervisor, which needs no slot.
Activate ==
    /\ link = "channel"
    /\ \/ valid /\ reused' = TRUE /\ UNCHANGED valid
       \/ ~valid /\ reused' = FALSE /\ valid' = TRUE
    /\ LinkBecomes("restoring")
    /\ todo' = Tracked /\ hung' \in SUBSET Tracked
    /\ UNCHANGED <<losses, boot, snapshot, handlerVars, call, dataVars>>

\* A re-activation that does not answer in time drops the socket again.
ActivateTimesOut ==
    /\ link = "channel" /\ valid /\ losses < MaxLoss
    /\ losses' = losses + 1
    /\ LinkBecomes("lost")
    /\ UNCHANGED <<valid, hung, todo, reused, boot, snapshot, handlerVars, call,
                   dataVars>>

\* Fault: a restore without a deadline.
RestoreSubscription_noDeadline(s) ==
    /\ link = "restoring" /\ s \in todo /\ s \notin hung
    /\ todo' = todo \ {s} /\ hung' = hung
    /\ UNCHANGED <<link, valid, losses, reused, boot, snapshot, changes, handlerVars,
                   call, dataVars>>

\* One turn of _recreate_subscriptions: the restore returns, or is given up at its
\* deadline and the recreation is tried (whose failure is logged only).
RestoreSubscription(s) ==
    /\ link = "restoring" /\ s \in todo
    /\ \/ s \in hung /\ hung' = hung \ {s} /\ todo' = todo
       \/ s \notin hung /\ todo' = todo \ {s} /\ hung' = hung
    /\ UNCHANGED <<link, valid, losses, reused, boot, snapshot, changes, handlerVars,
                   call, dataVars>>

\* Fault: a reconnect that kept the session is not reported to a busy handler.
OnReconnected_busy ==
    /\ snapshot' = "Connected"
    /\ recreated' = (recreated \/ ~reused)
    /\ event' = (event \/ handler = "wait" \/ ~reused)
    /\ unheard' = TRUE

\* Fault: only the last reconnect decides whether the session is new.
OnReconnected_last ==
    /\ snapshot' = "Connected"
    /\ recreated' = ~reused
    /\ event' = TRUE
    /\ unheard' = TRUE

\* _on_asyncua_reconnected (the caches it invalidates are MetadataCache's).
OnReconnected ==
    /\ snapshot' = "Connected"
    /\ recreated' = (recreated \/ ~reused)
    /\ event' = TRUE
    /\ unheard' = TRUE

\* _finalize_reconnect: asyncua reports the state, then the callback runs.
FinalizeReconnect ==
    /\ link = "restoring" /\ todo = {}
    /\ LinkBecomes("connected")
    /\ typedefs' = IF reused THEN typedefs ELSE "missing"
    /\ OnReconnected
    /\ UNCHANGED <<valid, losses, hung, todo, reused, boot, handler, call, dataVars>>

Supervisor == \/ Watchdog \/ Reopen \/ Activate \/ FinalizeReconnect
              \/ \E s \in Tracked : RestoreSubscription(s)

-----------------------------------------------------------------------------
(* The gateway's own tasks                                                  *)

\* Fault: the states are mirrored by their own names.
ApplyClientState_raw(l) == l

\* Fault: the end of the reconnect is left to the callback.
ApplyClientState_sticky(l) == IF snapshot = "Reconnecting" THEN snapshot
                              ELSE IF l = "connected" THEN "Connected" ELSE "Reconnecting"

\* _apply_client_state.
ApplyClientState(l) == IF l = "connected" THEN "Connected"
                       ELSE IF boot = "down" THEN "Disconnected" ELSE "Reconnecting"

\* One turn of _watch_connection_state.
WatchState ==
    /\ boot \in {"typedefs", "up"} /\ changes # <<>>
    /\ changes' = Tail(changes)
    /\ snapshot' = ApplyClientState(Head(changes))
    /\ UNCHANGED <<linkVars, boot, handlerVars, call, dataVars>>

\* _reconnect_handler_loop wakes, clears the event and enters _handle_reconnected.
HandlerWakes ==
    /\ handler = "wait" /\ event
    /\ event' = FALSE /\ unheard' = FALSE
    /\ IF recreated THEN recreated' = FALSE /\ handler' = "typedefs"
                    ELSE recreated' = recreated /\ handler' = "listen"
    /\ UNCHANGED <<linkVars, boot, snapshot, changes, typedefs, call, dataVars>>

HandlerLoadsTypedefs ==
    /\ handler = "typedefs" /\ handler' = "listen"
    /\ LoadTypedefs
    /\ UNCHANGED <<linkVars, boot, snapshot, changes, event, recreated, unheard,
                   call, dataVars>>

\* The listeners return, or their exceptions are logged; back to the wait.
HandlerListens ==
    /\ handler = "listen" /\ handler' = "wait"
    /\ UNCHANGED <<linkVars, boot, snapshot, changes, event, recreated, typedefs, unheard,
                   call, dataVars>>

Handler == HandlerWakes \/ HandlerLoadsTypedefs \/ HandlerListens

-----------------------------------------------------------------------------
(* A request of a task                                                      *)

rest == <<boot, snapshot, handlerVars>>

Begin(c, k) ==
    /\ boot \in {"up", "stopping", "down"} /\ call[c].pc = "idle"
    /\ call' = [call EXCEPT ![c].pc = "gate", ![c].kind = k, ![c].tries = 1]
    /\ UNCHANGED <<linkVars, changes, dataVars, rest>>

\* _wait_until_ready, before a slot is asked for; a deadline ends the wait.
PassGate(c) ==
    /\ call[c].pc = "gate"
    /\ \/ link \notin Reconnecting /\ call' = [call EXCEPT ![c].pc = "queue"]
       \/ link \in Reconnecting /\ call' = [call EXCEPT ![c] = After(c, "gate")]
    /\ UNCHANGED <<linkVars, changes, dataVars, rest>>

\* _send_application_request: one of the slots, which other requests hold for an
\* unknown time, an open protocol, the wire.  The deadline covers the wait.
SendRequest(c) ==
    /\ call[c].pc = "queue"
    /\ \/ /\ link \notin {"lost", "closed"}
          /\ call' = [call EXCEPT ![c].pc = "wire", ![c].sent = TRUE]
       \/ link \in {"lost", "closed"} /\ call' = [call EXCEPT ![c] = After(c, "closed")]
       \/ call' = [call EXCEPT ![c] = After(c, "timeout")]
    /\ UNCHANGED <<linkVars, changes, dataVars, rest>>

WireTimesOut(c) ==
    /\ call[c].pc = "wire" /\ call' = [call EXCEPT ![c] = After(c, "timeout")]
    /\ UNCHANGED <<linkVars, changes, dataVars, rest>>

\* The server processes a request it has received, and its answer arrives ...
ServeRequest(c) ==
    /\ call[c].pc = "wire" /\ call[c].sent /\ valid /\ link # "channel"
    /\ Apply(c)
    /\ call' = [call EXCEPT ![c] = After(c, "ok")]
    /\ UNCHANGED <<linkVars, changes, rest>>

\* ... or gets lost: the caller waits on, or has given up long ago.
ServeUnheard(c) ==
    /\ call[c].sent /\ Changes(c) /\ valid
    /\ Apply(c)
    /\ call' = [call EXCEPT ![c].sent = FALSE]
    /\ UNCHANGED <<linkVars, changes, rest>>

\* The server does not know the session (any more).  A read hands the loss over to
\* the supervisor (notify_transport_lost) and waits; the watchdog may have been first.
RefuseRequest(c) ==
    /\ call[c].pc = "wire" /\ call[c].sent /\ (~valid \/ link = "channel")
    /\ call' = [call EXCEPT ![c] = After(c, "lost")]
    /\ IF ShouldRetry(c, "lost") /\ link = "connected" THEN LinkBecomes("lost")
       ELSE UNCHANGED <<link, changes>>
    /\ UNCHANGED <<valid, losses, hung, todo, reused, dataVars, rest>>

\* The value of the node changes for reasons of its own.
PlantChanges ==
    /\ node # Plant /\ node' = Plant
    /\ UNCHANGED <<linkVars, changes, call, applied, rest>>

\* Fault: the wait for the reconnect has no deadline.
AwaitReconnect_noDeadline(c) ==
    /\ call[c].pc = "await" /\ link = "connected"
    /\ call' = [call EXCEPT ![c].pc = "gate", ![c].tries = 2]
    /\ UNCHANGED <<linkVars, changes, dataVars, rest>>

\* _wait_for_reconnect: once more when connected, a ConnectionError at the deadline.
AwaitReconnect(c) ==
    /\ call[c].pc = "await"
    /\ \/ link = "connected" /\ call' = [call EXCEPT ![c].pc = "gate", ![c].tries = 2]
       \/ link # "connected" /\ call' = [call EXCEPT ![c] = Ended(c, Failure(c))]
    /\ UNCHANGED <<linkVars, changes, dataVars, rest>>

CallerStep(c) == PassGate(c) \/ SendRequest(c) \/ WireTimesOut(c) \/ AwaitReconnect(c)

-----------------------------------------------------------------------------

Next ==
    \/ Connect \/ FinishConnect \/ StopConnectionTasks \/ Disconnect
    \/ LoseTransport \/ DropSession \/ ActivateTimesOut \/ Supervisor
    \/ WatchState \/ Handler
    \/ \E c \in Callers, k \in {"read", "browse", "write", "call"} : Begin(c, k)
    \/ \E c \in Callers : CallerStep(c) \/ ServeRequest(c) \/ ServeUnheard(c) \/ RefuseRequest(c)
    \/ PlantChanges

Spec == Init /\ [][Next]_vars

\* The supervisor never gives up, deadlines pass, and the event loop runs ready tasks.
FairSpec ==
    /\ Spec
    /\ WF_vars(FinishConnect) /\ WF_vars(Disconnect)
    /\ WF_vars(Supervisor) /\ WF_vars(WatchState) /\ WF_vars(Handler)
    /\ \A c \in Callers : WF_vars(CallerStep(c))

-----------------------------------------------------------------------------
(* Correctness                                                              *)

TypeOK ==
    /\ link \in {"closed", "connected"} \cup Reconnecting
    /\ {valid, reused, event, recreated, unheard} \subseteq BOOLEAN
    /\ losses \in 0 .. MaxLoss /\ hung \subseteq Tracked /\ todo \subseteq Tracked
    /\ boot \in {"off", "typedefs", "up", "stopping", "down"}
    /\ snapshot \in {"Connected", "Reconnecting", "Disconnected"}
    /\ changes \in Seq({"connected", "lost"})
    /\ handler \in {"off", "wait", "typedefs", "listen"}
    /\ typedefs \in {"loaded", "missing", "failed"}
    /\ call \in [Callers -> [pc : {"idle", "gate", "queue", "wire", "await", "end"},
                             kind : {"none", "read", "browse", "write", "call"},
                             stage : 1 .. 2, tries : 0 .. 2, sent : BOOLEAN,
                             out : {"none", "ok", "error", "uncertain", "unsupported"}]]
    /\ node \in Callers \cup {Plant} /\ applied \in [Callers -> Nat]

\* "Do not replay a write after a connection loss: the server may already have
\* applied it": whatever is lost between a write or method call and its answer, the
\* server applies it at most once, and what the caller is told fits: every answer
\* but a plain error says that it was applied.
WritesNotRepeated ==
    \A c \in Callers :
       /\ applied[c] <= 1
       /\ call[c].kind \in {"write", "call"} /\ call[c].out \notin {"none", "error"}
             => applied[c] = 1

\* A session the supervisor reports as recreated gets its type definitions (or a logged failure to load them),
\* also when further losses and a reconnect that keeps the session come before the
\* handler gets to it: when it is idle and nothing is pending, none are missing.
TypedefsFollowSession ==
    (boot = "up" /\ link = "connected" /\ handler = "wait" /\ ~event) => typedefs # "missing"

\* The state of the client is consistent, type definitions included.
SessionConsistent == TypeOK /\ TypedefsFollowSession

\* Every request comes back: the gate, the slots, the wire and the wait for the
\* reconnect are bounded by deadlines, also when the client is closed meanwhile.
RequestsReturn ==
    \A c \in Callers : (call[c].pc \notin {"idle", "end"}) ~> (call[c].pc = "end")

\* After every reconnect the listeners run once more from their start, although the
\* handler may still be running them for an earlier one; only disconnect() ends this.
ReconnectsHeard == unheard ~> (~unheard \/ boot \in {"stopping", "down"})

\* A restore that hangs does not keep the supervisor from finishing the reconnect.
Recovers == (link \in Reconnecting) ~> (link \in {"connected", "closed"})

\* A loss is always recovered from, and the recovery always announced.
ReconnectsFinish == Recovers /\ ReconnectsHeard

\* The connection state the API reports is the client's again and again, although the
\* callback and the watcher set it independently of each other.
SnapshotAgrees ==
    []<>(\/ boot \in {"off", "stopping"}
         \/ snapshot = CASE link = "connected" -> "Connected"
                         [] link = "closed" -> "Disconnected"
                         [] OTHER -> "Reconnecting")

=============================================================================
