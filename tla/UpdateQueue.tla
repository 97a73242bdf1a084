----------------------------- MODULE UpdateQueue -----------------------------
(***************************************************************************)
(* The update queue of ONE i3X subscription and everyone who touches it.    *)
(*                                                                          *)
(* Source: i3x_server/infrastructure/subscriptions/service.py (state and    *)
(* critical sections) and i3x_server/application/services/subscription.py   *)
(* (begin_stream_session, iter_stream_events, get_pending_updates).         *)
(*                                                                          *)
(* The program is a single asyncio event loop.  A coroutine gives up        *)
(* control only at an await, so every `async with self._lock` block is one  *)
(* atomic action here, and the code between two blocks is where the other   *)
(* tasks interleave.  The one block that loops (the append loop of          *)
(* _refresh_changed_values) is a sequence of actions taken while `holder`   *)
(* keeps every other section out.                                           *)
(*                                                                          *)
(* Callers are HTTP requests that sync or change the monitored items;       *)
(* Streams are SSE requests.  What the OPC UA server reports is arbitrary:  *)
(* any node, any value, at any moment.                                      *)
(***************************************************************************)
EXTENDS Integers, FiniteSets

CONSTANTS
    Nodes,         \* OPC UA node ids that can be monitored
    Values,        \* normalised values
    Callers,       \* concurrent sync/register/unregister requests
    Streams,       \* SSE stream requests; each runs once
    Foreign,       \* streams whose clientId is not the subscription's
    MaxUpdates,    \* max_updates_per_subscription
    RefreshMode,   \* native_timeout_refresh_mode
    Threshold,     \* refresh_timeout_threshold of the adaptive mode
    Seed,          \* seed_initial_values
    MaxSeq,        \* bound of the model: highest sequence number explored
    Ends,          \* bound of the model: how the subscription may end
    NoValue, NoAck, NoTask

ASSUME MaxUpdatesAssumption == MaxUpdates \in Nat \ {0}
ASSUME BoundsAssumption == MaxSeq \in Nat /\ Threshold \in Nat \ {0}
ASSUME TasksAssumption == /\ Callers \cap Streams = {}
                          /\ NoTask \notin Callers \cup Streams
                          /\ Foreign \subseteq Streams
ASSUME NoneAssumption == NoValue \notin Values /\ NoAck \notin Int
ASSUME ModeAssumption == /\ RefreshMode \in {"hybrid", "strict", "adaptive"}
                         /\ Seed \in BOOLEAN
ASSUME EndsAssumption == Ends \subseteq {"delete", "expire", "shutdown"}

Tasks == Callers \cup Streams

VARIABLES
    \* _SubscriptionState, while it is in self._subscriptions
    exists,            \* the id is a key of _subscriptions
    stale,             \* ttl_seconds have passed since last_activity_monotonic
    monitored,         \* monitored_node_ids
    mode,              \* mode
    last_values,       \* last_values_by_node_id
    updates,           \* updates: the list, in sequence_number order
    sequence_number,
    dropped,           \* dropped_from_sequence, dropped_to_sequence (0 = None)
    generation,        \* active_stream_generation
    stream_connected,
    timeout_count,     \* native_timeout_count
    \* the service and its tasks
    shutdown,          \* _shutdown_event, and how far close() has come
    holder,            \* the task inside the append loop of a refresh
    pc,                \* where each task is
    ret,               \* where a refresh returns to
    reading,           \* node_ids whose values a refresh has yet to append
    \* locals of iter_stream_events / wait_for_updates
    gen,               \* stream_generation
    preload,           \* acknowledged_updates
    last_sequence,
    woken,             \* waiting streams whose update_event has been set
    on_timeout,        \* should_refresh_after_timeout
    \* history: what became of every sequence number
    acked,             \* covered by an acknowledgement of the client
    lost,              \* removed from the queue by overflow
    told,              \* inside a dropped range that a sync response carried
    swallowed,         \* inside a dropped range that opening a stream reset
    sent,              \* yielded by each stream
    overdue,           \* batches a stream yielded after losing its generation
    repeated           \* streams that yielded a number not above all earlier ones

subVars   == <<exists, stale, shutdown>>
itemVars  == <<monitored, mode>>
queueVars == <<last_values, updates, sequence_number, dropped, lost>>
ackVars   == <<acked, told, swallowed>>
genVars   == <<generation, stream_connected, gen>>
sendVars  == <<last_sequence, sent, overdue, repeated>>
waitVars  == <<timeout_count, on_timeout>>
taskVars  == <<holder, pc, ret, reading, preload, woken>>
vars == <<subVars, itemVars, queueVars, ackVars, genVars, sendVars, waitVars, taskVars>>

Update == [seq : Nat, node : Nodes, value : Values]
SeqsOf(us) == {u.seq : u \in us}
Range0(d)  == IF d.from = 0 THEN {} ELSE d.from .. d.to
NoDrop     == [from |-> 0, to |-> 0]

\* A task that is between two critical sections.
CallerStates == {"idle", "mode", "refresh", "reading", "appending", "collect"}
\* begin_stream_session and the generator; "abandoned" is a response whose
\* generator was never started.
StreamStates == {"new", "sync", "refresh", "reading", "appending", "collect",
                 "opened", "check", "wait", "waiting", "due", "late",
                 "closing", "closed", "abandoned"}
\* The generator has been entered and has not run its finally block.
Running == {"check", "wait", "waiting", "due", "late", "closing"}

-----------------------------------------------------------------------------
(* create_subscription has returned: an empty, idle subscription.           *)

Init ==
    /\ exists = TRUE /\ stale = FALSE /\ shutdown = "no"
    /\ monitored = {} /\ mode = "idle"
    /\ last_values = [n \in Nodes |-> NoValue]
    /\ updates = {} /\ sequence_number = 0 /\ dropped = NoDrop
    /\ generation = 0 /\ stream_connected = FALSE /\ timeout_count = 0
    /\ holder = NoTask
    /\ pc = [t \in Tasks |-> IF t \in Streams THEN "new" ELSE "idle"]
    /\ ret = [t \in Tasks |-> "idle"]
    /\ reading = [t \in Tasks |-> {}]
    /\ gen = [s \in Streams |-> 0]
    /\ preload = [s \in Streams |-> {}]
    /\ last_sequence = [s \in Streams |-> 0]
    /\ woken = {}
    /\ on_timeout = {}
    /\ acked = {} /\ lost = {} /\ told = {} /\ swallowed = {}
    /\ sent = [s \in Streams |-> {}]
    /\ overdue = [s \in Streams |-> 0]
    /\ repeated = {}

-----------------------------------------------------------------------------
(* Helpers                                                                  *)

Goto(t, l) == pc' = [pc EXCEPT ![t] = l]
Touch      == stale' = FALSE
\* A refresh returns to its caller.
Return(t)  == Goto(t, ret[t]) /\ ret' = [ret EXCEPT ![t] = "idle"]
Unlocked   == holder = NoTask

\* update_event.set() completes the wait() of every stream that is waiting.
SetEvent == woken' = {s \in Streams : pc[s] = "waiting"}

Oldest(us) == CHOOSE u \in us : \A w \in us : u.seq <= w.seq
Newest(us) == CHOOSE u \in us : \A w \in us : w.seq <= u.seq

\* Fault: pop only when the queue is already over its limit.
Enqueue_late(us, u) == IF Cardinality(us) > MaxUpdates
                       THEN (us \ {Oldest(us)}) \cup {u}
                       ELSE us \cup {u}

\* state.updates.append, after popping the oldest entry of a full queue.
Enqueue(us, u) == IF Cardinality(us) >= MaxUpdates
                  THEN (us \ {Oldest(us)}) \cup {u}
                  ELSE us \cup {u}

\* Fault: every drop starts the range anew.
NoteDrop_restart(d, us) == IF Cardinality(us) >= MaxUpdates
                           THEN [from |-> Oldest(us).seq, to |-> Oldest(us).seq]
                           ELSE d

\* The dropped range is opened by the first drop and extended by every later
\* one until a sync resets it.
NoteDrop(d, us) == IF Cardinality(us) >= MaxUpdates
                   THEN [from |-> IF d.from = 0 THEN Oldest(us).seq ELSE d.from,
                         to   |-> Oldest(us).seq]
                   ELSE d

\* Fault: the last value is remembered only when the queue has room.
AppendUpdate_forget(n, v) ==
    \/ /\ last_values[n] = v
       /\ UNCHANGED <<queueVars, woken>>
    \/ /\ last_values[n] # v
       /\ last_values' = IF Cardinality(updates) >= MaxUpdates THEN last_values
                         ELSE [last_values EXCEPT ![n] = v]
       /\ sequence_number' = sequence_number + 1
       /\ updates' = Enqueue(updates, [seq |-> sequence_number + 1, node |-> n, value |-> v])
       /\ dropped' = NoteDrop(dropped, updates)
       /\ lost' = lost \cup (SeqsOf(updates) \ SeqsOf(updates'))
       /\ SetEvent
AppendUpdate(n, v) ==
    \/ /\ last_values[n] = v
       /\ UNCHANGED <<queueVars, woken>>
    \/ /\ last_values[n] # v
       /\ last_values' = [last_values EXCEPT ![n] = v]
       /\ sequence_number' = sequence_number + 1
       /\ updates' = Enqueue(updates, [seq |-> sequence_number + 1, node |-> n, value |-> v])
       /\ dropped' = NoteDrop(dropped, updates)
       /\ lost' = lost \cup (SeqsOf(updates) \ SeqsOf(updates'))
       /\ SetEvent

-----------------------------------------------------------------------------
(* Notifications from the OPC UA server                                     *)

\* handle_datachange: a node that is not monitored (any more) is taken for the
\* only monitored node when there is exactly one, and ignored otherwise.
Resolve(n) == IF n \in monitored THEN {n}
              ELSE IF Cardinality(monitored) = 1 THEN monitored ELSE {}

Notify(n, v) ==
    /\ Unlocked /\ exists /\ sequence_number < MaxSeq
    /\ \E m \in Resolve(n) : AppendUpdate(m, v)
    /\ timeout_count' = 0
    /\ UNCHANGED <<subVars, itemVars, ackVars, genVars, sendVars, on_timeout,
                   holder, pc, ret, reading, preload>>

-----------------------------------------------------------------------------
(* register_items, unregister_items                                         *)

\* The critical section: the resolved node set is whatever the objects and the
\* model give; last values survive for the nodes that stay monitored.
SetMonitored(c, S) ==
    /\ Unlocked /\ exists /\ pc[c] = "idle"
    /\ monitored' = S
    /\ last_values' = [n \in Nodes |-> IF n \in S THEN last_values[n] ELSE NoValue]
    /\ Touch
    /\ Goto(c, "mode")
    /\ UNCHANGED <<exists, shutdown, mode, updates, sequence_number, dropped, lost,
                   ackVars, genVars, sendVars, waitVars, holder, ret, reading,
                   preload, woken>>

RegisterItems(c, S)   == S \ monitored # {} /\ SetMonitored(c, S)
UnregisterItems(c, S) == S \ monitored = {} /\ SetMonitored(c, S)

\* Fault: nodes in different modes leave the subscription in a third one.
ModeOf_mixed(S) == IF S = {} THEN {"idle"} ELSE {"native", "polling", "mixed"}

\* _update_subscription_mode: the node monitors decide between native and
\* polling (see NodeMonitors); without nodes the subscription is idle.
ModeOf(S) == IF S = {} THEN {"idle"} ELSE {"native", "polling"}

\* The tail of _apply_monitored_node_diff: the mode, then the seed refresh.
ApplyDiff(c) ==
    /\ Unlocked /\ pc[c] = "mode"
    /\ IF exists THEN mode' \in ModeOf(monitored) ELSE UNCHANGED mode
    /\ Goto(c, IF Seed THEN "refresh" ELSE "idle")
    /\ UNCHANGED <<subVars, monitored, queueVars, ackVars, genVars, sendVars,
                   waitVars, holder, ret, reading, preload, woken>>

\* _handle_client_reconnect ends by recomputing every subscription's mode.
ReconnectMode ==
    /\ Unlocked /\ exists
    /\ mode' \in ModeOf(monitored)
    /\ UNCHANGED <<subVars, monitored, queueVars, ackVars, genVars, sendVars,
                   waitVars, taskVars>>

-----------------------------------------------------------------------------
(* _refresh_changed_values                                                  *)

RefreshBegin(t) ==
    /\ Unlocked /\ pc[t] = "refresh"
    /\ LET ns == IF exists /\ mode # "idle" THEN monitored ELSE {} IN
       /\ reading' = [reading EXCEPT ![t] = ns]
       /\ IF ns = {} THEN Return(t) ELSE Goto(t, "reading") /\ UNCHANGED ret
    /\ UNCHANGED <<subVars, itemVars, queueVars, ackVars, genVars, sendVars,
                   waitVars, holder, preload, woken>>

\* Fault: a failed read is tried again, for ever.
RefreshFail_retry(t) ==
    /\ pc[t] = "reading"
    /\ reading' = [reading EXCEPT ![t] = {}]
    /\ Goto(t, "refresh")
    /\ UNCHANGED <<subVars, itemVars, queueVars, ackVars, genVars, sendVars,
                   waitVars, holder, ret, preload, woken>>

\* read_values raised, or the subscription went away during the read.
RefreshFail(t) ==
    /\ pc[t] = "reading"
    /\ reading' = [reading EXCEPT ![t] = {}]
    /\ Return(t)
    /\ UNCHANGED <<subVars, itemVars, queueVars, ackVars, genVars, sendVars,
                   waitVars, holder, preload, woken>>

\* read_values returned; take the lock for the append loop.
RefreshLock(t) ==
    /\ Unlocked /\ exists /\ pc[t] = "reading"
    /\ sequence_number + Cardinality(reading[t]) <= MaxSeq
    /\ holder' = t
    /\ Goto(t, "appending")
    /\ UNCHANGED <<subVars, itemVars, queueVars, ackVars, genVars, sendVars,
                   waitVars, ret, reading, preload, woken>>

\* One iteration; a node that was unregistered during the read is skipped.
RefreshAppend(t, n, v) ==
    /\ holder = t /\ n \in reading[t]
    /\ IF n \in monitored THEN AppendUpdate(n, v)
                          ELSE UNCHANGED <<queueVars, woken>>
    /\ reading' = [reading EXCEPT ![t] = @ \ {n}]
    /\ UNCHANGED <<subVars, itemVars, ackVars, genVars, sendVars, waitVars,
                   holder, pc, ret, preload>>

RefreshDone(t) ==
    /\ holder = t /\ reading[t] = {}
    /\ holder' = NoTask
    /\ Touch
    /\ Return(t)
    /\ UNCHANGED <<exists, shutdown, itemVars, queueVars, ackVars, genVars,
                   sendVars, waitVars, reading, preload, woken>>

Refresh(t) == \/ RefreshBegin(t) \/ RefreshLock(t) \/ RefreshFail(t)
              \/ \E n \in Nodes, v \in Values : RefreshAppend(t, n, v)
              \/ RefreshDone(t)

-----------------------------------------------------------------------------
(* sync, called by get_pending_updates and by begin_stream_session          *)

\* Fault: the acknowledged number is taken for the first one still wanted, plus one.
Acknowledged_plus(ack) ==
    CASE ack = NoAck -> {}
      [] ack = -1    -> updates
      [] OTHER       -> IF 0 <= ack /\ ack <= sequence_number
                        THEN {u \in updates : u.seq <= ack + 1} ELSE {}

\* What an acknowledgement removes: everything for -1, a prefix for a number
\* that has been issued, nothing otherwise.
Acknowledged(ack) ==
    CASE ack = NoAck -> {}
      [] ack = -1    -> updates
      [] OTHER       -> IF 0 <= ack /\ ack <= sequence_number
                        THEN {u \in updates : u.seq <= ack} ELSE {}

\* What the client has thereby said it is done with.
Covered(ack) ==
    CASE ack = NoAck -> {}
      [] ack = -1    -> 1 .. sequence_number
      [] OTHER       -> IF ack <= sequence_number THEN 1 .. ack ELSE {}

\* First section: acknowledge, and refresh when there is nothing to return.
SyncAck(t, ack) ==
    /\ updates' = updates \ Acknowledged(ack)
    /\ acked' = acked \cup Covered(ack)
    /\ Touch
    /\ IF ack = NoAck /\ updates = {} /\ monitored # {}
       THEN Goto(t, "refresh") /\ ret' = [ret EXCEPT ![t] = "collect"]
       ELSE Goto(t, "collect") /\ UNCHANGED ret
    /\ UNCHANGED <<exists, shutdown, itemVars, last_values, sequence_number, dropped,
                   lost, told, swallowed, genVars, sendVars, waitVars, holder,
                   reading, preload, woken>>

\* A sync request is refused while a stream is connected.
Sync(c, ack) ==
    /\ Unlocked /\ exists /\ ~stream_connected /\ pc[c] = "idle"
    /\ SyncAck(c, ack)

\* Second section: return the queue and the dropped range, and reset the range.
SyncCollect(c) ==
    /\ Unlocked /\ pc[c] = "collect"
    /\ IF exists
       THEN /\ told' = told \cup Range0(dropped)
            /\ dropped' = NoDrop
            /\ Touch
       ELSE UNCHANGED <<told, dropped, stale>>
    /\ Goto(c, "idle")
    /\ UNCHANGED <<exists, shutdown, itemVars, last_values, updates, sequence_number,
                   lost, acked, swallowed, genVars, sendVars, waitVars, holder, ret,
                   reading, preload, woken>>

-----------------------------------------------------------------------------
(* begin_stream_session                                                     *)

\* activate_stream; a foreign clientId is retried without a client scope.
ActivateStream(s) ==
    /\ Unlocked /\ pc[s] = "new"
    /\ IF exists
       THEN /\ generation' = generation + 1
            /\ gen' = [gen EXCEPT ![s] = generation + 1]
            /\ stream_connected' = TRUE
            /\ Touch
            /\ SetEvent
            /\ Goto(s, "sync")
       ELSE /\ Goto(s, "closed")
            /\ UNCHANGED <<genVars, stale, woken>>
    /\ UNCHANGED <<exists, shutdown, itemVars, queueVars, ackVars, sendVars, waitVars,
                   holder, ret, reading, preload>>

StreamSync(s) ==
    /\ Unlocked /\ pc[s] = "sync"
    /\ \/ exists /\ SyncAck(s, NoAck)
       \/ /\ ~exists /\ Goto(s, "closed")
          /\ UNCHANGED <<subVars, itemVars, queueVars, ackVars, genVars, sendVars,
                         waitVars, holder, ret, reading, preload, woken>>

\* The result keeps the updates for the generator; the dropped range it also
\* carries is read by nobody.
StreamCollect(s) ==
    /\ Unlocked /\ pc[s] = "collect"
    /\ IF exists
       THEN /\ preload' = [preload EXCEPT ![s] = updates]
            /\ swallowed' = swallowed \cup Range0(dropped)
            /\ dropped' = NoDrop
            /\ Touch
            /\ Goto(s, "opened")
       ELSE /\ Goto(s, "closed")
            /\ UNCHANGED <<preload, swallowed, dropped, stale>>
    /\ UNCHANGED <<exists, shutdown, itemVars, last_values, updates, sequence_number,
                   lost, acked, told, genVars, sendVars, waitVars, holder, ret,
                   reading, woken>>

-----------------------------------------------------------------------------
(* iter_stream_events and wait_for_updates                                  *)

\* Fault: last_sequence stays behind, at the first entry of the batch.
Yield_first(s, batch) ==
    IF batch = {} THEN UNCHANGED sendVars
    ELSE /\ last_sequence' = [last_sequence EXCEPT ![s] = Oldest(batch).seq - 1]
         /\ sent' = [sent EXCEPT ![s] = @ \cup SeqsOf(batch)]
         /\ overdue' = [overdue EXCEPT ![s] = IF gen[s] = generation THEN @ ELSE @ + 1]
         /\ repeated' = IF \E u \in batch, k \in sent[s] : u.seq <= k
                        THEN repeated \cup {s} ELSE repeated

\* Fault: last_sequence advances to the newest number issued.
Yield_issued(s, batch) ==
    IF batch = {} THEN UNCHANGED sendVars
    ELSE /\ last_sequence' = [last_sequence EXCEPT ![s] = sequence_number]
         /\ sent' = [sent EXCEPT ![s] = @ \cup SeqsOf(batch)]
         /\ overdue' = [overdue EXCEPT ![s] = IF gen[s] = generation THEN @ ELSE @ + 1]
         /\ repeated' = IF \E u \in batch, k \in sent[s] : u.seq <= k
                        THEN repeated \cup {s} ELSE repeated

\* yield a batch (last_sequence advances to its last entry) or a keepalive.
Yield(s, batch) ==
    IF batch = {} THEN UNCHANGED sendVars
    ELSE /\ last_sequence' = [last_sequence EXCEPT ![s] = Newest(batch).seq]
         /\ sent' = [sent EXCEPT ![s] = @ \cup SeqsOf(batch)]
         /\ overdue' = [overdue EXCEPT ![s] = IF gen[s] = generation THEN @ ELSE @ + 1]
         /\ repeated' = IF \E u \in batch, k \in sent[s] : u.seq <= k
                        THEN repeated \cup {s} ELSE repeated

\* Fault: off by one, the update right after last_sequence is skipped.
Pending_skip(s) == {u \in updates : u.seq > last_sequence[s] + 1}
Pending(s) == {u \in updates : u.seq > last_sequence[s]}

\* The generator's first steps: connected, then the preloaded updates.
StreamStart(s) ==
    /\ pc[s] = "opened"
    /\ Yield(s, preload[s])
    /\ preload' = [preload EXCEPT ![s] = {}]
    /\ Goto(s, "check")
    /\ UNCHANGED <<subVars, itemVars, queueVars, ackVars, genVars, waitVars, holder,
                   ret, reading, woken>>

\* Fault: the generation is not compared.
IsStreamActive_any(s) ==
    /\ Unlocked /\ pc[s] = "check"
    /\ Goto(s, IF exists THEN "wait" ELSE "closing")
    /\ UNCHANGED <<subVars, itemVars, queueVars, ackVars, genVars, sendVars, waitVars,
                   holder, ret, reading, preload, woken>>
IsStreamActive(s) ==
    /\ Unlocked /\ pc[s] = "check"
    /\ Goto(s, IF exists /\ generation = gen[s] THEN "wait" ELSE "closing")
    /\ UNCHANGED <<subVars, itemVars, queueVars, ackVars, genVars, sendVars, waitVars,
                   holder, ret, reading, preload, woken>>

\* The locals of wait_for_updates die with the call.
EndWait(s) == woken' = woken \ {s} /\ on_timeout' = on_timeout \ {s}

\* The scope check at the head of every section of wait_for_updates.
InScope(s) == exists /\ s \notin Foreign

WaitBegin(s) ==
    /\ Unlocked /\ pc[s] = "wait"
    /\ IF ~InScope(s)
       THEN /\ Goto(s, "closing")
            /\ UNCHANGED <<stale, sendVars, waitVars>>
       ELSE /\ Touch
            /\ Yield(s, Pending(s))
            /\ IF Pending(s) # {}
               THEN /\ timeout_count' = 0
                    /\ Goto(s, "check")
                    /\ UNCHANGED on_timeout
               ELSE /\ on_timeout' = IF /\ mode = "native" /\ monitored # {}
                                        /\ RefreshMode # "strict"
                                     THEN on_timeout \cup {s} ELSE on_timeout
                    /\ Goto(s, "waiting")
                    /\ UNCHANGED timeout_count
    /\ UNCHANGED <<exists, shutdown, itemVars, queueVars, ackVars, genVars, holder,
                   ret, reading, preload, woken>>

\* Leave the wait with a batch, a keepalive or, out of scope, the close event.
WaitReturn(s) ==
    IF InScope(s)
    THEN /\ Touch /\ Yield(s, Pending(s)) /\ Goto(s, "check")
    ELSE /\ Goto(s, "closing") /\ UNCHANGED <<stale, sendVars>>

\* update_event was set.
WaitWake(s) ==
    /\ Unlocked /\ pc[s] = "waiting" /\ s \in woken /\ shutdown = "no"
    /\ WaitReturn(s)
    /\ timeout_count' = IF InScope(s) THEN 0 ELSE timeout_count
    /\ EndWait(s)
    /\ UNCHANGED <<exists, shutdown, itemVars, queueVars, ackVars, genVars,
                   holder, ret, reading, preload>>

\* Fault: the aborted wait is reported as a keepalive.
WaitAbort_keepalive(s) ==
    /\ pc[s] = "waiting" /\ shutdown # "no"
    /\ EndWait(s)
    /\ Goto(s, "check")
    /\ UNCHANGED <<subVars, itemVars, queueVars, ackVars, genVars, sendVars,
                   timeout_count, holder, ret, reading, preload>>

\* _shutdown_event was set: wait_for_updates returns None.
WaitAbort(s) ==
    /\ pc[s] = "waiting" /\ shutdown # "no"
    /\ EndWait(s)
    /\ Goto(s, "closing")
    /\ UNCHANGED <<subVars, itemVars, queueVars, ackVars, genVars, sendVars,
                   timeout_count, holder, ret, reading, preload>>

\* The wall-clock timeout: count it; natively monitored values are re-read at
\* every timeout in hybrid mode, at the threshold in adaptive mode.  It may also
\* come although the event was set: the clear() of another stream hides it from a
\* waiter task that has not started yet.
WaitTimeout(s) ==
    /\ Unlocked /\ pc[s] = "waiting" /\ shutdown = "no"
    /\ IF InScope(s)
       THEN LET n   == IF s \in on_timeout THEN timeout_count + 1 ELSE timeout_count
                due == s \in on_timeout /\ (RefreshMode = "adaptive" => n >= Threshold)
            IN  timeout_count' = n /\ Goto(s, IF due THEN "due" ELSE "late")
       ELSE Goto(s, "closing") /\ UNCHANGED timeout_count
    /\ EndWait(s)
    /\ UNCHANGED <<subVars, itemVars, queueVars, ackVars, genVars, sendVars,
                   holder, ret, reading, preload>>

\* The section that resets the count before the refresh.
WaitTimeoutReset(s) ==
    /\ Unlocked /\ pc[s] = "due"
    /\ IF InScope(s)
       THEN timeout_count' = 0 /\ Goto(s, "refresh") /\ ret' = [ret EXCEPT ![s] = "late"]
       ELSE Goto(s, "closing") /\ UNCHANGED <<timeout_count, ret>>
    /\ UNCHANGED <<subVars, itemVars, queueVars, ackVars, genVars, sendVars, on_timeout,
                   holder, reading, preload, woken>>

WaitTimeoutResult(s) ==
    /\ Unlocked /\ pc[s] = "late"
    /\ WaitReturn(s)
    /\ UNCHANGED <<exists, shutdown, itemVars, queueVars, ackVars, genVars, waitVars,
                   holder, ret, reading, preload, woken>>

\* The client hangs up: the generator is cancelled at its current await.
Disconnect(s) ==
    /\ \/ pc[s] \in {"opened", "check", "wait", "waiting", "due", "late"}
       \/ pc[s] \in {"refresh", "reading"} /\ ret[s] = "late"
    /\ EndWait(s)
    /\ reading' = [reading EXCEPT ![s] = {}]
    /\ preload' = [preload EXCEPT ![s] = {}]
    /\ ret' = [ret EXCEPT ![s] = "idle"]
    /\ Goto(s, "closing")
    /\ UNCHANGED <<subVars, itemVars, queueVars, ackVars, genVars, sendVars,
                   timeout_count, holder>>

\* The response is dropped before the generator takes its first step: a
\* generator that was never started runs no finally block.
Abandon(s) ==
    /\ pc[s] = "opened"
    /\ Goto(s, "abandoned")
    /\ UNCHANGED <<subVars, itemVars, queueVars, ackVars, genVars, sendVars, waitVars,
                   holder, ret, reading, preload, woken>>

\* Fault: any stream's end disconnects the subscription.
DeactivateStream_any(s) ==
    /\ Unlocked /\ pc[s] = "closing"
    /\ IF exists THEN stream_connected' = FALSE /\ Touch
                 ELSE UNCHANGED <<stream_connected, stale>>
    /\ Goto(s, "closed")
    /\ UNCHANGED <<exists, shutdown, itemVars, queueVars, ackVars, generation, gen,
                   sendVars, waitVars, holder, ret, reading, preload, woken>>

\* The finally block: only the current generation disconnects the stream.
DeactivateStream(s) ==
    /\ Unlocked /\ pc[s] = "closing"
    /\ IF exists /\ generation = gen[s]
       THEN stream_connected' = FALSE /\ Touch
       ELSE UNCHANGED <<stream_connected, stale>>
    /\ Goto(s, "closed")
    /\ UNCHANGED <<exists, shutdown, itemVars, queueVars, ackVars, generation, gen,
                   sendVars, waitVars, holder, ret, reading, preload, woken>>

-----------------------------------------------------------------------------
(* The end of a subscription                                                *)

\* ttl_seconds pass without client activity.
Elapse == /\ "expire" \in Ends /\ exists /\ ~stale
          /\ stale' = TRUE
          /\ UNCHANGED <<exists, shutdown, itemVars, queueVars, ackVars, genVars,
                         sendVars, waitVars, taskVars>>

Remove == /\ Unlocked /\ exists
          /\ exists' = FALSE
          /\ SetEvent
          /\ UNCHANGED <<stale, shutdown, itemVars, queueVars, ackVars, genVars,
                         sendVars, waitVars, holder, pc, ret, reading, preload>>

DeleteSubscription == "delete" \in Ends /\ Remove
ExpireSubscription == stale /\ Remove

\* initiate_shutdown, from the signal handler.
InitiateShutdown ==
    /\ "shutdown" \in Ends /\ Unlocked /\ shutdown = "no"
    /\ shutdown' = "set"
    /\ IF exists THEN SetEvent ELSE UNCHANGED woken
    /\ UNCHANGED <<exists, stale, itemVars, queueVars, ackVars, genVars, sendVars,
                   waitVars, holder, pc, ret, reading, preload>>

\* close() after the signal: release the nodes, then forget the subscription.
CloseRelease ==
    /\ Unlocked /\ shutdown = "set" /\ exists
    /\ shutdown' = "released"
    /\ mode' = "idle"
    /\ SetEvent
    /\ UNCHANGED <<exists, stale, monitored, queueVars, ackVars, genVars, sendVars,
                   waitVars, holder, pc, ret, reading, preload>>

CloseClear ==
    /\ Unlocked /\ shutdown = "released" /\ exists
    /\ exists' = FALSE
    /\ UNCHANGED <<stale, shutdown, itemVars, queueVars, ackVars, genVars, sendVars,
                   waitVars, taskVars>>

-----------------------------------------------------------------------------

CallerStep(c) == ApplyDiff(c) \/ Refresh(c) \/ SyncCollect(c)

StreamStep(s) ==
    \/ StreamSync(s) \/ StreamCollect(s) \/ StreamStart(s)
    \/ Refresh(s)
    \/ IsStreamActive(s) \/ WaitBegin(s) \/ WaitWake(s) \/ WaitAbort(s)
    \/ WaitTimeout(s) \/ WaitTimeoutReset(s) \/ WaitTimeoutResult(s)
    \/ DeactivateStream(s)

Next ==
    \/ \E n \in Nodes, v \in Values : Notify(n, v)
    \/ \E c \in Callers :
          \/ \E S \in SUBSET Nodes : RegisterItems(c, S) \/ UnregisterItems(c, S)
          \/ \E ack \in {NoAck} \cup (-1 .. MaxSeq) : Sync(c, ack)
          \/ CallerStep(c)
    \/ \E s \in Streams :
          ActivateStream(s) \/ StreamStep(s) \/ Disconnect(s) \/ Abandon(s)
    \/ ReconnectMode \/ Elapse
    \/ DeleteSubscription \/ ExpireSubscription
    \/ InitiateShutdown \/ CloseRelease \/ CloseClear

Spec == Init /\ [][Next]_vars

\* asyncio.Lock is FIFO, so a task that keeps asking for the lock gets it:
\* strong fairness of every started request.  Nothing obliges a client to call,
\* to hang up or to delete, nor the server to notify.
Fairness == /\ \A c \in Callers : SF_vars(CallerStep(c))
            /\ \A s \in Streams : SF_vars(StreamStep(s))

FairSpec == Spec /\ Fairness

-----------------------------------------------------------------------------
(* Correctness                                                              *)

TypeOK ==
    /\ exists \in BOOLEAN /\ stale \in BOOLEAN /\ shutdown \in {"no", "set", "released"}
    /\ monitored \subseteq Nodes
    /\ mode \in {"idle", "native", "polling"}
    /\ last_values \in [Nodes -> Values \cup {NoValue}]
    /\ updates \subseteq Update
    /\ sequence_number \in Nat
    /\ dropped \in [from : Nat, to : Nat]
    /\ generation \in Nat /\ stream_connected \in BOOLEAN
    /\ timeout_count \in Nat
    /\ holder \in Tasks \cup {NoTask}
    /\ pc \in [Tasks -> CallerStates \cup StreamStates]
    /\ ret \in [Tasks -> {"idle", "collect", "late"}]
    /\ reading \in [Tasks -> SUBSET Nodes]
    /\ gen \in [Streams -> Nat]
    /\ preload \in [Streams -> SUBSET Update]
    /\ last_sequence \in [Streams -> Nat]
    /\ woken \subseteq Streams /\ on_timeout \subseteq Streams
    /\ acked \subseteq Nat /\ lost \subseteq Nat
    /\ told \subseteq Nat /\ swallowed \subseteq Nat
    /\ sent \in [Streams -> SUBSET Nat]
    /\ overdue \in [Streams -> Nat]
    /\ repeated \subseteq Streams

\* The queue holds at most max_updates_per_subscription entries, one per
\* sequence number, and is the unbroken run of the newest numbers: appending,
\* acknowledging and overflow never leave a hole in it.
QueueIsNewestRun ==
    /\ Cardinality(updates) <= MaxUpdates
    /\ \A u, w \in updates : u.seq = w.seq => u = w
    /\ \A u \in updates : u.seq .. sequence_number \subseteq SeqsOf(updates)

\* Every sequence number ever issued is still queued, was acknowledged by the
\* client or was dropped by overflow, however the two sections of sync, the
\* refreshes and the notifications interleave.
NoSilentLoss == 1 .. sequence_number \subseteq SeqsOf(updates) \cup acked \cup lost

\* An update dropped by overflow lies in the range the next sync will report, in
\* one a sync has reported, or in one that opening a stream has thrown away.
OverflowAccounted == lost \subseteq told \cup swallowed \cup Range0(dropped)

\* No update disappears without a trace: a number that is neither queued nor acknowledged
\* was dropped by an overflow, and every drop is in a range that a sync reported, that the
\* opening of a stream threw away, or that the next sync will report.
UpdatesAccounted == NoSilentLoss /\ OverflowAccounted

\* A running stream has yielded every number up to its last_sequence, except
\* those that overflow or an acknowledgement removed before it got to them.
StreamHasNoGap ==
    \A s \in Streams : 1 .. last_sequence[s] \subseteq sent[s] \cup lost \cup acked

\* "Opening a new stream for the same subscription closes the prior stream
\* generation": the prior stream yields at most the one batch it had already
\* been promised.
OldStreamYieldsOneBatch == \A s \in Streams : overdue[s] <= 1

\* sync is refused exactly while the request that activated the current
\* generation has not run its finally block: neither a takeover nor the late
\* end of an old stream unlocks or blocks sync.
ConnectedIffCurrentStream ==
    exists => (stream_connected <=>
                 \E s \in Streams : /\ gen[s] = generation
                                     /\ pc[s] \notin {"new", "closed"})

\* The value new notifications are compared with is the one the newest queued
\* update of that node carries, so de-duplication never hides a change from the
\* reader of the queue.
LastValueIsNewestUpdate ==
    \A u \in updates :
       \/ last_values[u.node] \in {NoValue, u.value}
       \/ \E w \in updates : w.node = u.node /\ w.seq > u.seq

\* A stream yields numbers in increasing order and never the same one twice,
\* over its preloaded batch and every later one.
StreamInOrder == repeated = {}

\* What iter_stream_events yields is the sequence of updates: in order, each once, and
\* without any that was neither dropped nor acknowledged.
StreamsFaithful == StreamHasNoGap /\ StreamInOrder

\* A stream that lost its generation, whose subscription ended, or that the
\* shutdown signal reached, closes.
EndedStreamCloses ==
    \A s \in Streams :
       (pc[s] \in Running /\ (~exists \/ shutdown # "no" \/ gen[s] # generation))
          ~> (pc[s] = "closed")

\* A queued update beyond a stream's position is yielded by that stream, unless
\* the stream ends or the queue lost it first; no wake-up is missed.
QueuedReachesStream ==
    \A s \in Streams : \A k \in 1 .. MaxSeq :
       (pc[s] \in Running /\ k \in SeqsOf(updates) /\ k > last_sequence[s])
          ~> (last_sequence[s] >= k \/ k \in acked \cup lost \/ pc[s] = "closed")

\* Every sync, register and unregister request returns.
RequestsReturn == \A c \in Callers : (pc[c] # "idle") ~> (pc[c] = "idle")

\* Nothing hangs: neither a stream whose subscription or turn has ended, nor a request.
NothingHangs == EndedStreamCloses /\ RequestsReturn

\* What the API documentation says, and the code does not keep: "Returns HTTP 206
\* with a `responseDetail` if updates were dropped due to queue overflow since the
\* last sync" (subscription_routes.py:312).  Once a
\* sync has answered, every dropped number has been reported by it or before it.
SyncReportsOverflow ==
    [][\A c \in Callers :
         (exists /\ pc[c] = "collect" /\ pc'[c] = "idle") => lost \subseteq told']_vars

-----------------------------------------------------------------------------
(* Refinement                                                               *)

Promise == INSTANCE Delivery WITH
    Readers  <- Streams,
    Limit    <- MaxUpdates,
    issued   <- sequence_number,
    kept     <- SeqsOf(updates),
    settled  <- acked,
    dropped  <- lost,
    position <- last_sequence,
    given    <- sent

\* The queue with its locks, refreshes, generations and preloaded batches does nothing
\* to the numbers but what a subscription promises: every step of every task is a change,
\* an acknowledgement, the next batch of one reader, or none of these.
ImplementsDelivery == Promise!Spec
=============================================================================
