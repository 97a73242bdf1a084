---------------------------- MODULE NodeMonitors -----------------------------
(***************************************************************************)
(* The shared OPC UA monitoring runtime under the i3X subscriptions: one    *)
(* reference-counted _NodeMonitor per monitored node, packed into bins      *)
(* (_ManagedBin, one OPC UA subscription each) or polled.                   *)
(*                                                                          *)
(* Source: i3x_server/infrastructure/subscriptions/service.py.              *)
(*                                                                          *)
(* A section under self._lock does not await, except to undo an admission,  *)
(* so while the lock is uncontended a task runs from one network call to    *)
(* the next without giving up control (`turn`).  During such an undo tasks  *)
(* pile up on the FIFO lock and then take turns section by section;         *)
(* Contended = TRUE covers that, and more: any order of sections.           *)
(* Deleting a monitor and taking its node out of its bin is one action in   *)
(* both cases: the second section asks for the lock at once, before any     *)
(* admission of a new monitor for that node can.                            *)
(* Every network call is an action of its own that may succeed or fail.     *)
(***************************************************************************)
EXTENDS Naturals, FiniteSets, Sequences

CONSTANTS
    Subs,             \* i3X subscriptions; an id is never used again
    Nodes,            \* OPC UA node ids
    Workers,          \* requests and TTL expiries in progress
    Reconnector,      \* the task that runs the reconnect listener
    Serial,           \* TRUE: one request at a time per subscription
    Capacity,         \* max_monitored_items_per_subscription
    MaxItems,         \* max_monitored_items
    MaxSubscriptions, \* max_subscriptions(_per_session)
    Contended,        \* TRUE: sections of different tasks interleave freely
    Failures,         \* TRUE: network calls may fail
    MaxBin,           \* bound of the model: bins at a time
    MaxMonitor,       \* bound of the model: monitors ever created
    MaxReconnect,     \* bound of the model: reconnects
    NoSub, NoNode, NoMonitor, NoThread

ASSUME LimitsAssumption == /\ Capacity \in Nat \ {0}
                           /\ MaxItems \in Nat \ {0}
                           /\ MaxSubscriptions \in Nat \ {0}
ASSUME MonitorBoundsAssumption ==
    MaxBin \in Nat /\ MaxMonitor \in Nat /\ MaxReconnect \in Nat
ASSUME WorkersAssumption == /\ Reconnector \notin Workers
                            /\ NoSub \notin Subs /\ NoNode \notin Nodes
                            /\ NoThread \notin Workers \cup {Reconnector}
                            /\ {Serial, Contended, Failures} \subseteq BOOLEAN
                            /\ IsFiniteSet(Workers) /\ IsFiniteSet(Nodes)

Threads == Workers \cup {Reconnector}
BinIds  == 1 .. MaxBin
MonitorRecord == [id : Nat, mode : {"idle", "native", "polling"}, subs : SUBSET Subs,
                  bin : Nat]
ASSUME NoMonitorAssumption == NoMonitor \notin MonitorRecord

VARIABLES
    live,       \* keys of _subscriptions
    monitored,  \* monitored_node_ids of each subscription
    mode,       \* mode of each subscription
    monitor,    \* _node_monitors: node -> [id, mode, subs, bin] or NoMonitor
    monitors,   \* monitors created so far; a monitor's id is its identity
    bins,       \* node_handles of each bin: the nodes it holds
    open,       \* keys of _bins
    admission,  \* _native_bin_admission_lock: its holder, then its waiters
    backoff,    \* now < _native_backoff_until_monotonic
    server,     \* OPC UA subscriptions that exist on the server
    items,      \* monitored items per server subscription and node
    pc, job,    \* each task and its locals
    turn,       \* the task that has not awaited since its last action
    dead,       \* dead_bins of the reconnect listener
    reconnects,
    failed      \* history: some network call has failed

subVars   == <<live, monitored, mode>>
monVars   == <<monitor, monitors>>
binVars   == <<bins, open>>
srvVars   == <<server, items, failed>>
taskVars  == <<pc, job, turn, admission, backoff>>
recVars   == <<dead, reconnects>>
vars == <<subVars, monVars, binVars, srvVars, taskVars, recVars>>

NoJob == [sub |-> NoSub, rel |-> {}, acq |-> {}, node |-> NoNode, id |-> 0,
          bin |-> 0, new |-> FALSE]

Init ==
    /\ live = Subs
    /\ monitored = [s \in Subs |-> {}]
    /\ mode = [s \in Subs |-> "idle"]
    /\ monitor = [n \in Nodes |-> NoMonitor] /\ monitors = 0
    /\ bins = [b \in BinIds |-> {}] /\ open = {}
    /\ admission = <<>> /\ backoff = FALSE
    /\ server = {} /\ items = [b \in BinIds |-> [n \in Nodes |-> 0]]
    /\ pc = [t \in Threads |-> "idle"]
    /\ job = [t \in Threads |-> NoJob]
    /\ turn = NoThread
    /\ dead = {} /\ reconnects = 0
    /\ failed = FALSE

-----------------------------------------------------------------------------
(* Helpers                                                                  *)

\* Where a task gives up control: between requests, in a network call
\* (get_subscription_capabilities included) and for a taken admission lock.
Awaits(l) == \/ l \in {"idle", "stop", "start", "create", "subscribe", "clean"}
             \/ l = "admit" /\ admission # <<>>

\* A task moves on only when no other task has control, and keeps it until it awaits.
Goto(t, l) == /\ turn \in {NoThread, t}
              /\ pc' = [pc EXCEPT ![t] = l]
              /\ turn' = IF Contended \/ Awaits(l) THEN NoThread ELSE t

\* The locals of a start or stop die with the call.
Forget(t) == job' = [job EXCEPT ![t] = [NoJob EXCEPT !.sub = job[t].sub, !.rel = job[t].rel,
                                                     !.acq = job[t].acq]]

\* `live is monitor`: the registry still holds the very monitor t started.
IsLive(t) == LET m == monitor[job[t].node] IN m # NoMonitor /\ m.id = job[t].id

\* len(node_handles) over all bins.
TotalMonitored == Cardinality({x \in open \X Nodes : x[2] \in bins[x[1]]})

\* A network call fails only where the model lets it.
MayFail == Failures /\ failed' = TRUE

-----------------------------------------------------------------------------
(* register_items, unregister_items, delete_subscriptions, expiry           *)

Free(w, s) == /\ pc[w] = "idle" /\ s \in live
              /\ Serial => \A v \in Workers : job[v].sub # s

\* The first section of register_items and unregister_items.
SetMonitored(w, s, S) ==
    /\ Free(w, s)
    /\ monitored' = [monitored EXCEPT ![s] = S]
    /\ job' = [job EXCEPT ![w] = [NoJob EXCEPT !.sub = s, !.rel = monitored[s] \ S,
                                               !.acq = S \ monitored[s]]]
    /\ Goto(w, "release")
    /\ UNCHANGED <<live, mode, monVars, binVars, srvVars, admission, backoff, recVars>>

\* Acquisitions under way count against the bound, so that no request blocks on it.
MonitorBudget == monitors + Cardinality({x \in Workers \X Nodes : x[2] \in job[x[1]].acq})

RegisterItems(w, s, S) ==
    /\ S \ monitored[s] # {}
    /\ MonitorBudget + Cardinality(S \ monitored[s]) <= MaxMonitor
    /\ SetMonitored(w, s, S)
UnregisterItems(w, s, S) ==
    /\ S \subseteq monitored[s] /\ S # monitored[s]
    /\ SetMonitored(w, s, S)

\* The section shared by delete_subscriptions and _expire_subscriptions.
RemoveSubscription(w, s) ==
    /\ Free(w, s)
    /\ live' = live \ {s}
    /\ job' = [job EXCEPT ![w] = [NoJob EXCEPT !.sub = s, !.rel = monitored[s]]]
    /\ Goto(w, "release")
    /\ UNCHANGED <<monitored, mode, monVars, binVars, srvVars, admission, backoff, recVars>>

\* _release_node_monitor and the section of _stop_node_monitor_runtime.
ReleaseNode(w, n) ==
    /\ pc[w] = "release" /\ n \in job[w].rel
    /\ LET m    == monitor[n]
           rest == IF m = NoMonitor THEN {} ELSE m.subs \ {job[w].sub}
           b    == IF m = NoMonitor THEN 0 ELSE m.bin
           stop == m # NoMonitor /\ rest = {}
           pop  == stop /\ b \in open
           gone == pop /\ bins[b] \ {n} = {}
       IN  /\ monitor' = IF m = NoMonitor THEN monitor
                         ELSE [monitor EXCEPT ![n] = IF stop THEN NoMonitor
                                                     ELSE [m EXCEPT !.subs = rest]]
           /\ bins' = IF pop THEN [bins EXCEPT ![b] = @ \ {n}] ELSE bins
           /\ open' = IF gone THEN open \ {b} ELSE open
           /\ IF gone \/ (pop /\ n \in bins[b])
              THEN /\ job' = [job EXCEPT ![w].rel = @ \ {n}, ![w].node = n,
                                         ![w].bin = b, ![w].new = gone]
                   /\ Goto(w, "stop")
              ELSE job' = [job EXCEPT ![w].rel = @ \ {n}] /\ Goto(w, "release")
    /\ UNCHANGED <<subVars, monitors, srvVars, admission, backoff, recVars>>

\* delete_subscription for an emptied bin, unsubscribe_data_changes otherwise;
\* a failure is logged and ignored.
StopRuntime(w) ==
    /\ pc[w] = "stop"
    /\ LET b == job[w].bin IN
       \/ /\ IF job[w].new
             THEN server' = server \ {b} /\ UNCHANGED items
             ELSE /\ items' = [items EXCEPT ![b][job[w].node] = IF @ > 0 THEN @ - 1 ELSE 0]
                  /\ UNCHANGED server
          /\ UNCHANGED failed
       \/ MayFail /\ UNCHANGED <<server, items>>
    /\ Forget(w)
    /\ Goto(w, "release")
    /\ UNCHANGED <<subVars, monVars, binVars, admission, backoff, recVars>>

\* Fault: only the subscription that created the monitor counts.
AddSubscriber_first(m, s) == m
AddSubscriber(m, s) == [m EXCEPT !.subs = @ \cup {s}]

\* _acquire_node_monitor.
AcquireNode(w, n) ==
    /\ w \in Workers
    /\ pc[w] = "release" /\ job[w].rel = {} /\ n \in job[w].acq
    /\ IF monitor[n] # NoMonitor
       THEN /\ monitor' = [monitor EXCEPT ![n] = AddSubscriber(@, job[w].sub)]
            /\ job' = [job EXCEPT ![w].acq = @ \ {n}]
            /\ Goto(w, "release")
            /\ UNCHANGED monitors
       ELSE /\ monitors' = monitors + 1
            /\ monitor' = [monitor EXCEPT ![n] =
                 [id |-> monitors + 1, mode |-> "idle", subs |-> {job[w].sub}, bin |-> 0]]
            /\ job' = [job EXCEPT ![w].acq = @ \ {n}, ![w].node = n,
                                  ![w].id = monitors + 1]
            /\ Goto(w, "start")
    /\ UNCHANGED <<subVars, binVars, srvVars, admission, backoff, recVars>>

\* Fault: one native monitor is enough.
ModeOf_any(s) ==
    IF monitored[s] = {} THEN "idle"
    ELSE IF \E n \in monitored[s] : monitor[n] # NoMonitor /\ monitor[n].mode = "native"
         THEN "native" ELSE "polling"

\* _update_subscription_mode of one subscription.
ModeOf(s) ==
    IF monitored[s] = {} THEN "idle"
    ELSE IF \A n \in monitored[s] : monitor[n] # NoMonitor /\ monitor[n].mode = "native"
         THEN "native" ELSE "polling"

\* The end of a request: recompute the mode, if the subscription still exists.
FinishRequest(w) ==
    /\ w \in Workers
    /\ pc[w] = "release" /\ job[w].rel = {} /\ job[w].acq = {}
    /\ mode' = IF job[w].sub \in live
               THEN [mode EXCEPT ![job[w].sub] = ModeOf(job[w].sub)] ELSE mode
    /\ job' = [job EXCEPT ![w] = NoJob]
    /\ Goto(w, "idle")
    /\ UNCHANGED <<live, monitored, monVars, binVars, srvVars, admission, backoff, recVars>>

-----------------------------------------------------------------------------
(* _start_node_monitor_runtime, for a new monitor or after a reconnect      *)

\* Fault: a start during the backoff is given up.
StartRuntime_giveUp(t) ==
    /\ pc[t] = "start"
    /\ IF backoff THEN Goto(t, "release") /\ Forget(t) /\ UNCHANGED admission
       ELSE Goto(t, "admit") /\ admission' = Append(admission, t) /\ UNCHANGED job
    /\ UNCHANGED <<subVars, monVars, binVars, srvVars, backoff, recVars>>

\* Native admissions are backing off, or ask for the admission lock.
StartRuntime(t) ==
    /\ pc[t] = "start"
    /\ IF backoff THEN Goto(t, "poll") /\ UNCHANGED admission
       ELSE Goto(t, "admit") /\ admission' = Append(admission, t)
    /\ UNCHANGED <<subVars, monVars, binVars, srvVars, job, backoff, recVars>>

\* Fault: the lock is not released.
Leave_locked(t, l) == Goto(t, l) /\ UNCHANGED admission

\* Leave _acquire_native_bin_slot, releasing the admission lock.
Leave(t, l) == Goto(t, l) /\ admission' = Tail(admission)

\* Fault: a full bin is taken for one with room.
Spare_full == {b \in open : Cardinality(bins[b]) <= Capacity}
Spare == {b \in open : Cardinality(bins[b]) < Capacity}

\* An id for a new bin (the code draws a UUID).
Unused == BinIds \ (open \cup server \cup dead \cup
             {job[t].bin : t \in {u \in Threads : pc[u] \in {"stop", "create", "subscribe", "enter"}}})

\* _acquire_native_bin_slot up to the first network call: a bin with room, else a
\* new one, both within the server's limits.  The code takes the oldest bin with
\* room; ids carry no age here, so any will do.
SelectBin(t) ==
    /\ pc[t] = "admit" /\ Head(admission) = t
    /\ IF \/ TotalMonitored + 1 > MaxItems
          \/ Spare = {} /\ Cardinality(open) + 1 > MaxSubscriptions
       THEN Leave(t, "poll") /\ UNCHANGED job
       ELSE /\ \E b \in IF Spare # {} THEN Spare
                      ELSE {x \in Unused : \A y \in Unused : x <= y} :
                 job' = [job EXCEPT ![t].bin = b, ![t].new = (Spare = {})]
            /\ Goto(t, IF Spare # {} THEN "subscribe" ELSE "create")
            /\ UNCHANGED admission
    /\ UNCHANGED <<subVars, monVars, binVars, srvVars, backoff, recVars>>

\* create_datachange_subscription; an exception starts the backoff.
CreateSubscription(t) ==
    /\ pc[t] = "create"
    /\ \/ /\ server' = server \cup {job[t].bin}
          /\ items' = [items EXCEPT ![job[t].bin] = [n \in Nodes |-> 0]]
          /\ Goto(t, "subscribe")
          /\ UNCHANGED <<failed, admission, backoff>>
       \/ /\ MayFail /\ backoff' = TRUE /\ Leave(t, "poll")
          /\ UNCHANGED <<server, items>>
    /\ UNCHANGED <<subVars, monVars, binVars, job, recVars>>

\* _subscribe_single_node: an item on the server, no handle (a refused node: a
\* new subscription is deleted again), or an exception, which starts the backoff
\* and leaves a new subscription behind.
SubscribeNode(t) ==
    /\ pc[t] = "subscribe"
    /\ LET b == job[t].bin IN
       \/ /\ b \in server
          /\ items' = [items EXCEPT ![b][job[t].node] = @ + 1]
          /\ Goto(t, "enter")
          /\ UNCHANGED <<server, failed, admission, backoff>>
       \/ /\ MayFail \/ (b \notin server /\ UNCHANGED failed)
          /\ \/ /\ server' = IF job[t].new THEN server \ {b} ELSE server
                /\ UNCHANGED backoff
             \/ backoff' = TRUE /\ UNCHANGED server
          /\ Leave(t, "poll")
          /\ UNCHANGED items
    /\ UNCHANGED <<subVars, monVars, binVars, job, recVars>>

\* Fault: another monitor of the same node will do.
StillWanted_anyMonitor(t) ==
    monitor[job[t].node] # NoMonitor /\ (job[t].new \/ job[t].bin \in open)

\* The monitor, and the bin it was to join, are still there after the call.
StillWanted(t) == IsLive(t) /\ (job[t].new \/ job[t].bin \in open)

\* Fault: the admission is not undone.
UndoAdmission_none(t) == UNCHANGED <<server, items, failed, backoff>>

\* Delete the new subscription, or the item that was added to an older one.  Only
\* the latter is protected: a failure of the former starts the backoff.
UndoAdmission(t) ==
    \/ /\ IF job[t].new
          THEN server' = server \ {job[t].bin} /\ UNCHANGED items
          ELSE /\ items' = [items EXCEPT ![job[t].bin][job[t].node] =
                                             IF @ > 0 THEN @ - 1 ELSE 0]
               /\ UNCHANGED server
       /\ UNCHANGED <<failed, backoff>>
    \/ /\ MayFail /\ UNCHANGED <<server, items>>
       /\ backoff' = (backoff \/ job[t].new)

\* The last section of _open_new_bin and _add_node_to_bin: enter the node in the
\* bin, or undo the admission when the monitor or the bin has gone meanwhile.
EnterBin(t) ==
    /\ pc[t] = "enter"
    /\ LET b == job[t].bin
           n == job[t].node IN
       IF StillWanted(t)
       THEN /\ bins' = [bins EXCEPT ![b] = @ \cup {n}]
            /\ open' = IF job[t].new THEN open \cup {b} ELSE open
            /\ monitor' = [monitor EXCEPT ![n].mode = "native", ![n].bin = b]
            /\ Forget(t)
            /\ Leave(t, "release")
            /\ UNCHANGED <<server, items, failed, backoff>>
       ELSE /\ UndoAdmission(t)
            /\ Leave(t, "poll")
            /\ UNCHANGED <<bins, open, monitor, job>>
    /\ UNCHANGED <<subVars, monitors, recVars>>

\* _start_polling_node_monitor, unless the monitor has been released.
StartPolling(t) ==
    /\ pc[t] = "poll"
    /\ monitor' = IF IsLive(t)
                  THEN [monitor EXCEPT ![job[t].node].mode = "polling", ![job[t].node].bin = 0]
                  ELSE monitor
    /\ Forget(t)
    /\ Goto(t, "release")
    /\ UNCHANGED <<subVars, monitors, binVars, srvVars, admission, backoff, recVars>>

BackoffEnds == /\ backoff /\ backoff' = FALSE
               /\ UNCHANGED <<subVars, monVars, binVars, srvVars, pc, job, turn, admission, recVars>>

-----------------------------------------------------------------------------
(* _handle_client_reconnect                                                 *)

\* Fault: the mode of a monitor that lost its item is kept.
Lapse_keepMode(m) == [m EXCEPT !.bin = 0]
\* A monitor whose item was lost.
Lapse(m) == [m EXCEPT !.mode = "idle", !.bin = 0]

\* asyncua reports the items it could restore, bin by bin; a bin without any is
\* dropped, and the monitors of lost items become idle.
Reconnect(kept) ==
    /\ pc[Reconnector] = "idle" /\ reconnects < MaxReconnect
    /\ \A b \in BinIds : kept[b] \subseteq bins[b] /\ (b \notin open => kept[b] = {})
    /\ LET idle == {n \in Nodes : /\ monitor[n] # NoMonitor
                                  /\ monitor[n].bin \in open
                                  /\ n \in bins[monitor[n].bin] \ kept[monitor[n].bin]}
       IN  /\ monitor' = [n \in Nodes |-> IF n \in idle
                            THEN Lapse(monitor[n]) ELSE monitor[n]]
           /\ job' = [job EXCEPT ![Reconnector] = [NoJob EXCEPT !.acq = idle]]
    /\ dead' = {b \in open : kept[b] = {}}
    /\ open' = open \ dead'
    /\ bins' = [b \in BinIds |-> IF b \in open THEN kept[b] ELSE bins[b]]
    /\ items' = [b \in BinIds |-> [n \in Nodes |->
                   IF b \in open /\ n \in bins[b] \ kept[b] THEN 0 ELSE items[b][n]]]
    /\ reconnects' = reconnects + 1
    /\ Goto(Reconnector, IF dead' = {} THEN "release" ELSE "clean")
    /\ UNCHANGED <<subVars, monitors, server, failed, admission, backoff>>

\* delete_subscription for one dead bin after the other; failures are suppressed.
DeleteDeadBin(b) ==
    /\ pc[Reconnector] = "clean" /\ b \in dead
    /\ \/ server' = server \ {b} /\ UNCHANGED failed
       \/ MayFail /\ UNCHANGED server
    /\ dead' = dead \ {b}
    /\ Goto(Reconnector, IF dead' = {} THEN "release" ELSE "clean")
    /\ UNCHANGED <<subVars, monVars, binVars, items, job, admission, backoff, reconnects>>

\* Start the monitor of a lost node again, if it is (still or again) idle.
ReadmitNode(n) ==
    /\ pc[Reconnector] = "release" /\ n \in job[Reconnector].acq
    /\ IF monitor[n] # NoMonitor /\ monitor[n].mode = "idle"
       THEN /\ job' = [job EXCEPT ![Reconnector].acq = @ \ {n}, ![Reconnector].node = n,
                                  ![Reconnector].id = monitor[n].id]
            /\ Goto(Reconnector, "start")
       ELSE /\ job' = [job EXCEPT ![Reconnector].acq = @ \ {n}]
            /\ Goto(Reconnector, "release")
    /\ UNCHANGED <<subVars, monVars, binVars, srvVars, admission, backoff, recVars>>

\* Recompute the mode of every subscription.
FinishReconnect ==
    /\ pc[Reconnector] = "release" /\ job[Reconnector].acq = {}
    /\ mode' = [s \in Subs |-> IF s \in live THEN ModeOf(s) ELSE mode[s]]
    /\ job' = [job EXCEPT ![Reconnector] = NoJob]
    /\ Goto(Reconnector, "idle")
    /\ UNCHANGED <<live, monitored, monVars, binVars, srvVars, admission, backoff, recVars>>

-----------------------------------------------------------------------------

Start(t) == \/ StartRuntime(t) \/ SelectBin(t) \/ CreateSubscription(t)
            \/ SubscribeNode(t) \/ EnterBin(t) \/ StartPolling(t)

WorkerStep(w) ==
    \/ \E n \in Nodes : ReleaseNode(w, n) \/ AcquireNode(w, n)
    \/ StopRuntime(w) \/ Start(w) \/ FinishRequest(w)

ReconnectStep == \/ \E b \in BinIds : DeleteDeadBin(b)
                 \/ \E n \in Nodes : ReadmitNode(n)
                 \/ Start(Reconnector) \/ FinishReconnect

Request(w) ==
    \E s \in Subs : \/ \E S \in SUBSET Nodes : RegisterItems(w, s, S) \/ UnregisterItems(w, s, S)
                   \/ RemoveSubscription(w, s)

Next ==
    \/ \E w \in Workers : Request(w) \/ WorkerStep(w)
    \/ \E kept \in [BinIds -> SUBSET Nodes] : Reconnect(kept)
    \/ ReconnectStep
    \/ BackoffEnds

Spec == Init /\ [][Next]_vars

\* Network calls return or time out, and the event loop runs ready tasks.
FairSpec == Spec /\ WF_vars(ReconnectStep) /\ \A w \in Workers : WF_vars(WorkerStep(w))

-----------------------------------------------------------------------------
(* Correctness                                                              *)

Job == [sub : Subs \cup {NoSub}, rel : SUBSET Nodes, acq : SUBSET Nodes,
        node : Nodes \cup {NoNode}, id : Nat, bin : Nat, new : BOOLEAN]

TypeOK ==
    /\ live \subseteq Subs
    /\ monitored \in [Subs -> SUBSET Nodes]
    /\ mode \in [Subs -> {"idle", "native", "polling"}]
    /\ monitor \in [Nodes -> MonitorRecord \cup {NoMonitor}] /\ monitors \in Nat
    /\ bins \in [BinIds -> SUBSET Nodes]
    /\ open \subseteq BinIds
    /\ admission \in Seq(Threads) /\ backoff \in BOOLEAN
    /\ server \subseteq BinIds /\ items \in [BinIds -> [Nodes -> Nat]]
    /\ pc \in [Threads -> {"idle", "release", "stop", "start", "admit", "create",
                           "subscribe", "enter", "poll", "clean"}]
    /\ job \in [Threads -> Job] /\ turn \in Threads \cup {NoThread}
    /\ dead \subseteq BinIds /\ reconnects \in Nat /\ failed \in BOOLEAN

Quiet == \A t \in Threads : pc[t] = "idle"

\* Admission never oversteps a limit the server announced, although the limits
\* are checked one network call before the item is entered: no bin above its
\* capacity, no more items and no more subscriptions than allowed.
LimitsKept == /\ \A b \in open : Cardinality(bins[b]) <= Capacity
              /\ TotalMonitored <= MaxItems
              /\ Cardinality(open) <= MaxSubscriptions

\* A monitor in native mode is in an open bin that holds its node: release,
\* re-admission, undo and reconnect never leave it pointing at nothing.
NativeIsPacked ==
    \A n \in Nodes :
       (monitor[n] # NoMonitor /\ monitor[n].mode = "native")
          => (monitor[n].bin \in open /\ n \in bins[monitor[n].bin])

\* A node held by a bin belongs to a live monitor that points back at that bin,
\* so that releasing the monitor empties the bin and no node is in two bins.  A
\* reconnect ends this: its listener starts a lost node that is idle, although a
\* registration may be starting the same monitor.
PackedIsOwned ==
    reconnects = 0 => \A b \in open : \A n \in bins[b] :
       monitor[n] # NoMonitor /\ monitor[n].mode = "native" /\ monitor[n].bin = b

\* As long as no network call failed and no session was lost: when nothing is in
\* progress, the server has exactly the subscriptions and the items the bins know of.
NothingLeftOnServer ==
    (Quiet /\ ~failed /\ reconnects = 0) =>
       /\ server = open
       /\ \A b \in open, n \in Nodes : items[b][n] = IF n \in bins[b] THEN 1 ELSE 0

\* Monitors, bins and the server's items agree, through releases, reconnects and failures
\* in the middle of admissions, as far as each of the parts says.
BinsAgree == TypeOK /\ NativeIsPacked /\ PackedIsOwned /\ NothingLeftOnServer

\* "Reference-counted across every i3X subscription that monitors this node_id":
\* when nothing is in progress, a node has a monitor exactly when some live
\* subscription monitors it, and those are the monitor's subscribers.
ReferenceCounted ==
    Quiet => \A n \in Nodes :
       LET users == {s \in live : n \in monitored[s]} IN
       IF users = {} THEN monitor[n] = NoMonitor
       ELSE monitor[n] # NoMonitor /\ monitor[n].subs = users

\* A subscription that reports native mode has nothing but native monitors: the
\* stale mode of a concurrent register only ever errs towards polling.  A reconnect
\* ends this too: where its listener and a registration start the same monitor, the
\* later one may turn it to polling and recomputes no other subscription's mode.
NativeModeIsTrue ==
    (Quiet /\ reconnects = 0) => \A s \in live : mode[s] = "native" =>
       \A n \in monitored[s] : monitor[n] # NoMonitor /\ monitor[n].mode = "native"

\* Every request and every reconnect comes to its end: nobody is left holding or
\* waiting for the admission lock.
TasksFinish == \A t \in Threads : (pc[t] # "idle") ~> (pc[t] = "idle")

\* A monitor does not stay idle (neither native nor polled, so without data): it
\* is started or released, whatever fails on the way.
MonitorsStart ==
    \A n \in Nodes :
       (monitor[n] # NoMonitor /\ monitor[n].mode = "idle")
          ~> (monitor[n] = NoMonitor \/ monitor[n].mode # "idle")

\* No task waits for ever for the admission lock or for another task, and no monitor
\* stays without data.
EverythingStarts == TasksFinish /\ MonitorsStart

=============================================================================
