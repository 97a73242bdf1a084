------------------------------ MODULE ValueFlow ------------------------------
(***************************************************************************)
(* How a value travels from the OPC UA server to the last_values_by_node_id *)
(* of the i3X subscriptions: notifications through node_datachange_queue    *)
(* and its dispatch task, the shared polling loop, and the refreshes of     *)
(* one subscription.                                                        *)
(*                                                                          *)
(* Source: i3x_server/infrastructure/subscriptions/service.py.              *)
(*                                                                          *)
(* A value is the node it was read from and the number of changes that node *)
(* had seen, so that origin and age can be told apart.  By                  *)
(* LastValueIsNewestUpdate of UpdateQueue the last value of a node is what  *)
(* the newest queued update of that node carries.  The per-subscription     *)
(* queue of schedule_datachange is not modelled: no OPC UA subscription is  *)
(* created with its handler any more.                                       *)
(***************************************************************************)
EXTENDS Naturals, FiniteSets, Sequences, FiniteSetsExt

CONSTANTS
    Subs, Nodes,
    QueueSize,     \* maxsize of node_datachange_queue
    Modes,         \* modes the monitors can be started in
    Refreshing,    \* TRUE: the streams keep timing out (hybrid or adaptive mode)
    MaxChange,     \* bound of the model: changes of a node's value
    MaxFail,       \* bound of the model: failed reads
    MaxRequest,    \* bound of the model: register and unregister requests
    NoValue, Null  \* no last value; the None of a failed read

ASSUME QueueSizeAssumption == QueueSize \in Nat \ {0}
ASSUME FlowBoundsAssumption ==
    {MaxChange, MaxRequest, MaxFail} \subseteq Nat /\ Refreshing \in BOOLEAN
ASSUME NodesAssumption == IsFiniteSet(Nodes)
ASSUME ModesAssumption == Modes \subseteq {"native", "polling"} /\ Modes # {}

VARIABLES
    current,      \* server: the number of changes of each node
    due,          \* server: monitored items with a value not yet reported
    mode,         \* _node_monitors[n].mode, "none" without a monitor
    subscribers,  \* _node_monitors[n].subscriber_ids
    monitored,    \* monitored_node_ids of each subscription
    last_values,  \* last_values_by_node_id of each subscription
    datachanges,  \* _node_datachange_queue
    fanout,       \* locals of _fanout_node_value: dispatch task and polling loop
    polled,       \* polling loop: its node_ids, and the values read so far
    refresh,      \* _refresh_changed_values of each subscription, likewise
    pending,      \* node differences computed but not yet applied
    requests, failures

serverVars == <<current, due>>
registryVars == <<mode, subscribers, monitored, pending, requests>>
taskVars == <<datachanges, fanout, polled, refresh, failures>>
vars == <<serverVars, registryVars, last_values, taskVars>>

Value == [node : Nodes, change : (0 .. MaxChange) \cup {Null}]
Fans == {"dispatch", "poll"}
Idle == [value |-> NoValue, subs |-> {}]
NoRead == [nodes |-> {}, values |-> {}]

Init ==
    /\ current = [n \in Nodes |-> 0] /\ due = {}
    /\ mode = [n \in Nodes |-> "none"]
    /\ subscribers = [n \in Nodes |-> {}]
    /\ monitored = [s \in Subs |-> {}]
    /\ last_values = [s \in Subs |-> [n \in Nodes |-> NoValue]]
    /\ datachanges = <<>>
    /\ fanout = [f \in Fans |-> Idle]
    /\ polled = NoRead
    /\ refresh = [s \in Subs |-> NoRead]
    /\ pending = [s \in Subs |-> {}]
    /\ requests = 0 /\ failures = 0

-----------------------------------------------------------------------------
(* The server                                                               *)

Change(n) == /\ current[n] < MaxChange
             /\ current' = [current EXCEPT ![n] = @ + 1]
             /\ due' = IF mode[n] = "native" THEN due \cup {n} ELSE due
             /\ UNCHANGED <<registryVars, last_values, taskVars>>

\* Fault: the queue is checked one event too late.
Offer_late(q, e) == IF Len(q) > QueueSize THEN Append(Tail(q), e) ELSE Append(q, e)
\* _enqueue_node_datachange: a full queue loses its oldest event, of whatever node.
Offer(q, e) == IF Len(q) >= QueueSize THEN Append(Tail(q), e) ELSE Append(q, e)

\* The item of a native monitor reports a change, and datachange_notification
\* schedules it on the event loop.
Notification(n) ==
    /\ n \in due
    /\ due' = due \ {n}
    /\ datachanges' = Offer(datachanges, [node |-> n, change |-> current[n]])
    /\ UNCHANGED <<current, registryVars, last_values, fanout, polled, refresh, failures>>

-----------------------------------------------------------------------------
(* _fanout_node_value and handle_datachange                                 *)

\* Fault: the first monitored node is taken, also when the value's own is monitored.
Resolve_first(s, n) == IF monitored[s] = {} THEN {} ELSE {CHOOSE m \in monitored[s] : TRUE}
\* The node a value is recorded under: its own when it is monitored, otherwise
\* the only monitored one, otherwise none.
Resolve(s, n) == IF n \in monitored[s] THEN {n}
                 ELSE IF Cardinality(monitored[s]) = 1 THEN monitored[s] ELSE {}

\* Start a fan-out: copy the subscriber ids under the lock.
Fanout(f, v) == fanout' = [fanout EXCEPT ![f] =
    IF subscribers[v.node] = {} THEN Idle ELSE [value |-> v, subs |-> subscribers[v.node]]]

\* handle_datachange for one of the copied ids.
HandleDatachange(f, s) ==
    /\ s \in fanout[f].subs
    /\ LET v == fanout[f].value IN
       /\ last_values' = [last_values EXCEPT ![s] =
             [n \in Nodes |-> IF n \in Resolve(s, v.node) THEN v ELSE @[n]]]
       /\ fanout' = [fanout EXCEPT ![f] = IF @.subs = {s} THEN Idle
                                          ELSE [value |-> v, subs |-> @.subs \ {s}]]
    /\ UNCHANGED <<serverVars, registryVars, datachanges, polled, refresh, failures>>

\* _node_datachange_loop takes the next event.
Dispatch ==
    /\ fanout["dispatch"] = Idle /\ datachanges # <<>>
    /\ Fanout("dispatch", Head(datachanges))
    /\ datachanges' = Tail(datachanges)
    /\ UNCHANGED <<serverVars, registryVars, last_values, polled, refresh, failures>>

-----------------------------------------------------------------------------
(* _shared_polling_loop                                                     *)

PollIdle == polled = NoRead /\ fanout["poll"] = Idle

Polled == {n \in Nodes : mode[n] = "polling"}

PollBegin == /\ PollIdle /\ Polled # {}
             /\ polled' = [nodes |-> Polled, values |-> {}]
             /\ UNCHANGED <<serverVars, registryVars, last_values, datachanges, fanout, refresh, failures>>

\* What read_values gives for a node: its value, or None where the read failed.
Answers(n) == {[node |-> n, change |-> c] : c \in {current[n]} \cup
                                             IF failures < MaxFail THEN {Null} ELSE {}}
Failing(c) == failures' = IF c = Null THEN failures + 1 ELSE failures

\* read_values answers in batches: each value is as old as its batch.
PollRead(n) ==
    /\ n \in polled.nodes
    /\ \E v \in Answers(n) :
          /\ polled' = [nodes |-> polled.nodes \ {n}, values |-> polled.values \cup {v}]
          /\ Failing(v.change)
    /\ UNCHANGED <<serverVars, registryVars, last_values, datachanges, fanout, refresh>>

\* read_values raised (no reconnect in time): the loop sleeps and tries again.
PollFail == /\ polled.nodes # {} /\ failures < MaxFail
            /\ polled' = NoRead /\ failures' = failures + 1
            /\ UNCHANGED <<serverVars, registryVars, last_values, datachanges, fanout, refresh>>

PollFanout(v) ==
    /\ polled.nodes = {} /\ v \in polled.values /\ fanout["poll"] = Idle
    /\ Fanout("poll", v)
    /\ polled' = [polled EXCEPT !.values = @ \ {v}]
    /\ UNCHANGED <<serverVars, registryVars, last_values, datachanges, refresh, failures>>

-----------------------------------------------------------------------------
(* _refresh_changed_values: the seed of a registration, a sync of an empty   *)
(* queue, a timeout of the subscription's stream                            *)

\* A subscription that has nodes but is still idle (its first registration is
\* being applied) skips the refresh in the code; here it may run already.
RefreshBegin(s) ==
    /\ refresh[s] = NoRead /\ monitored[s] # {}
    /\ refresh' = [refresh EXCEPT ![s].nodes = monitored[s]]
    /\ UNCHANGED <<serverVars, registryVars, last_values, datachanges, fanout, polled, failures>>

RefreshRead(s, n) ==
    /\ n \in refresh[s].nodes
    /\ \E v \in Answers(n) :
          /\ refresh' = [refresh EXCEPT ![s] = [nodes |-> @.nodes \ {n},
                                                values |-> @.values \cup {v}]]
          /\ Failing(v.change)
    /\ UNCHANGED <<serverVars, registryVars, last_values, datachanges, fanout, polled>>

RefreshFail(s) ==
    /\ refresh[s].nodes # {} /\ failures < MaxFail
    /\ refresh' = [refresh EXCEPT ![s] = NoRead] /\ failures' = failures + 1
    /\ UNCHANGED <<serverVars, registryVars, last_values, datachanges, fanout, polled>>

\* Fault: the nodes are not looked up again after the read.
StillMonitored_any(s, v) == TRUE
\* A node unregistered during the read is skipped.
StillMonitored(s, v) == v.node \in monitored[s]

\* Fault: a refresh only fills in nodes that have no value yet.
RefreshAppend_missing(s) ==
    /\ refresh[s].nodes = {} /\ refresh[s].values # {}
    /\ last_values' = [last_values EXCEPT ![s] = [n \in Nodes |->
          LET read == {v \in refresh[s].values : v.node = n /\ StillMonitored(s, v)}
          IN  IF read = {} \/ @[n] # NoValue THEN @[n] ELSE CHOOSE v \in read : TRUE]]
    /\ refresh' = [refresh EXCEPT ![s] = NoRead]
    /\ UNCHANGED <<serverVars, registryVars, datachanges, fanout, polled, failures>>

\* The append loop, one section under the lock.
RefreshAppend(s) ==
    /\ refresh[s].nodes = {} /\ refresh[s].values # {}
    /\ last_values' = [last_values EXCEPT ![s] = [n \in Nodes |->
          LET read == {v \in refresh[s].values : v.node = n /\ StillMonitored(s, v)}
          IN  IF read = {} THEN @[n] ELSE CHOOSE v \in read : TRUE]]
    /\ refresh' = [refresh EXCEPT ![s] = NoRead]
    /\ UNCHANGED <<serverVars, registryVars, datachanges, fanout, polled, failures>>

-----------------------------------------------------------------------------
(* Requests and monitors (see NodeMonitors for their interleaving)          *)

\* Last values survive for the nodes that stay monitored.
Forgotten(s, S) == [n \in Nodes |-> IF n \in S THEN last_values[s][n] ELSE NoValue]

\* register_items, unregister_items: the section that sets the node ids.
SetMonitored(s, S) ==
    /\ requests < MaxRequest /\ pending[s] = {} /\ S # monitored[s]
    /\ requests' = requests + 1
    /\ monitored' = [monitored EXCEPT ![s] = S]
    /\ last_values' = [last_values EXCEPT ![s] = Forgotten(s, S)]
    /\ pending' = [pending EXCEPT ![s] = SymDiff(S, monitored[s])]
    /\ UNCHANGED <<serverVars, mode, subscribers, taskVars>>

\* _release_node_monitor or _acquire_node_monitor of one node of the difference;
\* a new native item reports the value it finds.
ApplyDiff(s, n, m) ==
    /\ n \in pending[s]
    /\ pending' = [pending EXCEPT ![s] = @ \ {n}]
    /\ subscribers' = [subscribers EXCEPT ![n] =
          IF n \in monitored[s] THEN @ \cup {s} ELSE @ \ {s}]
    /\ mode' = [mode EXCEPT ![n] = IF subscribers'[n] = {} THEN "none"
                                   ELSE IF @ = "none" THEN m ELSE @]
    /\ due' = IF mode'[n] = mode[n] THEN due
              ELSE IF mode'[n] = "native" THEN due \cup {n}
              ELSE due \ {n}
    /\ UNCHANGED <<current, monitored, last_values, requests, taskVars>>

-----------------------------------------------------------------------------

PollStep == \/ PollBegin
            \/ \E n \in Nodes : PollRead(n)
            \/ \E v \in polled.values : PollFanout(v)
            \/ \E s \in Subs : HandleDatachange("poll", s)
DispatchStep == Dispatch \/ \E s \in Subs : HandleDatachange("dispatch", s)
RefreshStep(s) == RefreshAppend(s) \/ \E n \in Nodes : RefreshRead(s, n)
\* wait_for_updates refreshes only a subscription in native mode.
TimeoutRefresh(s) == (\A n \in monitored[s] : mode[n] = "native") /\ RefreshBegin(s)
RequestStep(s) == \E n \in Nodes, m \in Modes : ApplyDiff(s, n, m)

Next ==
    \/ \E n \in Nodes : Change(n) \/ Notification(n)
    \/ PollStep \/ PollFail \/ DispatchStep
    \/ \E s \in Subs : \/ RefreshBegin(s) \/ RefreshStep(s) \/ RefreshFail(s)
                       \/ RequestStep(s)
                       \/ \E S \in SUBSET Nodes : SetMonitored(s, S)

Spec == Init /\ [][Next]_vars

\* The background loops run for ever, started requests go on, items report.  A
\* stream refreshes again and again only where its timeouts do.
FairSpec == /\ Spec
            /\ WF_vars(PollStep) /\ WF_vars(DispatchStep)
            /\ \A n \in Nodes : WF_vars(Notification(n))
            /\ \A s \in Subs : WF_vars(RequestStep(s)) /\ WF_vars(RefreshStep(s))
            /\ Refreshing => \A s \in Subs : WF_vars(TimeoutRefresh(s))

-----------------------------------------------------------------------------
(* Correctness                                                              *)

Read == [nodes : SUBSET Nodes, values : SUBSET Value]

TypeOK ==
    /\ current \in [Nodes -> 0 .. MaxChange] /\ due \subseteq Nodes
    /\ mode \in [Nodes -> {"none", "native", "polling"}]
    /\ subscribers \in [Nodes -> SUBSET Subs]
    /\ monitored \in [Subs -> SUBSET Nodes]
    /\ last_values \in [Subs -> [Nodes -> Value \cup {NoValue}]]
    /\ datachanges \in Seq(Value) /\ Len(datachanges) <= QueueSize
    /\ fanout \in [Fans -> [value : Value \cup {NoValue}, subs : SUBSET Subs]]
    /\ polled \in Read /\ refresh \in [Subs -> Read]
    /\ pending \in [Subs -> SUBSET Nodes]
    /\ requests \in Nat /\ failures \in Nat

\* A value that was read, polled or notified before its node was unregistered is
\* never recorded for that node afterwards: no path brings an unregistered node
\* back into a subscription.
OnlyMonitoredRecorded ==
    \A s \in Subs, n \in Nodes : last_values[s][n] # NoValue => n \in monitored[s]

\* The values of a subscription are well formed and of nodes it still monitors.
RecordsClean == TypeOK /\ OnlyMonitoredRecorded

\* The nodes whose values are read again and again: polled ones, and those of a
\* subscription in native mode whose stream times out.
ReadAgain(s, n) == \/ mode[n] = "polling"
                   \/ Refreshing /\ \A m \in monitored[s] : mode[m] = "native"

\* Every subscription ends up with the server's value of such a node, although
\* notifications are dropped by a full queue, reads fail, and older reads overtake
\* newer notifications: polling, or the refreshes of a stream, repair it.
Converges ==
    \A s \in Subs, n \in Nodes :
       <>[](n \in monitored[s] /\ ReadAgain(s, n)
              => last_values[s][n] = [node |-> n, change |-> current[n]])

\* "Deliver one node-level value change to every subscription monitoring it."  However
\* notifications, polls and refreshes overtake the requests, a value comes to stand under
\* another node than its own only when its own is not monitored any more and that node is
\* the only one left; while its own is monitored it is recorded there.
WrongNodeOnlyWhenAlone ==
    [][\A s \in Subs, n \in Nodes :
         LET new == last_values'[s][n] IN
         new # last_values[s][n] /\ new # NoValue /\ new.node # n =>
            new.node \notin monitored[s] /\ monitored[s] = {n}]_vars

=============================================================================
