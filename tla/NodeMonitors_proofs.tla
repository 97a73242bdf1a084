-------------------------- MODULE NodeMonitors_proofs --------------------------
(***************************************************************************)
(* Theorems about NodeMonitors, for any subscriptions, nodes, tasks and     *)
(* limits, whether or not sections interleave, calls fail or sessions are   *)
(* lost.                                                                    *)
(***************************************************************************)
EXTENDS NodeMonitors, Lemmas

-----------------------------------------------------------------------------
(* The inductive invariant                                                  *)

\* Where a task starts a monitor, where it asks for or holds the admission lock, and
\* where it holds it across network calls.
Starting == {"start", "admit", "create", "subscribe", "enter", "poll"}
Asking   == {"admit", "create", "subscribe", "enter"}
Holding  == {"create", "subscribe", "enter"}

\* What the locals j of task t stand for at its step l.
JobFits(t, l, j) ==
    /\ t = Reconnector => l # "stop"
    /\ t \in Workers /\ l # "idle" => j.sub \in Subs
    /\ l \in Starting \cup {"stop"} => j.node \in Nodes
    /\ l \in Holding \cup {"stop"} => j.bin \in BinIds
    /\ l = "create" => j.new

JobInv == \A t \in Threads : JobFits(t, pc[t], job[t])

\* The admission lock: its queue holds the tasks that ask for it, each once, and only
\* the first goes on.
AdmissionInv ==
    /\ \A i \in 1 .. Len(admission) : pc[admission[i]] \in Asking
    /\ \A i, j \in 1 .. Len(admission) : admission[i] = admission[j] => i = j
    /\ \A t \in Threads : pc[t] \in Asking => \E i \in 1 .. Len(admission) : admission[i] = t
    /\ \A t \in Threads : pc[t] \in Holding => admission[1] = t

\* A closed bin is empty, and the room the holder of the lock has found is still there.
RoomInv ==
    /\ \A b \in BinIds \ open : bins[b] = {}
    /\ \A t \in Threads : pc[t] \in Holding =>
         /\ TotalMonitored + 1 <= MaxItems
         /\ IF job[t].new THEN /\ job[t].bin \notin open
                               /\ Cardinality(open) + 1 <= MaxSubscriptions
            ELSE job[t].bin \in open => Cardinality(bins[job[t].bin]) + 1 <= Capacity

\* Before the first reconnect every start is of a monitor of its own, and that monitor,
\* as long as it is registered, has no mode yet.
StartInv ==
    reconnects = 0 =>
       /\ pc[Reconnector] = "idle"
       /\ \A t \in Threads : pc[t] \in Starting =>
            /\ job[t].id \in 1 .. monitors
            /\ IsLive(t) => monitor[job[t].node].mode = "idle"
            /\ \A u \in Threads : pc[u] \in Starting /\ job[u].id = job[t].id => u = t

\* Bins that are on the server and not in the registry: about to be opened, or closed.
Opening == {job[t].bin : t \in {u \in Threads : pc[u] \in {"subscribe", "enter"} /\ job[u].new}}
Closing == {job[t].bin : t \in {u \in Threads : pc[u] = "stop" /\ job[u].new}}

\* The tasks that have made, or are about to delete, an item the bin does not show.
Touching(b, n) == {t \in Threads : /\ pc[t] = "enter" \/ (pc[t] = "stop" /\ ~job[t].new)
                                   /\ job[t].bin = b /\ job[t].node = n}

\* Unless a call failed or a session was lost, the server has what the bins show, and
\* beyond that what the tasks in progress account for.
ServerInv ==
    (reconnects = 0 /\ ~failed) =>
       /\ server = open \cup Opening \cup Closing
       /\ \A b \in open \cup Opening, n \in Nodes :
            items[b][n] = Cardinality(Touching(b, n)) + (IF n \in bins[b] THEN 1 ELSE 0)

\* A bin to be closed, or to be opened, is nobody else's.
AloneInv ==
    \A t \in Threads :
      /\ pc[t] = "stop" /\ job[t].new =>
            /\ job[t].bin \notin open
            /\ \A u \in Threads : pc[u] = "stop" /\ job[u].new /\ job[u].bin = job[t].bin => u = t
      /\ pc[t] \in Holding /\ job[t].new =>
            \A u \in Threads : pc[u] = "stop" => job[u].bin # job[t].bin

Labels == {"idle", "release", "stop", "start", "admit", "create", "subscribe", "enter", "poll",
           "clean"}

\* The types in three groups: the subscriptions, the registry and the server, the tasks.
SubTypes ==
    /\ live \subseteq Subs
    /\ monitored \in [Subs -> SUBSET Nodes]
    /\ mode \in [Subs -> {"idle", "native", "polling"}]

RegistryTypes ==
    /\ monitor \in [Nodes -> MonitorRecord \cup {NoMonitor}] /\ monitors \in Nat
    /\ bins \in [BinIds -> SUBSET Nodes]
    /\ open \subseteq BinIds
    /\ server \subseteq BinIds /\ items \in [BinIds -> [Nodes -> Nat]]
    /\ dead \subseteq BinIds /\ reconnects \in Nat /\ failed \in BOOLEAN

TaskTypes ==
    /\ admission \in Seq(Threads) /\ backoff \in BOOLEAN
    /\ pc \in [Threads -> Labels]
    /\ job \in [Threads -> Job] /\ turn \in Threads \cup {NoThread}

MonitorInv ==
    /\ SubTypes /\ RegistryTypes /\ TaskTypes
    /\ JobInv /\ AdmissionInv /\ RoomInv /\ LimitsKept
    /\ NativeIsPacked /\ StartInv /\ PackedIsOwned /\ AloneInv /\ ServerInv

\* The groups are the type invariant.
LEMMA TypesSplit == SubTypes /\ RegistryTypes /\ TaskTypes => TypeOK
BY DEF SubTypes, RegistryTypes, TaskTypes, TypeOK, Labels

\* The finite sets.
LEMMA Finite ==
  /\ IsFiniteSet(Threads) /\ IsFiniteSet(BinIds)
  /\ \A S \in SUBSET (BinIds \X Nodes) : IsFiniteSet(S)
  /\ \A S \in SUBSET Nodes : IsFiniteSet(S)
  /\ \A S \in SUBSET BinIds : IsFiniteSet(S)
<1>1. IsFiniteSet(Threads)
  BY WorkersAssumption, FS_AddElement DEF Threads
<1>2. IsFiniteSet(BinIds)
  BY FS_Interval, MonitorBoundsAssumption DEF BinIds
<1>3. IsFiniteSet(BinIds \X Nodes)
  BY <1>2, FS_Product, WorkersAssumption
<1> QED BY <1>1, <1>2, <1>3, FS_Subset, WorkersAssumption

-----------------------------------------------------------------------------
(* A task moves                                                             *)

\* Task t goes to step l with locals j.
Moves(t, l, j) == pc' = [pc EXCEPT ![t] = l] /\ job' = [job EXCEPT ![t] = j]

\* What a move changes.
LEMMA MoveFacts ==
  ASSUME MonitorInv, NEW t \in Threads, NEW l \in Labels, NEW j \in Job, Moves(t, l, j)
  PROVE  /\ pc' \in [Threads -> Labels] /\ job' \in [Threads -> Job]
         /\ pc'[t] = l /\ job'[t] = j
         /\ \A u \in Threads : u # t => pc'[u] = pc[u] /\ job'[u] = job[u]
<1>1. pc \in [Threads -> Labels] /\ job \in [Threads -> Job]
  BY DEF MonitorInv, TaskTypes
<1> QED BY <1>1 DEF Moves

\* A task that does not ask for the lock, before or after its step, or goes on with it.
LEMMA LockKept ==
  ASSUME MonitorInv, NEW t \in Threads, NEW l \in Labels, NEW j \in Job, Moves(t, l, j),
         admission' = admission, pc[t] \in Asking <=> l \in Asking,
         l \in Holding => admission[1] = t
  PROVE  AdmissionInv'
<1>1. /\ pc'[t] = l /\ \A u \in Threads : u # t => pc'[u] = pc[u]
  BY MoveFacts
<1>2. admission \in Seq(Threads)
  BY DEF MonitorInv, TaskTypes
<1>3. \A i \in 1 .. Len(admission) : admission[i] \in Threads
  BY <1>2
<1> QED BY <1>1, <1>3 DEF MonitorInv, AdmissionInv

\* A task queues up for the lock.
LEMMA LockAsked ==
  ASSUME MonitorInv, NEW t \in Threads, NEW j \in Job, Moves(t, "admit", j),
         admission' = Append(admission, t), pc[t] \notin Asking
  PROVE  AdmissionInv' /\ admission' \in Seq(Threads)
<1> DEFINE k == Len(admission)
<1>1. /\ pc'[t] = "admit" /\ \A u \in Threads : u # t => pc'[u] = pc[u]
  BY MoveFacts DEF Labels
<1>2. admission \in Seq(Threads) /\ k \in Nat /\ \A i \in 1 .. k : admission[i] \in Threads
  BY DEF MonitorInv, TaskTypes
<1>3. /\ admission' \in Seq(Threads) /\ Len(admission') = k + 1 /\ admission'[k + 1] = t
      /\ \A i \in 1 .. k : admission'[i] = admission[i]
  BY <1>2
<1> HIDE DEF k
<1>4. \A i \in 1 .. k : pc[admission[i]] \in Asking /\ admission[i] # t
  BY DEF MonitorInv, AdmissionInv, k
<1>5. \A i \in 1 .. k + 1 : pc'[admission'[i]] \in Asking
  <2> SUFFICES ASSUME NEW i \in 1 .. k + 1 PROVE pc'[admission'[i]] \in Asking
    OBVIOUS
  <2>1. CASE i = k + 1
    BY <1>1, <1>3, <2>1 DEF Asking
  <2>2. CASE i \in 1 .. k
    BY <1>1, <1>2, <1>3, <1>4, <2>2
  <2>3. i = k + 1 \/ i \in 1 .. k
    BY <1>2
  <2> QED BY <2>1, <2>2, <2>3
<1>6. \A i, m \in 1 .. k + 1 : admission'[i] = admission'[m] => i = m
  <2>1. \A i, m \in 1 .. k : admission[i] = admission[m] => i = m
    BY DEF MonitorInv, AdmissionInv, k
  <2> QED BY <1>2, <1>3, <1>4, <2>1
<1>7. \A u \in Threads : pc'[u] \in Asking => \E i \in 1 .. k + 1 : admission'[i] = u
  <2> SUFFICES ASSUME NEW u \in Threads, pc'[u] \in Asking
               PROVE  \E i \in 1 .. k + 1 : admission'[i] = u
    OBVIOUS
  <2>1. CASE u = t
    <3>1. k + 1 \in 1 .. k + 1
      BY <1>2
    <3> QED BY <1>3, <2>1, <3>1
  <2>2. CASE u # t
    <3>1. PICK i \in 1 .. k : admission[i] = u
      BY <1>1, <2>2 DEF MonitorInv, AdmissionInv, k
    <3>2. i \in 1 .. k + 1 /\ admission'[i] = u
      BY <1>2, <1>3, <3>1
    <3> QED BY <3>2
  <2> QED BY <2>1, <2>2
<1>8. \A u \in Threads : pc'[u] \in Holding => admission'[1] = u
  <2> SUFFICES ASSUME NEW u \in Threads, pc'[u] \in Holding PROVE admission'[1] = u
    OBVIOUS
  <2>1. u # t /\ pc[u] \in Holding
    BY <1>1 DEF Holding
  <2>2. admission[1] = u /\ pc[u] \in Asking
    BY <2>1 DEF MonitorInv, AdmissionInv, Holding, Asking
  <2>3. PICK i \in 1 .. k : admission[i] = u
    BY <2>2 DEF MonitorInv, AdmissionInv, k
  <2>4. 1 \in 1 .. k
    BY <1>2, <2>3
  <2> QED BY <1>3, <2>2, <2>4
<1> QED BY <1>3, <1>5, <1>6, <1>7, <1>8 DEF AdmissionInv

\* The task that asks for the lock is in its queue, and the first of it holds it alone.
LEMMA LockHeld ==
  ASSUME MonitorInv, NEW t \in Threads, pc[t] \in Asking, admission[1] = t
  PROVE  /\ admission # <<>> /\ Head(admission) = t
         /\ \A u \in Threads : pc[u] \in Holding => u = t
<1>1. admission \in Seq(Threads)
  BY DEF MonitorInv, TaskTypes
<1>2. PICK i \in 1 .. Len(admission) : admission[i] = t
  BY DEF MonitorInv, AdmissionInv
<1>3. admission # <<>>
  BY <1>1, <1>2
<1> QED BY <1>1, <1>3 DEF MonitorInv, AdmissionInv

\* The holder leaves the lock to the next.
LEMMA LockLeft ==
  ASSUME MonitorInv, NEW t \in Threads, NEW l \in Labels \ Asking, NEW j \in Job, Moves(t, l, j),
         admission' = Tail(admission), pc[t] \in Asking, admission[1] = t
  PROVE  AdmissionInv' /\ admission' \in Seq(Threads)
<1> DEFINE k == Len(admission)
<1>1. /\ pc'[t] = l /\ \A u \in Threads : u # t => pc'[u] = pc[u]
  BY MoveFacts
<1>2. admission \in Seq(Threads) /\ k \in Nat /\ \A i \in 1 .. k : admission[i] \in Threads
  BY DEF MonitorInv, TaskTypes
<1>3. admission # <<>> /\ \A u \in Threads : pc[u] \in Holding => u = t
  BY LockHeld
<1>4. /\ admission' \in Seq(Threads) /\ Len(admission') = k - 1 /\ k >= 1
      /\ \A i \in 1 .. k - 1 : admission'[i] = admission[i + 1]
  BY <1>2, <1>3
<1> HIDE DEF k
<1>5. /\ \A i \in 1 .. k : pc[admission[i]] \in Asking
      /\ \A i, m \in 1 .. k : admission[i] = admission[m] => i = m
      /\ \A u \in Threads : pc[u] \in Asking => \E i \in 1 .. k : admission[i] = u
  BY DEF MonitorInv, AdmissionInv, k
<1>6. \A i \in 1 .. k - 1 : i + 1 \in 1 .. k /\ admission[i + 1] # t
  <2>1. \A i \in 1 .. k - 1 : i + 1 \in 1 .. k /\ i + 1 # 1 /\ 1 \in 1 .. k
    BY <1>2, <1>4
  <2> QED BY <1>5, <2>1
<1>7. \A i \in 1 .. k - 1 : pc'[admission'[i]] \in Asking
  BY <1>1, <1>2, <1>4, <1>5, <1>6
<1>8. \A i, m \in 1 .. k - 1 : admission'[i] = admission'[m] => i = m
  BY <1>2, <1>4, <1>5, <1>6
<1>9. \A u \in Threads : pc'[u] \in Asking => \E i \in 1 .. k - 1 : admission'[i] = u
  <2> SUFFICES ASSUME NEW u \in Threads, pc'[u] \in Asking
               PROVE  \E i \in 1 .. k - 1 : admission'[i] = u
    OBVIOUS
  <2>1. u # t /\ pc[u] \in Asking
    BY <1>1
  <2>2. PICK i \in 1 .. k : admission[i] = u
    BY <1>5, <2>1
  <2>3. i # 1
    BY <2>1, <2>2
  <2>4. i - 1 \in 1 .. k - 1 /\ (i - 1) + 1 = i
    BY <1>2, <1>4, <2>2, <2>3
  <2> QED BY <1>4, <2>2, <2>4
<1>10. \A u \in Threads : pc'[u] \notin Holding
  BY <1>1, <1>3 DEF Holding, Asking
<1> QED BY <1>4, <1>7, <1>8, <1>9, <1>10 DEF AdmissionInv

-----------------------------------------------------------------------------
(* Room in the bins                                                         *)

Packed == {x \in open \X Nodes : x[2] \in bins[x[1]]}

\* What the limits are about is finite.
LEMMA PackedFinite ==
  ASSUME RegistryTypes
  PROVE  /\ IsFiniteSet(Packed) /\ Cardinality(Packed) \in Nat /\ TotalMonitored = Cardinality(Packed)
         /\ IsFiniteSet(open) /\ Cardinality(open) \in Nat
         /\ \A b \in BinIds : IsFiniteSet(bins[b]) /\ Cardinality(bins[b]) \in Nat
<1>1. Packed \in SUBSET (BinIds \X Nodes)
  BY DEF Packed, RegistryTypes
<1>2. open \in SUBSET BinIds /\ \A b \in BinIds : bins[b] \in SUBSET Nodes
  BY DEF RegistryTypes
<1>3. TotalMonitored = Cardinality(Packed)
  BY DEF TotalMonitored, Packed
<1>4. /\ IsFiniteSet(Packed) /\ IsFiniteSet(open)
      /\ \A b \in BinIds : IsFiniteSet(bins[b])
  BY <1>1, <1>2, Finite
<1> QED BY <1>3, <1>4, FS_CardinalityType

\* As long as bins only lose nodes there is at least as much room as before.
LEMMA RoomShrinks ==
  ASSUME MonitorInv, RegistryTypes', NEW t \in Threads, NEW l \in Labels, NEW j \in Job,
         Moves(t, l, j), open' \subseteq open, \A b \in BinIds : bins'[b] \subseteq bins[b],
         \A b \in open \ open' : bins'[b] = {},
         l \in Holding => pc[t] \in Holding /\ j.new = job[t].new /\ j.bin = job[t].bin,
         JobInv'
  PROVE  RoomInv' /\ LimitsKept'
<1>1. /\ pc'[t] = l /\ job'[t] = j
      /\ \A u \in Threads : u # t => pc'[u] = pc[u] /\ job'[u] = job[u]
  BY MoveFacts
<1>2. RegistryTypes
  BY DEF MonitorInv
<1>3. Cardinality(open') <= Cardinality(open) /\ Cardinality(open) \in Nat /\ Cardinality(open') \in Nat
  BY <1>2, PackedFinite, FS_Subset, FS_CardinalityType
<1>4. \A b \in BinIds : /\ Cardinality(bins'[b]) <= Cardinality(bins[b])
                        /\ Cardinality(bins[b]) \in Nat /\ Cardinality(bins'[b]) \in Nat
  BY <1>2, PackedFinite, FS_Subset, FS_CardinalityType
<1>5. TotalMonitored' <= TotalMonitored /\ TotalMonitored \in Nat /\ TotalMonitored' \in Nat
  <2> DEFINE P == Packed
             Q == {x \in open' \X Nodes : x[2] \in bins'[x[1]]}
  <2>1. Q \subseteq P
    BY <1>2 DEF Packed, RegistryTypes
  <2>2. TotalMonitored' = Cardinality(Q) /\ TotalMonitored = Cardinality(P) /\ IsFiniteSet(P)
    BY <1>2, PackedFinite DEF TotalMonitored
  <2> HIDE DEF P, Q
  <2> QED BY <2>1, <2>2, FS_Subset, FS_CardinalityType
<1>6. LimitsKept'
  <2>1. open \subseteq BinIds
    BY <1>2 DEF RegistryTypes
  <2>2. \A b \in open' : Cardinality(bins'[b]) <= Capacity
    BY <1>4, <2>1, LimitsAssumption DEF MonitorInv, LimitsKept
  <2>3. TotalMonitored' <= MaxItems /\ Cardinality(open') <= MaxSubscriptions
    BY <1>3, <1>5, LimitsAssumption DEF MonitorInv, LimitsKept
  <2> QED BY <2>2, <2>3 DEF LimitsKept
<1>7. \A b \in BinIds \ open' : bins'[b] = {}
  BY DEF MonitorInv, RoomInv
<1>8. ASSUME NEW u \in Threads, pc'[u] \in Holding
      PROVE  /\ TotalMonitored' + 1 <= MaxItems
             /\ IF job'[u].new THEN /\ job'[u].bin \notin open'
                                    /\ Cardinality(open') + 1 <= MaxSubscriptions
                ELSE job'[u].bin \in open' => Cardinality(bins'[job'[u].bin]) + 1 <= Capacity
  <2>1. pc[u] \in Holding /\ job'[u].new = job[u].new /\ job'[u].bin = job[u].bin
    BY <1>1, <1>8
  <2>2. /\ TotalMonitored + 1 <= MaxItems
        /\ IF job[u].new THEN job[u].bin \notin open /\ Cardinality(open) + 1 <= MaxSubscriptions
           ELSE job[u].bin \in open => Cardinality(bins[job[u].bin]) + 1 <= Capacity
    BY <2>1 DEF MonitorInv, RoomInv
  <2>3. TotalMonitored' + 1 <= MaxItems
    <3>1. \A x, y, m \in Nat : y <= x /\ x + 1 <= m => y + 1 <= m
      OBVIOUS
    <3> QED BY <1>5, <2>2, <3>1, LimitsAssumption
  <2>4. CASE job[u].new
    BY <1>3, <2>1, <2>2, <2>3, <2>4, LimitsAssumption
  <2>5. CASE ~job[u].new
    <3>1. ASSUME job[u].bin \in open' PROVE Cardinality(bins'[job[u].bin]) + 1 <= Capacity
      <4>1. job[u].bin \in open /\ job[u].bin \in BinIds
        BY <1>2, <3>1 DEF RegistryTypes
      <4> QED BY <1>4, <2>2, <2>5, <4>1, LimitsAssumption
    <3> QED BY <2>1, <2>3, <2>5, <3>1
  <2> QED BY <2>4, <2>5
<1> QED BY <1>6, <1>7, <1>8 DEF RoomInv

-----------------------------------------------------------------------------
(* Moves that leave the rest alone                                          *)

\* The modes and identities of the monitors stay, as far as they are not released.
SameMonitors ==
    \A n \in Nodes : monitor'[n] # NoMonitor =>
       monitor[n] # NoMonitor /\ monitor'[n].id = monitor[n].id /\ monitor'[n].mode = monitor[n].mode

\* A task that starts no monitor, or goes on with it.
LEMMA StartKept ==
  ASSUME MonitorInv, NEW t \in Threads, NEW l \in Labels, NEW j \in Job, Moves(t, l, j),
         JobInv', SameMonitors, monitors' \in Nat, monitors' >= monitors,
         reconnects' = 0 => reconnects = 0 /\ (t = Reconnector => l = "idle"),
         l \in Starting => pc[t] \in Starting /\ j.id = job[t].id /\ j.node = job[t].node
  PROVE  StartInv'
<1> SUFFICES ASSUME reconnects' = 0
             PROVE  /\ pc'[Reconnector] = "idle"
                    /\ \A q \in Threads : pc'[q] \in Starting =>
                         /\ job'[q].id \in 1 .. monitors'
                         /\ IsLive(q)' => monitor'[job'[q].node].mode = "idle"
                         /\ \A u \in Threads : pc'[u] \in Starting /\ job'[u].id = job'[q].id => u = q
  BY DEF StartInv
<1>1. /\ pc'[t] = l /\ job'[t] = j
      /\ \A u \in Threads : u # t => pc'[u] = pc[u] /\ job'[u] = job[u]
  BY MoveFacts
<1>2. /\ pc[Reconnector] = "idle"
      /\ \A q \in Threads : pc[q] \in Starting =>
            /\ job[q].id \in 1 .. monitors
            /\ IsLive(q) => monitor[job[q].node].mode = "idle"
            /\ \A u \in Threads : pc[u] \in Starting /\ job[u].id = job[q].id => u = q
  BY DEF MonitorInv, StartInv
<1>3. \A q \in Threads : pc'[q] \in Starting =>
         pc[q] \in Starting /\ job'[q].id = job[q].id /\ job'[q].node = job[q].node /\ job[q].node \in Nodes
  BY <1>1 DEF MonitorInv, JobInv, JobFits
<1>4. ASSUME NEW q \in Threads, pc'[q] \in Starting
      PROVE  /\ job'[q].id \in 1 .. monitors'
             /\ IsLive(q)' => monitor'[job'[q].node].mode = "idle"
             /\ \A u \in Threads : pc'[u] \in Starting /\ job'[u].id = job'[q].id => u = q
  <2>1. job'[q].id \in 1 .. monitors'
    BY <1>2, <1>3, <1>4 DEF MonitorInv, RegistryTypes
  <2>2. ASSUME IsLive(q)' PROVE monitor'[job'[q].node].mode = "idle"
    <3>1. monitor'[job[q].node] # NoMonitor /\ monitor'[job[q].node].id = job[q].id
      BY <1>3, <1>4, <2>2 DEF IsLive
    <3>2. IsLive(q)
      BY <1>3, <1>4, <3>1 DEF IsLive, SameMonitors
    <3> QED BY <1>2, <1>3, <1>4, <3>1, <3>2 DEF SameMonitors
  <2>3. \A u \in Threads : pc'[u] \in Starting /\ job'[u].id = job'[q].id => u = q
    BY <1>2, <1>3, <1>4
  <2> QED BY <2>1, <2>2, <2>3
<1>5. pc'[Reconnector] = "idle"
  <2>1. Reconnector \in Threads
    BY DEF Threads
  <2> QED BY <1>1, <1>2, <2>1
<1> QED BY <1>4, <1>5

\* A task that neither begins to close a bin nor to open one.
LEMMA AloneKept ==
  ASSUME MonitorInv, NEW t \in Threads, NEW l \in Labels, NEW j \in Job, Moves(t, l, j),
         open' \subseteq open, l # "stop",
         l \in Holding => pc[t] \in Holding /\ j.new = job[t].new /\ j.bin = job[t].bin
  PROVE  AloneInv'
<1>1. /\ pc'[t] = l /\ job'[t] = j
      /\ \A u \in Threads : u # t => pc'[u] = pc[u] /\ job'[u] = job[u]
  BY MoveFacts
<1>2. \A u \in Threads : pc'[u] = "stop" => u # t /\ pc[u] = "stop" /\ job'[u] = job[u]
  BY <1>1
<1>3. \A u \in Threads : pc'[u] \in Holding => pc[u] \in Holding /\ job'[u].new = job[u].new
                                               /\ job'[u].bin = job[u].bin
  BY <1>1
<1> QED BY <1>2, <1>3 DEF MonitorInv, AloneInv

\* The contributions of a task to the bins on the server and to their items.
Opens(l, j)   == l \in {"subscribe", "enter"} /\ j.new
Closes(l, j)  == l = "stop" /\ j.new
Touches(l, j) == l = "enter" \/ (l = "stop" /\ ~j.new)

\* The sets of ServerInv in terms of the contributions.
LEMMA Contributions ==
  /\ \A b : b \in Opening <=> \E u \in Threads : Opens(pc[u], job[u]) /\ job[u].bin = b
  /\ \A b : b \in Closing <=> \E u \in Threads : Closes(pc[u], job[u]) /\ job[u].bin = b
  /\ \A b, n : \A u : u \in Touching(b, n) <=>
        u \in Threads /\ Touches(pc[u], job[u]) /\ job[u].bin = b /\ job[u].node = n
BY DEF Opening, Closing, Touching, Opens, Closes, Touches

\* A task without contributions leaves the server as it is.
LEMMA ServerKept ==
  ASSUME MonitorInv, NEW t \in Threads, NEW l \in Labels, NEW j \in Job, Moves(t, l, j),
         ~Opens(pc[t], job[t]), ~Closes(pc[t], job[t]), ~Touches(pc[t], job[t]),
         ~Opens(l, j), ~Closes(l, j), ~Touches(l, j),
         reconnects' = 0 => reconnects = 0 /\ UNCHANGED <<open, bins, server, items, failed>>
  PROVE  ServerInv'
<1> SUFFICES ASSUME reconnects' = 0, ~failed'
             PROVE  /\ server' = open' \cup Opening' \cup Closing'
                    /\ \A b \in open' \cup Opening', n \in Nodes :
                         items'[b][n] = Cardinality(Touching(b, n)') + (IF n \in bins'[b] THEN 1 ELSE 0)
  BY DEF ServerInv
<1>1. /\ pc'[t] = l /\ job'[t] = j
      /\ \A u \in Threads : u # t => pc'[u] = pc[u] /\ job'[u] = job[u]
  BY MoveFacts
<1>2. /\ Opening' = Opening /\ Closing' = Closing
      /\ \A b, n : Touching(b, n)' = Touching(b, n)
  <2>1. \A u \in Threads : /\ Opens(pc[u], job[u]) <=> Opens(pc'[u], job'[u])
                           /\ Closes(pc[u], job[u]) <=> Closes(pc'[u], job'[u])
                           /\ Touches(pc[u], job[u]) <=> Touches(pc'[u], job'[u])
                           /\ u # t => job'[u] = job[u]
    BY <1>1
  <2>2. Opening' = Opening
    BY <1>1, <2>1 DEF Opening, Opens
  <2>3. Closing' = Closing
    BY <1>1, <2>1 DEF Closing, Closes
  <2>4. \A b, n : Touching(b, n)' = Touching(b, n)
    BY <1>1, <2>1 DEF Touching, Touches
  <2> QED BY <2>2, <2>3, <2>4
<1>3. /\ server = open \cup Opening \cup Closing
      /\ \A b \in open \cup Opening, n \in Nodes :
           items[b][n] = Cardinality(Touching(b, n)) + (IF n \in bins[b] THEN 1 ELSE 0)
  BY DEF MonitorInv, ServerInv
<1> QED BY <1>2, <1>3

\* The locals of the task that moves fit, and so do those of the others.
LEMMA JobKept ==
  ASSUME MonitorInv, NEW t \in Threads, NEW l \in Labels, NEW j \in Job, Moves(t, l, j),
         JobFits(t, l, j)
  PROVE  JobInv'
<1>1. /\ pc'[t] = l /\ job'[t] = j
      /\ \A u \in Threads : u # t => pc'[u] = pc[u] /\ job'[u] = job[u]
  BY MoveFacts
<1>2. \A u \in Threads : JobFits(u, pc[u], job[u])
  BY DEF MonitorInv, JobInv
<1>3. \A u \in Threads : JobFits(u, pc'[u], job'[u])
  BY <1>1, <1>2
<1> QED BY <1>3 DEF JobInv, JobFits

\* The reconnect listener is idle until the first reconnect.
LEMMA ListenerIdle ==
  ASSUME MonitorInv, pc[Reconnector] # "idle"
  PROVE  reconnects # 0
BY DEF MonitorInv, StartInv

\* A task goes on: it has control until it awaits.
LEMMA GotoFacts ==
  ASSUME NEW t \in Threads, NEW l, Goto(t, l)
  PROVE  pc' = [pc EXCEPT ![t] = l] /\ turn' \in Threads \cup {NoThread}
BY DEF Goto

\* A step that leaves the registry and the bins alone keeps what is said about them.
LEMMA RegistryKept ==
  ASSUME MonitorInv, NEW t \in Threads, NEW l \in Labels, NEW j \in Job, Moves(t, l, j),
         JobFits(t, l, j), SubTypes', RegistryTypes', TaskTypes',
         UNCHANGED <<monitor, monitors, bins, open, reconnects>>,
         t = Reconnector => pc[t] # "idle",
         reconnects = 0 /\ l \in Starting =>
            pc[t] \in Starting /\ j.id = job[t].id /\ j.node = job[t].node,
         l \in Holding => pc[t] \in Holding /\ j.new = job[t].new /\ j.bin = job[t].bin,
         l # "stop", AdmissionInv', ServerInv'
  PROVE  MonitorInv'
<1>1. JobInv'
  BY JobKept
<1>2. RoomInv' /\ LimitsKept'
  BY <1>1, RoomShrinks
<1>3. SameMonitors /\ monitors \in Nat
  BY DEF SameMonitors, MonitorInv, RegistryTypes
<1>4. reconnects' = 0 => reconnects = 0 /\ (t = Reconnector => l = "idle")
  BY ListenerIdle
<1>5. StartInv'
  <2>1. CASE reconnects = 0
    BY <1>1, <1>3, <1>4, <2>1, StartKept
  <2>2. CASE reconnects # 0
    BY <2>2 DEF StartInv
  <2> QED BY <2>1, <2>2
<1>6. AloneInv'
  BY AloneKept
<1>7. NativeIsPacked' /\ PackedIsOwned'
  BY DEF MonitorInv, NativeIsPacked, PackedIsOwned
<1> QED BY <1>1, <1>2, <1>5, <1>6, <1>7 DEF MonitorInv

-----------------------------------------------------------------------------
(* Steps of a request that only move                                        *)

\* A request of a subscription begins.
LEMMA RequestBegins ==
  ASSUME MonitorInv, NEW w \in Workers, NEW j \in Job, j.sub \in Subs, pc[w] = "idle", SubTypes',
         job' = [job EXCEPT ![w] = j], Goto(w, "release"),
         UNCHANGED <<monVars, binVars, srvVars, admission, backoff, recVars>>
  PROVE  MonitorInv'
<1>1. w \in Threads /\ w # Reconnector
  BY WorkersAssumption DEF Threads
<1>2. Moves(w, "release", j) /\ turn' \in Threads \cup {NoThread}
  BY <1>1, GotoFacts DEF Moves
<1>3. "release" \in Labels /\ "release" \notin Asking /\ "release" \notin Starting
      /\ "release" \notin Holding /\ pc[w] \notin Asking
  BY DEF Labels, Asking, Starting, Holding
<1>4. JobFits(w, "release", j)
  BY <1>1 DEF JobFits, Starting, Holding
<1>5. UNCHANGED <<monitor, monitors, bins, open, reconnects, dead, server, items, failed, admission, backoff>>
  BY DEF monVars, binVars, srvVars, recVars
<1>6. RegistryTypes' /\ TaskTypes'
  BY <1>1, <1>2, <1>3, <1>5, MoveFacts DEF MonitorInv, RegistryTypes, TaskTypes
<1>7. AdmissionInv'
  BY <1>1, <1>2, <1>3, <1>5, LockKept
<1>8. ServerInv'
  BY <1>1, <1>2, <1>3, <1>5, ServerKept DEF Opens, Closes, Touches
<1> QED BY <1>1, <1>2, <1>3, <1>4, <1>5, <1>6, <1>7, <1>8, RegistryKept

\* register_items and unregister_items.
LEMMA SetMonitoredStep ==
  ASSUME MonitorInv, NEW w \in Workers, NEW s \in Subs, NEW S \in SUBSET Nodes,
         SetMonitored(w, s, S)
  PROVE  MonitorInv'
<1> DEFINE j == [NoJob EXCEPT !.sub = s, !.rel = monitored[s] \ S, !.acq = S \ monitored[s]]
<1>1. monitored \in [Subs -> SUBSET Nodes]
  BY DEF MonitorInv, SubTypes
<1>2. SubTypes'
  BY <1>1 DEF SetMonitored, MonitorInv, SubTypes
<1>3. j \in Job /\ j.sub \in Subs
  BY <1>1 DEF NoJob, Job
<1>4. job' = [job EXCEPT ![w] = j]
  BY DEF SetMonitored
<1> HIDE DEF j
<1> QED BY <1>2, <1>3, <1>4, RequestBegins DEF SetMonitored, Free

\* delete_subscriptions and the expiry.
LEMMA RemoveSubscriptionStep ==
  ASSUME MonitorInv, NEW w \in Workers, NEW s \in Subs, RemoveSubscription(w, s)
  PROVE  MonitorInv'
<1> DEFINE j == [NoJob EXCEPT !.sub = s, !.rel = monitored[s]]
<1>1. monitored \in [Subs -> SUBSET Nodes]
  BY DEF MonitorInv, SubTypes
<1>2. SubTypes'
  BY <1>1 DEF RemoveSubscription, MonitorInv, SubTypes
<1>3. j \in Job /\ j.sub \in Subs
  BY <1>1 DEF NoJob, Job
<1>4. job' = [job EXCEPT ![w] = j]
  BY DEF RemoveSubscription
<1> HIDE DEF j
<1> QED BY <1>2, <1>3, <1>4, RequestBegins DEF RemoveSubscription, Free

\* A request, or the listener, comes to its end.
LEMMA TaskEnds ==
  ASSUME MonitorInv, NEW t \in Threads, pc[t] = "release", SubTypes',
         job' = [job EXCEPT ![t] = NoJob], Goto(t, "idle"),
         UNCHANGED <<monVars, binVars, srvVars, admission, backoff, recVars>>
  PROVE  MonitorInv'
<1>1. NoJob \in Job
  BY DEF NoJob, Job
<1>2. Moves(t, "idle", NoJob) /\ turn' \in Threads \cup {NoThread}
  BY GotoFacts DEF Moves
<1>3. "idle" \in Labels /\ "idle" \notin Asking /\ "idle" \notin Starting
      /\ "idle" \notin Holding /\ pc[t] \notin Asking
  BY DEF Labels, Asking, Starting, Holding
<1>4. JobFits(t, "idle", NoJob)
  BY DEF JobFits, Starting, Holding
<1>5. UNCHANGED <<monitor, monitors, bins, open, reconnects, dead, server, items, failed, admission, backoff>>
  BY DEF monVars, binVars, srvVars, recVars
<1>6. RegistryTypes' /\ TaskTypes'
  BY <1>1, <1>2, <1>3, <1>5, MoveFacts DEF MonitorInv, RegistryTypes, TaskTypes
<1>7. AdmissionInv'
  BY <1>1, <1>2, <1>3, <1>5, LockKept
<1>8. ServerInv'
  BY <1>1, <1>2, <1>3, <1>5, ServerKept DEF Opens, Closes, Touches
<1> QED BY <1>1, <1>2, <1>3, <1>4, <1>5, <1>6, <1>7, <1>8, RegistryKept

\* The end of a request.
LEMMA FinishRequestStep ==
  ASSUME MonitorInv, NEW w \in Workers, FinishRequest(w)
  PROVE  MonitorInv'
<1>1. w \in Threads
  BY DEF Threads
<1>2. \A s : ModeOf(s) \in {"idle", "native", "polling"}
  BY DEF ModeOf
<1>3. SubTypes'
  BY <1>2 DEF FinishRequest, MonitorInv, SubTypes
<1> QED BY <1>1, <1>3, TaskEnds DEF FinishRequest

\* The end of the reconnect listener.
LEMMA FinishReconnectStep ==
  ASSUME MonitorInv, FinishReconnect
  PROVE  MonitorInv'
<1>1. Reconnector \in Threads
  BY DEF Threads
<1>2. \A s : ModeOf(s) \in {"idle", "native", "polling"}
  BY DEF ModeOf
<1>3. SubTypes'
  BY <1>2 DEF FinishReconnect, MonitorInv, SubTypes
<1> QED BY <1>1, <1>3, TaskEnds DEF FinishReconnect

-----------------------------------------------------------------------------
(* A start or stop returns to its caller                                    *)

\* The locals of the call are gone, those of the caller remain.
LEMMA ForgetFacts ==
  ASSUME MonitorInv, NEW t \in Threads, Forget(t)
  PROVE  \E j \in Job : j.sub = job[t].sub /\ job' = [job EXCEPT ![t] = j]
<1> DEFINE j == [NoJob EXCEPT !.sub = job[t].sub, !.rel = job[t].rel, !.acq = job[t].acq]
<1>1. job[t] \in Job
  BY DEF MonitorInv, TaskTypes
<1>2. j \in Job /\ j.sub = job[t].sub
  BY <1>1 DEF NoJob, Job
<1>3. job' = [job EXCEPT ![t] = j]
  BY DEF Forget
<1> HIDE DEF j
<1> QED BY <1>2, <1>3

\* Back in the caller's loop.
LEMMA CallReturns ==
  ASSUME MonitorInv, NEW t \in Threads, pc[t] # "idle", Forget(t), Goto(t, "release"),
         SubTypes, backoff' \in BOOLEAN, admission' \in Seq(Threads)
  PROVE  /\ TaskTypes' /\ "release" \in Labels
         /\ \E j \in Job : Moves(t, "release", j) /\ JobFits(t, "release", j)
<1>1. PICK j \in Job : j.sub = job[t].sub /\ job' = [job EXCEPT ![t] = j]
  BY ForgetFacts
<1>2. Moves(t, "release", j) /\ turn' \in Threads \cup {NoThread}
  BY <1>1, GotoFacts DEF Moves
<1>3. "release" \in Labels
  BY DEF Labels
<1>4. t \in Workers => job[t].sub \in Subs
  BY DEF MonitorInv, JobInv, JobFits
<1>5. JobFits(t, "release", j)
  BY <1>1, <1>4 DEF JobFits, Starting, Holding
<1>6. TaskTypes'
  BY <1>1, <1>2, <1>3, MoveFacts DEF TaskTypes
<1> QED BY <1>2, <1>3, <1>5, <1>6

\* The registered monitor of a node gets a mode and a bin.
LEMMA Repoint ==
  ASSUME RegistryTypes, NEW n \in Nodes, monitor[n] # NoMonitor,
         NEW c \in {"idle", "native", "polling"}, NEW v \in Nat,
         monitor' = [monitor EXCEPT ![n].mode = c, ![n].bin = v]
  PROVE  /\ monitor' \in [Nodes -> MonitorRecord \cup {NoMonitor}]
         /\ monitor'[n] # NoMonitor /\ monitor'[n].id = monitor[n].id
         /\ monitor'[n].mode = c /\ monitor'[n].bin = v
         /\ \A m \in Nodes : m # n => monitor'[m] = monitor[m]
<1> DEFINE r == [monitor[n] EXCEPT !.mode = c, !.bin = v]
<1>1. monitor \in [Nodes -> MonitorRecord \cup {NoMonitor}] /\ monitor[n] \in MonitorRecord
  BY DEF RegistryTypes
<1>2. r \in MonitorRecord /\ r.id = monitor[n].id /\ r.mode = c /\ r.bin = v
  BY <1>1 DEF MonitorRecord
<1>3. monitor' = [monitor EXCEPT ![n] = r]
  BY <1>1
<1> HIDE DEF r
<1> QED BY <1>1, <1>2, <1>3, NoMonitorAssumption

\* A start comes to its end with a new mode for its monitor: nobody else starts that one.
LEMMA StartDone ==
  ASSUME MonitorInv, NEW t \in Threads, NEW j \in Job, Moves(t, "release", j),
         pc[t] \in Starting, IsLive(t), UNCHANGED <<monitors, reconnects>>,
         monitor'[job[t].node].id = monitor[job[t].node].id,
         \A m \in Nodes : m # job[t].node => monitor'[m] = monitor[m]
  PROVE  StartInv'
<1> DEFINE n == job[t].node
<1> SUFFICES ASSUME reconnects = 0
             PROVE  /\ pc'[Reconnector] = "idle"
                    /\ \A q \in Threads : pc'[q] \in Starting =>
                         /\ job'[q].id \in 1 .. monitors'
                         /\ IsLive(q)' => monitor'[job'[q].node].mode = "idle"
                         /\ \A u \in Threads : pc'[u] \in Starting /\ job'[u].id = job'[q].id => u = q
  BY DEF StartInv
<1>1. /\ pc'[t] = "release"
      /\ \A u \in Threads : u # t => pc'[u] = pc[u] /\ job'[u] = job[u]
  BY MoveFacts DEF Labels
<1>2. /\ pc[Reconnector] = "idle"
      /\ \A q \in Threads : pc[q] \in Starting =>
            /\ job[q].id \in 1 .. monitors
            /\ IsLive(q) => monitor[job[q].node].mode = "idle"
            /\ \A u \in Threads : pc[u] \in Starting /\ job[u].id = job[q].id => u = q
  BY DEF MonitorInv, StartInv
<1>3. pc'[Reconnector] = "idle"
  <2>1. Reconnector \in Threads /\ pc[t] # "idle"
    BY DEF Threads, Starting
  <2> QED BY <1>1, <1>2, <2>1
<1>4. ASSUME NEW q \in Threads, pc'[q] \in Starting
      PROVE  /\ job'[q].id \in 1 .. monitors'
             /\ IsLive(q)' => monitor'[job'[q].node].mode = "idle"
             /\ \A u \in Threads : pc'[u] \in Starting /\ job'[u].id = job'[q].id => u = q
  <2>1. \A u \in Threads : pc'[u] \in Starting => u # t /\ pc[u] \in Starting /\ job'[u] = job[u]
    BY <1>1 DEF Starting
  <2>2. q # t /\ pc[q] \in Starting /\ job'[q] = job[q]
    BY <1>4, <2>1
  <2>3. job[q].node \in Nodes
    BY <2>2 DEF MonitorInv, JobInv, JobFits
  <2>4. ASSUME IsLive(q)' PROVE monitor'[job'[q].node].mode = "idle"
    <3>1. monitor'[job[q].node] # NoMonitor /\ monitor'[job[q].node].id = job[q].id
      BY <2>2, <2>4 DEF IsLive
    <3>2. job[q].node # n
      <4> SUFFICES ASSUME job[q].node = n PROVE FALSE
        OBVIOUS
      <4>1. job[q].id = job[t].id
        BY <3>1 DEF IsLive
      <4> QED BY <1>2, <2>2, <4>1
    <3>3. monitor'[job[q].node] = monitor[job[q].node]
      BY <2>3, <3>2
    <3>4. IsLive(q)
      BY <3>1, <3>3 DEF IsLive
    <3> QED BY <1>2, <2>2, <3>3, <3>4
  <2> QED BY <1>2, <2>1, <2>2, <2>4
<1> QED BY <1>3, <1>4

\* _start_polling_node_monitor: the started monitor, if it is still there, was in no bin.
LEMMA StartPollingStep ==
  ASSUME MonitorInv, NEW t \in Threads, StartPolling(t)
  PROVE  MonitorInv'
<1> DEFINE n == job[t].node
<1>1. pc[t] = "poll" /\ Forget(t) /\ Goto(t, "release")
  BY DEF StartPolling
<1>2. /\ UNCHANGED <<live, monitored, mode, monitors, bins, open, reconnects, dead, server, items,
                     failed, admission, backoff>>
  BY DEF StartPolling, subVars, binVars, srvVars, recVars
<1>3. SubTypes' /\ SubTypes /\ backoff' \in BOOLEAN /\ admission' \in Seq(Threads)
  BY <1>2 DEF MonitorInv, SubTypes, TaskTypes
<1>4. /\ TaskTypes' /\ "release" \in Labels
      /\ \E j \in Job : Moves(t, "release", j) /\ JobFits(t, "release", j)
  BY <1>1, <1>3, CallReturns
<1>5. PICK j \in Job : Moves(t, "release", j) /\ JobFits(t, "release", j)
  BY <1>4
<1>6. pc[t] \notin Asking /\ "release" \notin Asking \cup Starting \cup Holding /\ pc[t] \in Starting
  BY <1>1 DEF Asking, Starting, Holding
<1>7. n \in Nodes
  BY <1>1 DEF MonitorInv, JobInv, JobFits, Starting
<1>8. monitor \in [Nodes -> MonitorRecord \cup {NoMonitor}]
  BY DEF MonitorInv, RegistryTypes
<1>9. /\ ~IsLive(t) => monitor' = monitor
      /\ IsLive(t) => /\ monitor[n].id = job[t].id /\ monitor'[n].id = monitor[n].id
                      /\ monitor'[n].mode = "polling" /\ monitor'[n] # NoMonitor
                      /\ \A m \in Nodes : m # n => monitor'[m] = monitor[m]
                      /\ monitor' \in [Nodes -> MonitorRecord \cup {NoMonitor}]
  <2>1. ~IsLive(t) => monitor' = monitor
    BY DEF StartPolling
  <2>2. ASSUME IsLive(t)
        PROVE  /\ monitor[n] # NoMonitor /\ monitor[n].id = job[t].id
               /\ monitor' = [monitor EXCEPT ![n].mode = "polling", ![n].bin = 0]
    BY <2>2 DEF StartPolling, IsLive
  <2>3. RegistryTypes /\ 0 \in Nat
    BY DEF MonitorInv
  <2> HIDE DEF n
  <2> QED BY <1>7, <2>1, <2>2, <2>3, Repoint
<1> HIDE DEF n
<1>10. RegistryTypes'
  BY <1>2, <1>8, <1>9 DEF MonitorInv, RegistryTypes
<1>11. JobInv'
  BY <1>4, <1>5, JobKept
<1>12. AdmissionInv'
  BY <1>2, <1>4, <1>5, <1>6, LockKept
<1>13. RoomInv' /\ LimitsKept'
  BY <1>2, <1>4, <1>5, <1>6, <1>10, <1>11, RoomShrinks
<1>14. AloneInv'
  BY <1>2, <1>4, <1>5, <1>6, AloneKept
<1>15. ServerInv'
  BY <1>1, <1>2, <1>4, <1>5, ServerKept DEF Opens, Closes, Touches
<1>16. NativeIsPacked'
  BY <1>2, <1>9 DEF MonitorInv, NativeIsPacked
<1>17. reconnects = 0 /\ IsLive(t) => monitor[n].mode = "idle"
  BY <1>6 DEF MonitorInv, StartInv, n
<1>18. PackedIsOwned'
  <2> SUFFICES ASSUME reconnects = 0, NEW b \in open, NEW m \in bins[b]
               PROVE  monitor'[m] # NoMonitor /\ monitor'[m].mode = "native" /\ monitor'[m].bin = b
    BY <1>2 DEF PackedIsOwned
  <2>1. /\ monitor[m] # NoMonitor /\ monitor[m].mode = "native" /\ monitor[m].bin = b
        /\ m \in Nodes
    BY DEF MonitorInv, PackedIsOwned, RegistryTypes
  <2> QED BY <1>9, <1>17, <2>1
<1>19. StartInv'
  <2>1. CASE IsLive(t)
    BY <1>2, <1>5, <1>6, <1>9, <2>1, StartDone DEF n
  <2>2. CASE ~IsLive(t)
    <3>1. SameMonitors /\ monitors \in Nat
      BY <1>9, <2>2 DEF SameMonitors, MonitorInv, RegistryTypes
    <3>2. reconnects' = 0 => reconnects = 0 /\ (t = Reconnector => "release" = "idle")
      BY <1>1, <1>2, ListenerIdle
    <3> QED BY <1>2, <1>4, <1>5, <1>6, <1>11, <3>1, <3>2, StartKept
  <2> QED BY <2>1, <2>2
<1> QED BY <1>3, <1>4, <1>10, <1>11, <1>12, <1>13, <1>14, <1>15, <1>16, <1>18, <1>19 DEF MonitorInv

-----------------------------------------------------------------------------
(* What the other tasks contribute                                          *)

OpenOthers(t)        == {job[u].bin : u \in {v \in Threads \ {t} : Opens(pc[v], job[v])}}
CloseOthers(t)       == {job[u].bin : u \in {v \in Threads \ {t} : Closes(pc[v], job[v])}}
TouchOthers(t, b, n) == {u \in Threads \ {t} : /\ Touches(pc[u], job[u])
                                               /\ job[u].bin = b /\ job[u].node = n}
TouchCount(l, j, b, n) == IF Touches(l, j) /\ j.bin = b /\ j.node = n THEN 1 ELSE 0

\* Counting a set with and without one of its elements.
LEMMA CountOne ==
  ASSUME NEW S, NEW T, NEW x, IsFiniteSet(S), x \notin S, T = S \cup {x}
  PROVE  Cardinality(T) = Cardinality(S) + 1 /\ Cardinality(S) \in Nat
BY FS_AddElement, FS_CardinalityType

\* The contributions before and after a move differ by those of the task that moves.
LEMMA MoveContributes ==
  ASSUME MonitorInv, NEW t \in Threads, NEW l \in Labels, NEW j \in Job, Moves(t, l, j)
  PROVE  /\ \A b : b \in Opening <=> b \in OpenOthers(t) \/ (Opens(pc[t], job[t]) /\ job[t].bin = b)
         /\ \A b : b \in Opening' <=> b \in OpenOthers(t) \/ (Opens(l, j) /\ j.bin = b)
         /\ \A b : b \in Closing <=> b \in CloseOthers(t) \/ (Closes(pc[t], job[t]) /\ job[t].bin = b)
         /\ \A b : b \in Closing' <=> b \in CloseOthers(t) \/ (Closes(l, j) /\ j.bin = b)
         /\ \A b, n : /\ Cardinality(TouchOthers(t, b, n)) \in Nat
                      /\ Cardinality(Touching(b, n))
                           = Cardinality(TouchOthers(t, b, n)) + TouchCount(pc[t], job[t], b, n)
                      /\ Cardinality(Touching(b, n)')
                           = Cardinality(TouchOthers(t, b, n)) + TouchCount(l, j, b, n)
<1>1. /\ pc'[t] = l /\ job'[t] = j
      /\ \A u \in Threads \ {t} : pc'[u] = pc[u] /\ job'[u] = job[u]
  BY MoveFacts
<1>2. /\ \A b : b \in Opening <=> \E u \in Threads : Opens(pc[u], job[u]) /\ job[u].bin = b
      /\ \A b : b \in Opening' <=> \E u \in Threads : Opens(pc'[u], job'[u]) /\ job'[u].bin = b
  BY DEF Opening, Opens
<1>3. /\ \A b : b \in Closing <=> \E u \in Threads : Closes(pc[u], job[u]) /\ job[u].bin = b
      /\ \A b : b \in Closing' <=> \E u \in Threads : Closes(pc'[u], job'[u]) /\ job'[u].bin = b
  BY DEF Closing, Closes
<1>4. \A b : b \in Opening <=> b \in OpenOthers(t) \/ (Opens(pc[t], job[t]) /\ job[t].bin = b)
  BY <1>2 DEF OpenOthers
<1>5. \A b : b \in Opening' <=> b \in OpenOthers(t) \/ (Opens(l, j) /\ j.bin = b)
  BY <1>1, <1>2 DEF OpenOthers
<1>6. \A b : b \in Closing <=> b \in CloseOthers(t) \/ (Closes(pc[t], job[t]) /\ job[t].bin = b)
  BY <1>3 DEF CloseOthers
<1>7. \A b : b \in Closing' <=> b \in CloseOthers(t) \/ (Closes(l, j) /\ j.bin = b)
  BY <1>1, <1>3 DEF CloseOthers
<1>8. ASSUME NEW b, NEW n
      PROVE  /\ Cardinality(TouchOthers(t, b, n)) \in Nat
             /\ Cardinality(Touching(b, n))
                  = Cardinality(TouchOthers(t, b, n)) + TouchCount(pc[t], job[t], b, n)
             /\ Cardinality(Touching(b, n)')
                  = Cardinality(TouchOthers(t, b, n)) + TouchCount(l, j, b, n)
  <2> DEFINE S == TouchOthers(t, b, n)
             T == Touching(b, n)
             U == Touching(b, n)'
  <2>1. S \subseteq Threads /\ t \notin S
    BY DEF TouchOthers
  <2>2. IsFiniteSet(S) /\ Cardinality(S) \in Nat
    BY <2>1, Finite, FS_Subset, FS_CardinalityType
  <2>3. T = IF Touches(pc[t], job[t]) /\ job[t].bin = b /\ job[t].node = n THEN S \cup {t} ELSE S
    BY DEF Touching, TouchOthers, Touches
  <2>4. U = IF Touches(l, j) /\ j.bin = b /\ j.node = n THEN S \cup {t} ELSE S
    BY <1>1 DEF Touching, TouchOthers, Touches
  <2> HIDE DEF S, T, U
  <2>5. Cardinality(T) = Cardinality(S) + TouchCount(pc[t], job[t], b, n)
    BY <2>1, <2>2, <2>3, CountOne DEF TouchCount
  <2>6. Cardinality(U) = Cardinality(S) + TouchCount(l, j, b, n)
    BY <2>1, <2>2, <2>4, CountOne DEF TouchCount
  <2> QED BY <2>2, <2>5, <2>6 DEF S, T, U
<1> QED BY <1>4, <1>5, <1>6, <1>7, <1>8

\* The server after a move, from what the other tasks contribute.
LEMMA ServerMoved ==
  ASSUME MonitorInv, NEW t \in Threads, NEW l \in Labels, NEW j \in Job, Moves(t, l, j),
         reconnects' = 0 /\ ~failed' =>
           /\ \A b : b \in server' <=> \/ b \in open' \cup OpenOthers(t) \cup CloseOthers(t)
                                       \/ (Opens(l, j) \/ Closes(l, j)) /\ j.bin = b
           /\ \A b \in open' \cup OpenOthers(t), n \in Nodes :
                items'[b][n] = (Cardinality(TouchOthers(t, b, n)) + TouchCount(l, j, b, n))
                                 + (IF n \in bins'[b] THEN 1 ELSE 0)
           /\ Opens(l, j) => \A n \in Nodes :
                items'[j.bin][n] = (Cardinality(TouchOthers(t, j.bin, n)) + TouchCount(l, j, j.bin, n))
                                 + (IF n \in bins'[j.bin] THEN 1 ELSE 0)
  PROVE  ServerInv'
<1> SUFFICES ASSUME reconnects' = 0, ~failed'
             PROVE  /\ server' = open' \cup Opening' \cup Closing'
                    /\ \A b \in open' \cup Opening', n \in Nodes :
                         items'[b][n] = Cardinality(Touching(b, n)') + (IF n \in bins'[b] THEN 1 ELSE 0)
  BY DEF ServerInv
<1>1. /\ \A b : b \in Opening' <=> b \in OpenOthers(t) \/ (Opens(l, j) /\ j.bin = b)
      /\ \A b : b \in Closing' <=> b \in CloseOthers(t) \/ (Closes(l, j) /\ j.bin = b)
      /\ \A b, n : Cardinality(Touching(b, n)')
                           = Cardinality(TouchOthers(t, b, n)) + TouchCount(l, j, b, n)
  BY MoveContributes
<1>2. server' = open' \cup Opening' \cup Closing'
  BY <1>1
<1>3. ASSUME NEW b \in open' \cup Opening', NEW n \in Nodes
      PROVE  items'[b][n] = Cardinality(Touching(b, n)') + (IF n \in bins'[b] THEN 1 ELSE 0)
  <2>1. CASE b \in open' \cup OpenOthers(t)
    BY <1>1, <2>1
  <2>2. CASE Opens(l, j) /\ j.bin = b
    BY <1>1, <2>2
  <2> QED BY <1>1, <1>3, <2>1, <2>2
<1> QED BY <1>2, <1>3

\* The server before a move, the same way.
LEMMA ServerBefore ==
  ASSUME MonitorInv, NEW t \in Threads, NEW l \in Labels, NEW j \in Job, Moves(t, l, j),
         reconnects = 0, ~failed
  PROVE  /\ \A b : b \in server <=> \/ b \in open \cup OpenOthers(t) \cup CloseOthers(t)
                                    \/ (Opens(pc[t], job[t]) \/ Closes(pc[t], job[t])) /\ job[t].bin = b
         /\ \A b, n : Cardinality(TouchOthers(t, b, n)) \in Nat
         /\ \A b \in open \cup OpenOthers(t), n \in Nodes :
                items[b][n] = (Cardinality(TouchOthers(t, b, n)) + TouchCount(pc[t], job[t], b, n))
                                 + (IF n \in bins[b] THEN 1 ELSE 0)
         /\ Opens(pc[t], job[t]) => \A n \in Nodes :
                items[job[t].bin][n] = (Cardinality(TouchOthers(t, job[t].bin, n))
                                          + TouchCount(pc[t], job[t], job[t].bin, n))
                                 + (IF n \in bins[job[t].bin] THEN 1 ELSE 0)
<1>1. /\ \A b : b \in Opening <=> b \in OpenOthers(t) \/ (Opens(pc[t], job[t]) /\ job[t].bin = b)
      /\ \A b : b \in Closing <=> b \in CloseOthers(t) \/ (Closes(pc[t], job[t]) /\ job[t].bin = b)
      /\ \A b, n : /\ Cardinality(TouchOthers(t, b, n)) \in Nat
                   /\ Cardinality(Touching(b, n))
                           = Cardinality(TouchOthers(t, b, n)) + TouchCount(pc[t], job[t], b, n)
  BY MoveContributes
<1>2. /\ server = open \cup Opening \cup Closing
      /\ \A b \in open \cup Opening, n \in Nodes :
            items[b][n] = Cardinality(Touching(b, n)) + (IF n \in bins[b] THEN 1 ELSE 0)
  BY DEF MonitorInv, ServerInv
<1>3. \A b : b \in server <=> \/ b \in open \cup OpenOthers(t) \cup CloseOthers(t)
                              \/ (Opens(pc[t], job[t]) \/ Closes(pc[t], job[t])) /\ job[t].bin = b
  BY <1>1, <1>2
<1>4. ASSUME NEW b \in open \cup OpenOthers(t), NEW n \in Nodes
      PROVE items[b][n] = (Cardinality(TouchOthers(t, b, n)) + TouchCount(pc[t], job[t], b, n))
                                 + (IF n \in bins[b] THEN 1 ELSE 0)
  <2>1. b \in open \cup Opening
    BY <1>1
  <2> QED BY <1>1, <1>2, <2>1
<1>5. ASSUME Opens(pc[t], job[t]), NEW n \in Nodes
      PROVE items[job[t].bin][n] = (Cardinality(TouchOthers(t, job[t].bin, n))
                                          + TouchCount(pc[t], job[t], job[t].bin, n))
                                 + (IF n \in bins[job[t].bin] THEN 1 ELSE 0)
  <2>1. job[t].bin \in open \cup Opening
    BY <1>1, <1>5
  <2> QED BY <1>1, <1>2, <2>1
<1> QED BY <1>1, <1>3, <1>4, <1>5

\* An item is deleted from the server.
LEMMA ItemDeleted ==
  ASSUME items \in [BinIds -> [Nodes -> Nat]], NEW b \in BinIds, NEW n \in Nodes,
         items' = [items EXCEPT ![b][n] = IF @ > 0 THEN @ - 1 ELSE 0]
  PROVE  /\ items' \in [BinIds -> [Nodes -> Nat]]
         /\ items'[b][n] = IF items[b][n] > 0 THEN items[b][n] - 1 ELSE 0
         /\ \A c \in BinIds, m \in Nodes : c # b \/ m # n => items'[c][m] = items[c][m]
<1> DEFINE v == IF items[b][n] > 0 THEN items[b][n] - 1 ELSE 0
<1>1. items[b][n] \in Nat
  OBVIOUS
<1>2. v \in Nat
  BY <1>1
<1>3. items' = [items EXCEPT ![b][n] = v]
  OBVIOUS
<1> HIDE DEF v
<1>4. items' \in [BinIds -> [Nodes -> Nat]] /\ items'[b][n] = v
  BY <1>2, <1>3
<1>5. \A c \in BinIds, m \in Nodes : c # b \/ m # n => items'[c][m] = items[c][m]
  BY <1>2, <1>3
<1> QED BY <1>4, <1>5 DEF v

\* delete_subscription or unsubscribe_data_changes for a released node.
LEMMA StopRuntimeStep ==
  ASSUME MonitorInv, NEW w \in Workers, StopRuntime(w)
  PROVE  MonitorInv'
<1> DEFINE b == job[w].bin
           n == job[w].node
<1>1. pc[w] = "stop" /\ Forget(w) /\ Goto(w, "release") /\ w \in Threads /\ w # Reconnector
  BY WorkersAssumption DEF StopRuntime, Threads
<1>2. /\ UNCHANGED <<live, monitored, mode, monitor, monitors, bins, open, reconnects, dead,
                     admission, backoff>>
  BY DEF StopRuntime, subVars, monVars, binVars, recVars
<1>3. SubTypes' /\ SubTypes /\ backoff' \in BOOLEAN /\ admission' \in Seq(Threads)
  BY <1>2 DEF MonitorInv, SubTypes, TaskTypes
<1>4. /\ TaskTypes' /\ "release" \in Labels
      /\ \E j \in Job : Moves(w, "release", j) /\ JobFits(w, "release", j)
  BY <1>1, <1>3, CallReturns
<1>5. PICK j \in Job : Moves(w, "release", j) /\ JobFits(w, "release", j)
  BY <1>4
<1>6. pc[w] \notin Asking /\ "release" \notin Asking \cup Starting \cup Holding
  BY <1>1 DEF Asking, Starting, Holding
<1>7. b \in BinIds /\ n \in Nodes /\ job[w].new \in BOOLEAN
  BY <1>1 DEF MonitorInv, JobInv, JobFits, TaskTypes, Job
<1>8. /\ items \in [BinIds -> [Nodes -> Nat]] /\ server \subseteq BinIds
      /\ failed \in BOOLEAN
  BY DEF MonitorInv, RegistryTypes
<1>9. \/ /\ job[w].new /\ server' = server \ {b} /\ items' = items /\ failed' = failed
      \/ /\ ~job[w].new /\ server' = server /\ failed' = failed
         /\ items' = [items EXCEPT ![b][n] = IF @ > 0 THEN @ - 1 ELSE 0]
      \/ failed' = TRUE /\ server' = server /\ items' = items
  BY DEF StopRuntime, MayFail
<1> HIDE DEF b, n
<1>10. ASSUME items' = [items EXCEPT ![b][n] = IF @ > 0 THEN @ - 1 ELSE 0]
       PROVE  /\ items' \in [BinIds -> [Nodes -> Nat]]
              /\ items'[b][n] = IF items[b][n] > 0 THEN items[b][n] - 1 ELSE 0
              /\ \A c \in BinIds, m \in Nodes : c # b \/ m # n => items'[c][m] = items[c][m]
  BY <1>7, <1>8, <1>10, ItemDeleted
<1>11. RegistryTypes'
  <2>1. items' \in [BinIds -> [Nodes -> Nat]] /\ server' \subseteq BinIds /\ failed' \in BOOLEAN
    BY <1>8, <1>9, <1>10
  <2> QED BY <1>2, <2>1 DEF MonitorInv, RegistryTypes
<1>12. AdmissionInv'
  BY <1>1, <1>2, <1>4, <1>5, <1>6, LockKept
<1>13. ServerInv'
  <2> SUFFICES ASSUME reconnects' = 0, ~failed'
               PROVE  ServerInv'
    BY DEF ServerInv
  <2>1. reconnects = 0 /\ ~failed
    BY <1>2, <1>9
  <2> DEFINE O == OpenOthers(w)
             C == CloseOthers(w)
             K(c, m) == Cardinality(TouchOthers(w, c, m))
  <2>2. /\ ~Opens("release", j) /\ ~Closes("release", j) /\ ~Touches("release", j)
        /\ \A c, m : TouchCount("release", j, c, m) = 0
        /\ ~Opens(pc[w], job[w]) /\ (Closes(pc[w], job[w]) <=> job[w].new)
        /\ \A c, m : TouchCount(pc[w], job[w], c, m) = IF ~job[w].new /\ c = b /\ m = n THEN 1 ELSE 0
    BY <1>1 DEF Opens, Closes, Touches, TouchCount, b, n
  <2>3. /\ \A c : c \in server <=> c \in open \cup O \cup C \/ (job[w].new /\ c = b)
        /\ \A c, m : K(c, m) \in Nat
        /\ \A c \in open \cup O, m \in Nodes :
             items[c][m] = (K(c, m) + (IF ~job[w].new /\ c = b /\ m = n THEN 1 ELSE 0))
                             + (IF m \in bins[c] THEN 1 ELSE 0)
    BY <1>1, <1>4, <1>5, <2>1, <2>2, ServerBefore DEF b
  <2>4. open \cup O \subseteq BinIds
    <3>1. O \subseteq BinIds
      BY DEF OpenOthers, Opens, MonitorInv, JobInv, JobFits, Holding
    <3> QED BY <3>1 DEF MonitorInv, RegistryTypes
  <2>5. job[w].new => b \notin open \cup O \cup C
    <3> SUFFICES ASSUME job[w].new PROVE b \notin open \cup O \cup C
      OBVIOUS
    <3>1. b \notin open
      BY <1>1 DEF MonitorInv, AloneInv, b
    <3>2. b \notin C
      BY <1>1 DEF MonitorInv, AloneInv, b, CloseOthers, Closes
    <3>3. b \notin O
      BY <1>1 DEF MonitorInv, AloneInv, b, OpenOthers, Opens, Holding
    <3> QED BY <3>1, <3>2, <3>3
  <2>6. ASSUME NEW c \in open \cup O, NEW m \in Nodes
        PROVE  items'[c][m] = K(c, m) + (IF m \in bins[c] THEN 1 ELSE 0)
    <3> DEFINE k == K(c, m)
    <3>1. k \in Nat /\ c \in BinIds
      BY <2>3, <2>4
    <3>2. items[c][m] = (k + (IF ~job[w].new /\ c = b /\ m = n THEN 1 ELSE 0))
                             + (IF m \in bins[c] THEN 1 ELSE 0)
      BY <2>3
    <3> HIDE DEF k, K
    <3>3. CASE job[w].new
      BY <1>9, <3>1, <3>2, <3>3 DEF k
    <3>4. CASE ~job[w].new /\ c = b /\ m = n
      <4>1. items'[b][n] = IF items[b][n] > 0 THEN items[b][n] - 1 ELSE 0
        BY <1>9, <1>10, <3>4
      <4> QED BY <3>1, <3>2, <3>4, <4>1 DEF k
    <3>5. CASE ~job[w].new /\ ~(c = b /\ m = n)
      <4>1. items'[c][m] = items[c][m]
        BY <1>9, <1>10, <3>1, <3>5
      <4> QED BY <3>1, <3>2, <3>5, <4>1 DEF k
    <3> QED BY <3>3, <3>4, <3>5
  <2>7. \A c : c \in server' <=> c \in open \cup O \cup C
    BY <1>9, <2>3, <2>5
  <2>8. \A c, m : (K(c, m) + 0) = K(c, m)
    BY <2>3
  <2> QED BY <1>1, <1>2, <1>4, <1>5, <2>2, <2>6, <2>7, <2>8, ServerMoved
<1> QED BY <1>1, <1>2, <1>3, <1>4, <1>5, <1>6, <1>11, <1>12, <1>13, RegistryKept

-----------------------------------------------------------------------------
(* Steps that leave the bins alone                                          *)

\* A step of no task.
LEMMA BackoffStep ==
  ASSUME MonitorInv, backoff' \in BOOLEAN,
         UNCHANGED <<subVars, monVars, binVars, srvVars, pc, job, turn, admission, recVars>>
  PROVE  MonitorInv'
<1>1. UNCHANGED <<live, monitored, mode, monitor, monitors, bins, open, server, items, failed,
                  pc, job, turn, admission, dead, reconnects>>
  BY DEF subVars, monVars, binVars, srvVars, recVars
<1>2. SubTypes' /\ RegistryTypes' /\ TaskTypes'
  BY <1>1 DEF MonitorInv, SubTypes, RegistryTypes, TaskTypes
<1>3. JobInv' /\ AdmissionInv' /\ AloneInv'
  BY <1>1 DEF MonitorInv, JobInv, JobFits, AdmissionInv, AloneInv
<1>4. RoomInv' /\ LimitsKept' /\ NativeIsPacked' /\ PackedIsOwned'
  BY <1>1 DEF MonitorInv, RoomInv, LimitsKept, TotalMonitored, NativeIsPacked, PackedIsOwned
<1>5. StartInv'
  BY <1>1 DEF MonitorInv, StartInv, IsLive
<1>6. ServerInv'
  BY <1>1 DEF MonitorInv, ServerInv, Opening, Closing, Touching
<1> QED BY <1>2, <1>3, <1>4, <1>5, <1>6 DEF MonitorInv

\* A start goes to polling at once, or asks for the admission lock.
LEMMA StartRuntimeStep ==
  ASSUME MonitorInv, NEW t \in Threads, StartRuntime(t)
  PROVE  MonitorInv'
<1> DEFINE l == IF backoff THEN "poll" ELSE "admit"
<1>1. pc[t] = "start" /\ job[t] \in Job /\ job \in [Threads -> Job]
  BY DEF StartRuntime, MonitorInv, TaskTypes
<1>2. UNCHANGED <<live, monitored, mode, monitor, monitors, bins, open, server, items, failed,
                  job, backoff, dead, reconnects>>
  BY DEF StartRuntime, subVars, monVars, binVars, srvVars, recVars
<1>3. /\ Goto(t, l)
      /\ backoff => admission' = admission
      /\ ~backoff => admission' = Append(admission, t)
  BY DEF StartRuntime
<1>4. Moves(t, l, job[t]) /\ turn' \in Threads \cup {NoThread}
  BY <1>1, <1>2, <1>3, GotoFacts DEF Moves
<1>5. /\ l \in Labels /\ l \in Starting /\ l \notin Holding /\ l # "stop" /\ pc[t] \in Starting
      /\ pc[t] \notin Asking
  BY <1>1 DEF Labels, Starting, Holding, Asking
<1>6. JobFits(t, l, job[t])
  BY <1>1 DEF MonitorInv, JobInv, JobFits, Starting, Holding
<1>7. AdmissionInv' /\ admission' \in Seq(Threads)
  <2>1. CASE backoff
    <3>1. l = "poll" /\ l \notin Asking /\ admission' = admission /\ admission' \in Seq(Threads)
      BY <1>3, <2>1 DEF Asking, MonitorInv, TaskTypes
    <3> QED BY <1>1, <1>4, <1>5, <3>1, LockKept
  <2>2. CASE ~backoff
    <3>1. l = "admit" /\ admission' = Append(admission, t)
      BY <1>3, <2>2
    <3> QED BY <1>1, <1>4, <1>5, <3>1, LockAsked
  <2> QED BY <2>1, <2>2
<1> HIDE DEF l
<1>8. SubTypes' /\ RegistryTypes' /\ TaskTypes'
  BY <1>1, <1>2, <1>4, <1>5, <1>7, MoveFacts DEF MonitorInv, SubTypes, RegistryTypes, TaskTypes
<1>9. ServerInv'
  <2>1. /\ ~Opens(pc[t], job[t]) /\ ~Closes(pc[t], job[t]) /\ ~Touches(pc[t], job[t])
        /\ ~Opens(l, job[t]) /\ ~Closes(l, job[t]) /\ ~Touches(l, job[t])
    BY <1>1, <1>5 DEF Opens, Closes, Touches, Holding, l
  <2> QED BY <1>1, <1>2, <1>4, <1>5, <2>1, ServerKept
<1> QED BY <1>1, <1>2, <1>4, <1>5, <1>6, <1>7, <1>8, <1>9, RegistryKept

\* delete_subscription for a dead bin.
LEMMA DeleteDeadBinStep ==
  ASSUME MonitorInv, NEW b \in BinIds, DeleteDeadBin(b)
  PROVE  MonitorInv'
<1> DEFINE t == Reconnector
           l == IF dead' = {} THEN "release" ELSE "clean"
<1>1. t \in Threads /\ pc[t] = "clean" /\ job[t] \in Job /\ job \in [Threads -> Job]
  BY DEF DeleteDeadBin, MonitorInv, TaskTypes, Threads
<1>2. UNCHANGED <<live, monitored, mode, monitor, monitors, bins, open, items,
                  job, backoff, admission, reconnects>>
  BY DEF DeleteDeadBin, subVars, monVars, binVars
<1>3. reconnects # 0
  BY <1>1, ListenerIdle
<1>4. Moves(t, l, job[t]) /\ turn' \in Threads \cup {NoThread}
  BY <1>1, <1>2, GotoFacts DEF Moves, DeleteDeadBin
<1>5. /\ l \in Labels /\ l \notin Starting \cup Holding \cup Asking /\ l # "stop"
      /\ pc[t] \notin Asking
  BY <1>1 DEF Labels, Starting, Holding, Asking
<1>6. JobFits(t, l, job[t])
  BY <1>1, <1>5, WorkersAssumption DEF JobFits
<1>7. dead' \subseteq BinIds /\ server' \subseteq BinIds /\ failed' \in BOOLEAN
  BY DEF DeleteDeadBin, MayFail, MonitorInv, RegistryTypes
<1> HIDE DEF t, l
<1>8. SubTypes' /\ RegistryTypes' /\ TaskTypes'
  BY <1>1, <1>2, <1>4, <1>5, <1>7, MoveFacts DEF MonitorInv, SubTypes, RegistryTypes, TaskTypes
<1>9. AdmissionInv'
  BY <1>1, <1>2, <1>4, <1>5, LockKept
<1>10. ServerInv'
  BY <1>2, <1>3 DEF ServerInv
<1> QED BY <1>1, <1>2, <1>3, <1>4, <1>5, <1>6, <1>8, <1>9, <1>10, RegistryKept

\* The listener starts the monitor of a lost node again.
LEMMA ReadmitNodeStep ==
  ASSUME MonitorInv, NEW n \in Nodes, ReadmitNode(n)
  PROVE  MonitorInv'
<1> DEFINE t == Reconnector
           idle == monitor[n] # NoMonitor /\ monitor[n].mode = "idle"
           l == IF idle THEN "start" ELSE "release"
           j == IF idle THEN [job[t] EXCEPT !.acq = @ \ {n}, !.node = n, !.id = monitor[n].id]
                ELSE [job[t] EXCEPT !.acq = @ \ {n}]
<1>1. t \in Threads /\ pc[t] = "release" /\ job[t] \in Job /\ job \in [Threads -> Job]
  BY DEF ReadmitNode, MonitorInv, TaskTypes, Threads
<1>2. UNCHANGED <<live, monitored, mode, monitor, monitors, bins, open, server, items, failed,
                  backoff, admission, dead, reconnects>>
  BY DEF ReadmitNode, subVars, monVars, binVars, srvVars, recVars
<1>3. reconnects # 0
  BY <1>1, ListenerIdle
<1>4. Goto(t, l)
  BY DEF ReadmitNode
<1>5. j \in Job /\ (l = "start" => j.node = n)
  <2>1. CASE idle
    <3>1. monitor[n].id \in Nat
      BY <2>1 DEF MonitorInv, RegistryTypes, MonitorRecord
    <3> QED BY <1>1, <2>1, <3>1 DEF Job
  <2>2. CASE ~idle
    BY <1>1, <2>2 DEF Job
  <2> QED BY <2>1, <2>2
<1>6. job' = [job EXCEPT ![t] = j]
  <2>1. CASE idle
    BY <1>1, <2>1 DEF ReadmitNode
  <2>2. CASE ~idle
    BY <1>1, <2>2 DEF ReadmitNode
  <2> QED BY <2>1, <2>2
<1>7. l \in {"start", "release"}
  OBVIOUS
<1> HIDE DEF t, l, j, idle
<1>8. Moves(t, l, j) /\ turn' \in Threads \cup {NoThread}
  BY <1>1, <1>4, <1>6, GotoFacts DEF Moves
<1>9. /\ l \in Labels /\ l \notin Holding \cup Asking /\ l # "stop"
      /\ pc[t] \notin Asking
  BY <1>1, <1>7 DEF Labels, Holding, Asking
<1>10. JobFits(t, l, j)
  BY <1>1, <1>5, <1>7, WorkersAssumption DEF JobFits, Starting, Holding, t
<1>11. SubTypes' /\ RegistryTypes' /\ TaskTypes'
  BY <1>1, <1>2, <1>5, <1>8, <1>9, MoveFacts DEF MonitorInv, SubTypes, RegistryTypes, TaskTypes
<1>12. AdmissionInv'
  BY <1>1, <1>2, <1>5, <1>8, <1>9, LockKept
<1>13. ServerInv'
  BY <1>2, <1>3 DEF ServerInv
<1> QED BY <1>1, <1>2, <1>3, <1>5, <1>8, <1>9, <1>10, <1>11, <1>12, <1>13, RegistryKept

-----------------------------------------------------------------------------
(* The holder of the admission lock                                         *)

\* The holder of the lock is the first of its queue.
LEMMA HolderFirst ==
  ASSUME MonitorInv, NEW t \in Threads,
         pc[t] \in Holding \/ (pc[t] = "admit" /\ Head(admission) = t)
  PROVE  pc[t] \in Asking /\ admission[1] = t
<1>1. pc[t] \in Asking
  BY DEF Holding, Asking
<1>2. CASE pc[t] \in Holding
  BY <1>1, <1>2 DEF MonitorInv, AdmissionInv
<1>3. CASE pc[t] = "admit" /\ Head(admission) = t
  <2>1. admission \in Seq(Threads)
    BY DEF MonitorInv, TaskTypes
  <2>2. PICK i \in 1 .. Len(admission) : admission[i] = t
    BY <1>1 DEF MonitorInv, AdmissionInv
  <2> QED BY <1>1, <1>3, <2>1, <2>2
<1> QED BY <1>2, <1>3

\* The start gives up the lock and goes to polling, with the bins as they were.
LEMMA LeaveToPoll ==
  ASSUME MonitorInv, NEW t \in Threads, pc[t] \in Asking, admission[1] = t, Leave(t, "poll"),
         SubTypes', RegistryTypes', backoff' \in BOOLEAN, ServerInv',
         UNCHANGED <<monitor, monitors, bins, open, reconnects, job>>
  PROVE  MonitorInv'
<1>1. job[t] \in Job /\ job \in [Threads -> Job]
  BY DEF MonitorInv, TaskTypes
<1>2. Moves(t, "poll", job[t]) /\ turn' \in Threads \cup {NoThread} /\ admission' = Tail(admission)
  BY <1>1, GotoFacts DEF Moves, Leave
<1>3. /\ "poll" \in Labels \ Asking /\ "poll" \notin Holding /\ pc[t] \in Starting
      /\ pc[t] # "idle"
  BY DEF Labels, Starting, Holding, Asking
<1>4. JobFits(t, "poll", job[t])
  <2>1. JobFits(t, pc[t], job[t])
    BY DEF MonitorInv, JobInv
  <2> QED BY <1>3, <2>1 DEF JobFits, Starting, Holding
<1>5. AdmissionInv' /\ admission' \in Seq(Threads)
  BY <1>1, <1>2, <1>3, LockLeft
<1>6. TaskTypes'
  BY <1>1, <1>2, <1>3, <1>5, MoveFacts DEF TaskTypes
<1> QED BY <1>1, <1>2, <1>3, <1>4, <1>5, <1>6, RegistryKept

\* _acquire_native_bin_slot up to its first network call.
LEMMA SelectBinStep ==
  ASSUME MonitorInv, NEW t \in Threads, SelectBin(t)
  PROVE  MonitorInv'
<1> DEFINE full == \/ TotalMonitored + 1 > MaxItems
                   \/ Spare = {} /\ Cardinality(open) + 1 > MaxSubscriptions
           l == IF Spare # {} THEN "subscribe" ELSE "create"
<1>1. /\ pc[t] = "admit" /\ Head(admission) = t /\ job[t] \in Job /\ job \in [Threads -> Job]
      /\ pc[t] \in Starting /\ job[t].node \in Nodes
  BY DEF SelectBin, MonitorInv, TaskTypes, JobInv, JobFits, Starting
<1>2. pc[t] \in Asking /\ admission[1] = t
  BY <1>1, HolderFirst
<1>3. UNCHANGED <<live, monitored, mode, monitor, monitors, bins, open, server, items, failed,
                  backoff, dead, reconnects>>
  BY DEF SelectBin, subVars, monVars, binVars, srvVars, recVars
<1>4. SubTypes' /\ RegistryTypes' /\ backoff' \in BOOLEAN
  BY <1>3 DEF MonitorInv, SubTypes, RegistryTypes, TaskTypes
<1>5. ~Opens(pc[t], job[t]) /\ ~Closes(pc[t], job[t]) /\ ~Touches(pc[t], job[t])
  BY <1>1 DEF Opens, Closes, Touches
<1>6. CASE full
  <2>1. Leave(t, "poll") /\ job' = job
    BY <1>6 DEF SelectBin
  <2>2. ServerInv'
    <3>1. Moves(t, "poll", job[t]) /\ "poll" \in Labels
      BY <1>1, <2>1, GotoFacts DEF Moves, Leave, Labels
    <3>2. ~Opens("poll", job[t]) /\ ~Closes("poll", job[t]) /\ ~Touches("poll", job[t])
      BY DEF Opens, Closes, Touches
    <3> QED BY <1>1, <1>3, <1>5, <3>1, <3>2, ServerKept
  <2> QED BY <1>2, <1>3, <1>4, <2>1, <2>2, LeaveToPoll
<1>7. CASE ~full
  <2>1. PICK b \in (IF Spare # {} THEN Spare ELSE {x \in Unused : \A y \in Unused : x <= y}) :
               job' = [job EXCEPT ![t].bin = b, ![t].new = (Spare = {})]
    BY <1>7 DEF SelectBin
  <2>2. Goto(t, l) /\ admission' = admission
    BY <1>7 DEF SelectBin
  <2> DEFINE new == (Spare = {})
             j == [job[t] EXCEPT !.bin = b, !.new = new]
  <2>3. /\ b \in BinIds
        /\ new => b \in Unused
        /\ ~new => b \in open /\ Cardinality(bins[b]) < Capacity
    <3>1. open \subseteq BinIds
      BY DEF MonitorInv, RegistryTypes
    <3> QED BY <2>1, <3>1 DEF Spare, Unused
  <2>4. new \in BOOLEAN /\ b \in Nat
    BY <2>3, MonitorBoundsAssumption DEF BinIds
  <2>5. job' = [job EXCEPT ![t] = [job[t] EXCEPT !.bin = b, !.new = (Spare = {})]]
    BY <1>1, <2>1
  <2>6. l \in {"subscribe", "create"} /\ (l = "create" <=> new)
    OBVIOUS
  <2> HIDE DEF new, l, full
  <2>7. job' = [job EXCEPT ![t] = j]
    BY <2>5 DEF new
  <2>8. j \in Job /\ j.bin = b /\ j.new = new /\ j.id = job[t].id /\ j.node = job[t].node
        /\ j.sub = job[t].sub
    BY <1>1, <2>4 DEF Job
  <2> HIDE DEF j
  <2>9. Moves(t, l, j) /\ turn' \in Threads \cup {NoThread}
    BY <1>1, <2>2, <2>7, GotoFacts DEF Moves
  <2>10. l \in Labels /\ l \in Asking /\ l \in Holding /\ l \in Starting /\ l # "stop"
    BY <2>6 DEF Labels, Asking, Holding, Starting
  <2>11. JobFits(t, l, j)
    <3>1. t \in Workers => job[t].sub \in Subs
      BY <1>1 DEF MonitorInv, JobInv, JobFits
    <3> QED BY <1>1, <2>3, <2>6, <2>8, <3>1 DEF JobFits
  <2>12. JobInv'
    BY <2>8, <2>9, <2>10, <2>11, JobKept
  <2>13. TaskTypes'
    BY <1>4, <2>2, <2>8, <2>9, <2>10, MoveFacts DEF MonitorInv, TaskTypes
  <2>14. AdmissionInv'
    BY <1>2, <2>2, <2>8, <2>9, <2>10, LockKept
  <2>15. /\ pc'[t] = l /\ job'[t] = j
         /\ \A u \in Threads : u # t => pc'[u] = pc[u] /\ job'[u] = job[u]
    BY <2>8, <2>9, <2>10, MoveFacts
  <2>16. \A u \in Threads : pc'[u] \in Holding => u = t
    BY <1>2, <2>15, LockHeld
  <2>17. RoomInv'
    <3>1. RegistryTypes
      BY DEF MonitorInv
    <3>2. /\ TotalMonitored \in Nat /\ Cardinality(open) \in Nat
          /\ \A c \in BinIds : Cardinality(bins[c]) \in Nat
      BY <3>1, PackedFinite
    <3>3. /\ TotalMonitored + 1 <= MaxItems
          /\ new => Cardinality(open) + 1 <= MaxSubscriptions
      BY <1>7, <3>2, LimitsAssumption DEF full, new
    <3>4. ~new => Cardinality(bins[b]) + 1 <= Capacity
      BY <2>3, <3>2, LimitsAssumption
    <3>5. new => b \notin open
      BY <2>3 DEF Unused
    <3>6. TotalMonitored' = TotalMonitored
      BY <1>3 DEF TotalMonitored
    <3>7. \A u \in Threads : pc'[u] \in Holding => job'[u] = j
      BY <2>15, <2>16
    <3>8. \A c \in BinIds \ open' : bins'[c] = {}
      BY <1>3 DEF MonitorInv, RoomInv
    <3> QED BY <1>3, <2>8, <3>3, <3>4, <3>5, <3>6, <3>7, <3>8 DEF RoomInv
  <2>18. LimitsKept' /\ NativeIsPacked' /\ PackedIsOwned'
    BY <1>3 DEF MonitorInv, LimitsKept, TotalMonitored, NativeIsPacked, PackedIsOwned
  <2>19. StartInv'
    <3>1. SameMonitors /\ monitors \in Nat
      BY <1>3 DEF SameMonitors, MonitorInv, RegistryTypes
    <3>2. reconnects' = 0 => reconnects = 0 /\ (t = Reconnector => l = "idle")
      BY <1>1, <1>3, ListenerIdle
    <3> QED BY <1>1, <1>3, <2>8, <2>9, <2>10, <2>12, <3>1, <3>2, StartKept
  <2>20. AloneInv'
    <3>1. \A u \in Threads : pc'[u] = "stop" => u # t /\ pc[u] = "stop" /\ job'[u] = job[u]
      BY <2>10, <2>15
    <3>2. new => \A u \in Threads : pc[u] = "stop" => job[u].bin # b
      BY <2>3 DEF Unused
    <3> QED BY <1>3, <2>8, <2>15, <2>16, <3>1, <3>2 DEF MonitorInv, AloneInv
  <2>21. ServerInv'
    <3>1. ~Opens(l, j) /\ ~Closes(l, j) /\ ~Touches(l, j)
      BY <2>6, <2>8 DEF Opens, Closes, Touches
    <3> QED BY <1>3, <1>5, <2>8, <2>9, <2>10, <3>1, ServerKept
  <2> QED BY <1>4, <2>12, <2>13, <2>14, <2>17, <2>18, <2>19, <2>20, <2>21 DEF MonitorInv
<1> QED BY <1>6, <1>7

\* While one task holds the lock no other opens a bin or has just made an item.
LEMMA HolderAlone ==
  ASSUME MonitorInv, NEW t \in Threads, pc[t] \in Holding
  PROVE  OpenOthers(t) = {} /\ \A u \in Threads \ {t} : pc[u] \notin Holding
<1>1. \A u \in Threads \ {t} : pc[u] \notin Holding
  BY HolderFirst, LockHeld
<1> QED BY <1>1 DEF OpenOthers, Opens, Holding

\* create_datachange_subscription.
LEMMA CreateSubscriptionStep ==
  ASSUME MonitorInv, NEW t \in Threads, CreateSubscription(t)
  PROVE  MonitorInv'
<1> DEFINE b == job[t].bin
<1>1. /\ pc[t] = "create" /\ job[t] \in Job /\ job \in [Threads -> Job]
      /\ pc[t] \in Starting /\ pc[t] \in Holding /\ job[t].node \in Nodes /\ b \in BinIds /\ job[t].new
  BY DEF CreateSubscription, MonitorInv, TaskTypes, JobInv, JobFits, Starting, Holding
<1>2. pc[t] \in Asking /\ admission[1] = t
  BY <1>1, HolderFirst
<1>3. UNCHANGED <<live, monitored, mode, monitor, monitors, bins, open, job, dead, reconnects>>
  BY DEF CreateSubscription, subVars, monVars, binVars, recVars
<1>4. SubTypes'
  BY <1>3 DEF MonitorInv, SubTypes
<1>5. ~Opens(pc[t], job[t]) /\ ~Closes(pc[t], job[t]) /\ ~Touches(pc[t], job[t])
  BY <1>1 DEF Opens, Closes, Touches
<1>6. CASE /\ server' = server \cup {b}
           /\ items' = [items EXCEPT ![b] = [n \in Nodes |-> 0]]
           /\ Goto(t, "subscribe")
           /\ UNCHANGED <<failed, admission, backoff>>
  <2>1. Moves(t, "subscribe", job[t]) /\ turn' \in Threads \cup {NoThread}
    BY <1>1, <1>3, <1>6, GotoFacts DEF Moves
  <2>2. /\ "subscribe" \in Labels /\ "subscribe" \in Asking /\ "subscribe" \in Starting
        /\ "subscribe" \in Holding
    BY DEF Labels, Asking, Starting, Holding
  <2>3. JobFits(t, "subscribe", job[t])
    BY <1>1 DEF MonitorInv, JobInv, JobFits
  <2>4. /\ items' \in [BinIds -> [Nodes -> Nat]] /\ \A n \in Nodes : items'[b][n] = 0
        /\ \A c \in BinIds \ {b} : items'[c] = items[c]
    <3> DEFINE z == [n \in Nodes |-> 0]
    <3>1. z \in [Nodes -> Nat] /\ \A n \in Nodes : z[n] = 0
      OBVIOUS
    <3>2. items' = [items EXCEPT ![b] = z] /\ items \in [BinIds -> [Nodes -> Nat]]
      BY <1>6 DEF MonitorInv, RegistryTypes
    <3> HIDE DEF z, b
    <3> QED BY <1>1, <3>1, <3>2
  <2>5. RegistryTypes'
    BY <1>1, <1>3, <1>6, <2>4 DEF MonitorInv, RegistryTypes
  <2>6. TaskTypes'
    BY <1>1, <1>6, <2>1, <2>2, MoveFacts DEF MonitorInv, TaskTypes
  <2>7. AdmissionInv'
    BY <1>1, <1>2, <1>6, <2>1, <2>2, LockKept
  <2>8. ServerInv'
    <3> SUFFICES ASSUME reconnects' = 0, ~failed'
                 PROVE  ServerInv'
      BY DEF ServerInv
    <3>1. reconnects = 0 /\ ~failed
      BY <1>3, <1>6
    <3> DEFINE C == CloseOthers(t)
               K(c, m) == Cardinality(TouchOthers(t, c, m))
    <3>2. OpenOthers(t) = {} /\ \A u \in Threads \ {t} : pc[u] \notin Holding
      BY <1>1, HolderAlone
    <3>3. /\ Opens("subscribe", job[t]) /\ ~Closes("subscribe", job[t])
          /\ \A c, m : TouchCount("subscribe", job[t], c, m) = 0
          /\ \A c, m : TouchCount(pc[t], job[t], c, m) = 0
      BY <1>1 DEF Opens, Closes, Touches, TouchCount
    <3>4. /\ \A c : c \in server <=> c \in open \cup OpenOthers(t) \cup C
          /\ \A c, m : K(c, m) \in Nat
          /\ \A c \in open \cup OpenOthers(t), m \in Nodes :
               items[c][m] = (K(c, m) + 0) + (IF m \in bins[c] THEN 1 ELSE 0)
      BY <1>1, <1>5, <2>1, <2>2, <3>1, <3>3, ServerBefore
    <3>5. b \notin open /\ bins[b] = {}
      BY <1>1 DEF MonitorInv, RoomInv
    <3>6. \A m \in Nodes : K(b, m) = 0
      <4>1. \A u \in Threads : pc[u] = "stop" => job[u].bin # b
        BY <1>1 DEF MonitorInv, AloneInv
      <4>2. \A m : TouchOthers(t, b, m) = {}
        BY <3>2, <4>1 DEF TouchOthers, Touches, Holding
      <4> QED BY <4>2, FS_EmptySet
    <3>7. \A c : c \in server' <=> c \in open \cup OpenOthers(t) \cup C \/ b = c
      BY <1>6, <3>4
    <3>8. \A c \in open \cup OpenOthers(t), m \in Nodes :
               items'[c][m] = (K(c, m) + 0) + (IF m \in bins[c] THEN 1 ELSE 0)
      <4>1. \A c \in open : c \in BinIds \ {b}
        BY <3>5 DEF MonitorInv, RegistryTypes
      <4> QED BY <2>4, <3>2, <3>4, <4>1
    <3>9. \A m \in Nodes : items'[b][m] = (K(b, m) + 0) + (IF m \in bins[b] THEN 1 ELSE 0)
      BY <2>4, <3>5, <3>6
    <3> HIDE DEF K
    <3> QED BY <1>1, <1>3, <2>1, <2>2, <3>3, <3>7, <3>8, <3>9, ServerMoved DEF K
  <2> QED BY <1>1, <1>3, <1>4, <2>1, <2>2, <2>3, <2>5, <2>6, <2>7, <2>8, RegistryKept
<1>7. CASE /\ failed' = TRUE /\ backoff' = TRUE /\ Leave(t, "poll") /\ UNCHANGED <<server, items>>
  <2>1. RegistryTypes' /\ backoff' \in BOOLEAN
    BY <1>3, <1>7 DEF MonitorInv, RegistryTypes
  <2>2. ServerInv'
    BY <1>7 DEF ServerInv
  <2> QED BY <1>2, <1>3, <1>4, <1>7, <2>1, <2>2, LeaveToPoll
<1> QED BY <1>6, <1>7 DEF CreateSubscription, MayFail

\* _subscribe_single_node.
LEMMA SubscribeNodeStep ==
  ASSUME MonitorInv, NEW t \in Threads, SubscribeNode(t)
  PROVE  MonitorInv'
<1> DEFINE b == job[t].bin
           n == job[t].node
<1>1. /\ pc[t] = "subscribe" /\ job[t] \in Job /\ job \in [Threads -> Job]
      /\ pc[t] \in Starting /\ pc[t] \in Holding /\ n \in Nodes /\ b \in BinIds
      /\ job[t].new \in BOOLEAN
  BY DEF SubscribeNode, MonitorInv, TaskTypes, JobInv, JobFits, Starting, Holding, Job
<1>2. pc[t] \in Asking /\ admission[1] = t
  BY <1>1, HolderFirst
<1>3. UNCHANGED <<live, monitored, mode, monitor, monitors, bins, open, job, dead, reconnects>>
  BY DEF SubscribeNode, subVars, monVars, binVars, recVars
<1>4. SubTypes'
  BY <1>3 DEF MonitorInv, SubTypes
<1>5. /\ Opens(pc[t], job[t]) <=> job[t].new
      /\ ~Closes(pc[t], job[t]) /\ ~Touches(pc[t], job[t])
      /\ \A c, m : TouchCount(pc[t], job[t], c, m) = 0
  BY <1>1 DEF Opens, Closes, Touches, TouchCount
<1>6. CASE /\ b \in server
           /\ items' = [items EXCEPT ![b][n] = @ + 1]
           /\ Goto(t, "enter")
           /\ UNCHANGED <<server, failed, admission, backoff>>
  <2>1. Moves(t, "enter", job[t]) /\ turn' \in Threads \cup {NoThread}
    BY <1>1, <1>3, <1>6, GotoFacts DEF Moves
  <2>2. /\ "enter" \in Labels /\ "enter" \in Asking /\ "enter" \in Starting
        /\ "enter" \in Holding
    BY DEF Labels, Asking, Starting, Holding
  <2>3. JobFits(t, "enter", job[t])
    BY <1>1 DEF MonitorInv, JobInv, JobFits
  <2>4. /\ items' \in [BinIds -> [Nodes -> Nat]] /\ items'[b][n] = items[b][n] + 1
        /\ \A c \in BinIds, m \in Nodes : c # b \/ m # n => items'[c][m] = items[c][m]
    <3> DEFINE v == items[b][n] + 1
    <3>1. items \in [BinIds -> [Nodes -> Nat]]
      BY DEF MonitorInv, RegistryTypes
    <3>2. v \in Nat
      BY <1>1, <3>1
    <3>3. items' = [items EXCEPT ![b][n] = v]
      BY <1>6
    <3> HIDE DEF v, b, n
    <3>4. items' \in [BinIds -> [Nodes -> Nat]] /\ items'[b][n] = v
      BY <1>1, <3>1, <3>2, <3>3
    <3>5. \A c \in BinIds, m \in Nodes : c # b \/ m # n => items'[c][m] = items[c][m]
      BY <1>1, <3>1, <3>2, <3>3
    <3> QED BY <3>4, <3>5 DEF v
  <2>5. RegistryTypes'
    BY <1>1, <1>3, <1>6, <2>4 DEF MonitorInv, RegistryTypes
  <2>6. TaskTypes'
    BY <1>1, <1>6, <2>1, <2>2, MoveFacts DEF MonitorInv, TaskTypes
  <2>7. AdmissionInv'
    BY <1>1, <1>2, <1>6, <2>1, <2>2, LockKept
  <2>8. ServerInv'
    <3> SUFFICES ASSUME reconnects' = 0, ~failed'
                 PROVE  ServerInv'
      BY DEF ServerInv
    <3>1. reconnects = 0 /\ ~failed
      BY <1>3, <1>6
    <3> DEFINE O == OpenOthers(t)
               C == CloseOthers(t)
               K(c, m) == Cardinality(TouchOthers(t, c, m))
               I(c, m) == IF c = b /\ m = n THEN 1 ELSE 0
    <3>2. O = {}
      BY <1>1, HolderAlone
    <3>3. /\ (Opens("enter", job[t]) \/ Closes("enter", job[t])) <=> job[t].new
          /\ Opens("enter", job[t]) => job[t].new
          /\ \A c, m : TouchCount("enter", job[t], c, m) = I(c, m)
      BY <1>1 DEF Opens, Closes, Touches, TouchCount
    <3>4. /\ \A c : c \in server <=> c \in open \cup O \cup C \/ (job[t].new /\ b = c)
          /\ \A c, m : K(c, m) \in Nat
          /\ \A c \in open \cup O, m \in Nodes :
               items[c][m] = (K(c, m) + 0) + (IF m \in bins[c] THEN 1 ELSE 0)
          /\ job[t].new => \A m \in Nodes :
               items[b][m] = (K(b, m) + 0) + (IF m \in bins[b] THEN 1 ELSE 0)
      BY <1>1, <1>5, <2>1, <2>2, <3>1, ServerBefore
    <3>5. ASSUME NEW c \in BinIds, NEW m \in Nodes,
                 items[c][m] = (K(c, m) + 0) + (IF m \in bins[c] THEN 1 ELSE 0)
          PROVE  items'[c][m] = (K(c, m) + I(c, m)) + (IF m \in bins[c] THEN 1 ELSE 0)
      <4> DEFINE k == K(c, m)
      <4>1. k \in Nat
        BY <3>4
      <4>2. items[c][m] = (k + 0) + (IF m \in bins[c] THEN 1 ELSE 0)
        BY <3>5
      <4>3. items'[c][m] = items[c][m] + I(c, m)
        <5>1. items[c][m] \in Nat
          BY DEF MonitorInv, RegistryTypes
        <5> QED BY <2>4, <5>1
      <4> HIDE DEF k, K
      <4>4. CASE c = b /\ m = n
        BY <4>1, <4>2, <4>3, <4>4 DEF k
      <4>5. CASE ~(c = b /\ m = n)
        BY <4>1, <4>2, <4>3, <4>5 DEF k
      <4> QED BY <4>4, <4>5
    <3>6. open \cup O \subseteq BinIds
      BY <3>2 DEF MonitorInv, RegistryTypes
    <3>7. \A c \in open \cup O, m \in Nodes :
               items'[c][m] = (K(c, m) + I(c, m)) + (IF m \in bins[c] THEN 1 ELSE 0)
      BY <3>4, <3>5, <3>6
    <3>8. job[t].new => \A m \in Nodes :
               items'[b][m] = (K(b, m) + I(b, m)) + (IF m \in bins[b] THEN 1 ELSE 0)
      BY <1>1, <3>4, <3>5
    <3>9. \A c : c \in server' <=> c \in open \cup O \cup C \/ (job[t].new /\ b = c)
      BY <1>6, <3>4
    <3> HIDE DEF K, I
    <3> QED BY <1>1, <1>3, <2>1, <2>2, <3>3, <3>7, <3>8, <3>9, ServerMoved DEF K
  <2> QED BY <1>1, <1>3, <1>4, <2>1, <2>2, <2>3, <2>5, <2>6, <2>7, <2>8, RegistryKept
<1>7. CASE /\ failed' = TRUE \/ (b \notin server /\ UNCHANGED failed)
           /\ \/ server' = (IF job[t].new THEN server \ {b} ELSE server) /\ UNCHANGED backoff
              \/ backoff' = TRUE /\ UNCHANGED server
           /\ Leave(t, "poll")
           /\ UNCHANGED items
  <2>1. RegistryTypes' /\ backoff' \in BOOLEAN
    BY <1>3, <1>7 DEF MonitorInv, RegistryTypes, TaskTypes
  <2>2. ServerInv'
    <3> SUFFICES ASSUME reconnects' = 0, ~failed'
                 PROVE  ServerInv'
      BY DEF ServerInv
    <3>1. reconnects = 0 /\ ~failed /\ b \notin server /\ failed' = failed
      BY <1>3, <1>7
    <3>2. Moves(t, "poll", job[t]) /\ "poll" \in Labels
      BY <1>1, <1>3, <1>7, GotoFacts DEF Moves, Leave, Labels
    <3>3. ~job[t].new
      BY <1>1, <1>5, <3>1, <3>2, ServerBefore
    <3>4. server' = server /\ items' = items
      BY <1>7, <3>3
    <3>5. ~Opens("poll", job[t]) /\ ~Closes("poll", job[t]) /\ ~Touches("poll", job[t])
      BY DEF Opens, Closes, Touches
    <3> QED BY <1>1, <1>3, <1>5, <3>1, <3>2, <3>3, <3>4, <3>5, ServerKept
  <2> QED BY <1>2, <1>3, <1>4, <1>7, <2>1, <2>2, LeaveToPoll
<1> QED BY <1>6, <1>7 DEF SubscribeNode, MayFail

-----------------------------------------------------------------------------
(* The last section of an admission                                         *)

\* The admission is undone.
LEMMA UndoAdmissionStep ==
  ASSUME MonitorInv, NEW t \in Threads, EnterBin(t), ~StillWanted(t)
  PROVE  MonitorInv'
<1> DEFINE b == job[t].bin
           n == job[t].node
<1>1. /\ pc[t] = "enter" /\ job[t] \in Job /\ job \in [Threads -> Job]
      /\ pc[t] \in Holding /\ n \in Nodes /\ b \in BinIds /\ job[t].new \in BOOLEAN
  BY DEF EnterBin, MonitorInv, TaskTypes, JobInv, JobFits, Starting, Holding, Job
<1>2. pc[t] \in Asking /\ admission[1] = t
  BY <1>1, HolderFirst
<1>3. UndoAdmission(t) /\ Leave(t, "poll") /\ UNCHANGED <<bins, open, monitor, job>>
  BY DEF EnterBin
<1>4. UNCHANGED <<live, monitored, mode, monitors, dead, reconnects>>
  BY DEF EnterBin, subVars, recVars
<1>5. SubTypes'
  BY <1>4 DEF MonitorInv, SubTypes
<1>6. \/ /\ job[t].new /\ server' = server \ {b} /\ items' = items
         /\ failed' = failed /\ backoff' = backoff
      \/ /\ ~job[t].new /\ server' = server /\ failed' = failed /\ backoff' = backoff
         /\ items' = [items EXCEPT ![b][n] = IF @ > 0 THEN @ - 1 ELSE 0]
      \/ /\ failed' = TRUE /\ server' = server /\ items' = items
         /\ backoff' = (backoff \/ job[t].new)
  BY <1>3 DEF UndoAdmission, MayFail
<1>7. /\ items \in [BinIds -> [Nodes -> Nat]] /\ server \subseteq BinIds
      /\ failed \in BOOLEAN /\ backoff \in BOOLEAN
  BY DEF MonitorInv, RegistryTypes, TaskTypes
<1> HIDE DEF b, n
<1>8. ASSUME items' = [items EXCEPT ![b][n] = IF @ > 0 THEN @ - 1 ELSE 0]
      PROVE  /\ items' \in [BinIds -> [Nodes -> Nat]]
             /\ items'[b][n] = IF items[b][n] > 0 THEN items[b][n] - 1 ELSE 0
             /\ \A c \in BinIds, m \in Nodes : c # b \/ m # n => items'[c][m] = items[c][m]
  BY <1>1, <1>7, <1>8, ItemDeleted
<1>9. RegistryTypes' /\ backoff' \in BOOLEAN
  <2>1. /\ items' \in [BinIds -> [Nodes -> Nat]] /\ server' \subseteq BinIds
        /\ failed' \in BOOLEAN /\ backoff' \in BOOLEAN
    BY <1>1, <1>6, <1>7, <1>8
  <2> QED BY <1>3, <1>4, <2>1 DEF MonitorInv, RegistryTypes
<1>10. ServerInv'
  <2> SUFFICES ASSUME reconnects' = 0, ~failed'
               PROVE  ServerInv'
    BY DEF ServerInv
  <2>1. reconnects = 0 /\ ~failed
    BY <1>4, <1>6
  <2>2. Moves(t, "poll", job[t]) /\ "poll" \in Labels
    BY <1>1, <1>3, GotoFacts DEF Moves, Leave, Labels
  <2> DEFINE O == OpenOthers(t)
             C == CloseOthers(t)
             K(c, m) == Cardinality(TouchOthers(t, c, m))
             I(c, m) == IF c = b /\ m = n THEN 1 ELSE 0
  <2>3. /\ ~Opens("poll", job[t]) /\ ~Closes("poll", job[t])
        /\ \A c, m : TouchCount("poll", job[t], c, m) = 0
        /\ Opens(pc[t], job[t]) <=> job[t].new
        /\ ~Closes(pc[t], job[t])
        /\ \A c, m : TouchCount(pc[t], job[t], c, m) = I(c, m)
    BY <1>1 DEF Opens, Closes, Touches, TouchCount, b, n
  <2>4. /\ \A c : c \in server <=> c \in open \cup O \cup C \/ (job[t].new /\ b = c)
        /\ \A c, m : K(c, m) \in Nat
        /\ \A c \in open \cup O, m \in Nodes :
             items[c][m] = (K(c, m) + I(c, m)) + (IF m \in bins[c] THEN 1 ELSE 0)
    BY <1>1, <2>1, <2>2, <2>3, ServerBefore DEF b
  <2>5. O = {}
    BY <1>1, HolderAlone
  <2>6. job[t].new => b \notin open \cup O \cup C
    <3> SUFFICES ASSUME job[t].new PROVE b \notin open \cup C
      BY <2>5
    <3>1. b \notin open
      BY <1>1 DEF MonitorInv, RoomInv, b
    <3>2. b \notin C
      BY <1>1 DEF MonitorInv, AloneInv, b, CloseOthers, Closes
    <3> QED BY <3>1, <3>2
  <2>7. \A c : c \in server' <=> c \in open \cup O \cup C
    BY <1>6, <2>4, <2>6
  <2>8. ASSUME NEW c \in open \cup O, NEW m \in Nodes
        PROVE  items'[c][m] = (K(c, m) + 0) + (IF m \in bins[c] THEN 1 ELSE 0)
    <3> DEFINE k == K(c, m)
    <3>1. k \in Nat /\ c \in BinIds
      BY <2>4, <2>5 DEF MonitorInv, RegistryTypes
    <3>2. items[c][m] = (k + (IF c = b /\ m = n THEN 1 ELSE 0)) + (IF m \in bins[c] THEN 1 ELSE 0)
      BY <2>4
    <3> HIDE DEF k, K
    <3>3. CASE job[t].new
      <4>1. c # b /\ items' = items
        BY <1>6, <2>6, <3>3
      <4> QED BY <3>1, <3>2, <4>1 DEF k
    <3>4. CASE ~job[t].new /\ c = b /\ m = n
      <4>1. items'[b][n] = IF items[b][n] > 0 THEN items[b][n] - 1 ELSE 0
        BY <1>6, <1>8, <3>4
      <4> QED BY <3>1, <3>2, <3>4, <4>1 DEF k
    <3>5. CASE ~job[t].new /\ ~(c = b /\ m = n)
      <4>1. items'[c][m] = items[c][m]
        BY <1>6, <1>8, <3>1, <3>5
      <4> QED BY <3>1, <3>2, <3>5, <4>1 DEF k
    <3> QED BY <3>3, <3>4, <3>5
  <2> HIDE DEF K
  <2> QED BY <1>1, <1>3, <2>2, <2>3, <2>7, <2>8, ServerMoved DEF K
<1> QED BY <1>2, <1>3, <1>4, <1>5, <1>9, <1>10, LeaveToPoll

\* The bins with one node more keep the limits if there was room for it.
LEMMA RoomForOne ==
  ASSUME RegistryTypes, LimitsKept, \A c \in BinIds \ open : bins[c] = {},
         NEW b \in BinIds, NEW n \in Nodes,
         bins' = [bins EXCEPT ![b] = @ \cup {n}], open' = open \cup {b},
         TotalMonitored + 1 <= MaxItems,
         b \notin open => Cardinality(open) + 1 <= MaxSubscriptions,
         b \in open => Cardinality(bins[b]) + 1 <= Capacity
  PROVE  LimitsKept'
<1>1. /\ open \subseteq BinIds /\ bins \in [BinIds -> SUBSET Nodes]
      /\ bins'[b] = bins[b] \cup {n} /\ \A c \in BinIds \ {b} : bins'[c] = bins[c]
  BY DEF RegistryTypes
<1>2. /\ IsFiniteSet(Packed) /\ Cardinality(Packed) \in Nat /\ TotalMonitored = Cardinality(Packed)
      /\ IsFiniteSet(open) /\ Cardinality(open) \in Nat
      /\ \A c \in BinIds : IsFiniteSet(bins[c]) /\ Cardinality(bins[c]) \in Nat
  BY PackedFinite
<1>3. ASSUME NEW S, NEW x, IsFiniteSet(S)
      PROVE  /\ IsFiniteSet(S \cup {x}) /\ Cardinality(S \cup {x}) \in Nat
             /\ Cardinality(S \cup {x}) <= Cardinality(S) + 1
  BY <1>3, FS_AddElement, FS_CardinalityType
<1>4. ASSUME NEW c \in open' PROVE Cardinality(bins'[c]) <= Capacity
  <2>1. CASE c # b
    BY <1>1, <2>1 DEF LimitsKept
  <2>2. CASE c = b /\ b \in open
    <3> DEFINE x == Cardinality(bins[b])
               y == Cardinality(bins[b] \cup {n})
    <3>1. x \in Nat /\ y \in Nat /\ y <= x + 1 /\ x + 1 <= Capacity
      BY <1>2, <1>3, <2>2
    <3> HIDE DEF x, y
    <3>2. y <= Capacity
      BY <3>1, LimitsAssumption
    <3> QED BY <1>1, <2>2, <3>2 DEF y
  <2>3. CASE c = b /\ b \notin open
    <3>1. bins'[c] = {n}
      BY <1>1, <2>3
    <3>2. Cardinality({n}) = 1
      BY FS_Singleton
    <3>3. 1 <= Capacity
      BY LimitsAssumption
    <3>4. Cardinality(bins'[c]) = 1
      BY <3>1, <3>2
    <3> QED BY <3>3, <3>4
  <2> QED BY <2>1, <2>2, <2>3
<1>5. TotalMonitored' <= MaxItems
  <2> DEFINE P == Packed
             Q == {x \in open' \X Nodes : x[2] \in bins'[x[1]]}
             R == P \cup {<<b, n>>}
  <2>1. Q \subseteq R
    <3> SUFFICES ASSUME NEW c \in open', NEW m \in Nodes, m \in bins'[c]
                 PROVE  <<c, m>> \in R
      OBVIOUS
    <3>1. CASE c = b /\ m = n
      BY <3>1
    <3>2. CASE ~(c = b /\ m = n)
      <4>1. c \in BinIds /\ m \in bins[c]
        BY <1>1, <3>2
      <4>2. c \in open
        BY <4>1
      <4> QED BY <4>1, <4>2 DEF Packed
    <3> QED BY <3>1, <3>2
  <2>2. TotalMonitored' = Cardinality(Q) /\ TotalMonitored = Cardinality(P) /\ IsFiniteSet(P)
    BY <1>2 DEF TotalMonitored
  <2> HIDE DEF P, Q
  <2>3. IsFiniteSet(R) /\ Cardinality(R) \in Nat /\ Cardinality(R) <= Cardinality(P) + 1
    BY <1>3, <2>2
  <2> HIDE DEF R
  <2>4. Cardinality(Q) <= Cardinality(R) /\ Cardinality(Q) \in Nat /\ Cardinality(P) \in Nat
    BY <2>1, <2>2, <2>3, FS_Subset, FS_CardinalityType
  <2>5. \A q, r, k, m \in Nat : q <= r /\ r <= k + 1 /\ k + 1 <= m => q <= m
    OBVIOUS
  <2> QED BY <2>2, <2>3, <2>4, <2>5, LimitsAssumption
<1>6. Cardinality(open') <= MaxSubscriptions
  <2>1. CASE b \in open
    <3>1. open' = open
      BY <2>1
    <3> QED BY <3>1 DEF LimitsKept
  <2>2. CASE b \notin open
    <3>1. Cardinality(open \cup {b}) \in Nat /\ Cardinality(open \cup {b}) <= Cardinality(open) + 1
      BY <1>2, <1>3
    <3>2. \A q, k, m \in Nat : q <= k + 1 /\ k + 1 <= m => q <= m
      OBVIOUS
    <3> QED BY <1>2, <2>2, <3>1, <3>2, LimitsAssumption
  <2> QED BY <2>1, <2>2
<1> QED BY <1>4, <1>5, <1>6 DEF LimitsKept

\* The node is entered in its bin.
LEMMA EnterWantedStep ==
  ASSUME MonitorInv, NEW t \in Threads, EnterBin(t), StillWanted(t)
  PROVE  MonitorInv'
<1> DEFINE b == job[t].bin
           n == job[t].node
<1>1. /\ pc[t] = "enter" /\ job[t] \in Job /\ job \in [Threads -> Job]
      /\ pc[t] \in Holding /\ pc[t] \in Starting /\ n \in Nodes /\ b \in BinIds /\ job[t].new \in BOOLEAN
  BY DEF EnterBin, MonitorInv, TaskTypes, JobInv, JobFits, Starting, Holding, Job
<1>2. pc[t] \in Asking /\ admission[1] = t
  BY <1>1, HolderFirst
<1>3. /\ bins' = [bins EXCEPT ![b] = @ \cup {n}]
      /\ open' = IF job[t].new THEN open \cup {b} ELSE open
      /\ monitor' = [monitor EXCEPT ![n].mode = "native", ![n].bin = b]
      /\ Forget(t) /\ Leave(t, "release")
      /\ UNCHANGED <<server, items, failed, backoff>>
  BY DEF EnterBin
<1>4. UNCHANGED <<live, monitored, mode, monitors, dead, reconnects>>
  BY DEF EnterBin, subVars, recVars
<1>5. SubTypes' /\ SubTypes /\ backoff' \in BOOLEAN
  BY <1>3, <1>4 DEF MonitorInv, SubTypes, TaskTypes
<1>6. IsLive(t) /\ (job[t].new \/ b \in open) /\ monitor[n] # NoMonitor /\ monitor[n].id = job[t].id
  BY DEF StillWanted, IsLive
<1>7. Goto(t, "release") /\ admission' = Tail(admission)
  BY <1>3 DEF Leave
<1>8. "release" \in Labels \ Asking /\ "release" \notin Starting \cup Holding
  BY DEF Labels, Asking, Starting, Holding
<1>9. PICK j \in Job : j.sub = job[t].sub /\ job' = [job EXCEPT ![t] = j]
  BY <1>3, ForgetFacts
<1>10. Moves(t, "release", j) /\ turn' \in Threads \cup {NoThread}
  BY <1>7, <1>9, GotoFacts DEF Moves
<1>11. AdmissionInv' /\ admission' \in Seq(Threads)
  BY <1>2, <1>7, <1>8, <1>10, LockLeft
<1>12. TaskTypes'
  BY <1>5, <1>8, <1>10, <1>11, MoveFacts DEF TaskTypes
<1>13. JobInv'
  <2>1. t \in Workers => job[t].sub \in Subs
    BY <1>1 DEF MonitorInv, JobInv, JobFits
  <2>2. JobFits(t, "release", j)
    BY <1>8, <1>9, <2>1 DEF JobFits
  <2> QED BY <1>8, <1>10, <2>2, JobKept
<1> HIDE DEF b, n
<1>14. RegistryTypes /\ b \in Nat
  BY <1>1, MonitorBoundsAssumption DEF MonitorInv, BinIds
<1>15. /\ monitor' \in [Nodes -> MonitorRecord \cup {NoMonitor}]
       /\ monitor'[n] # NoMonitor /\ monitor'[n].id = monitor[n].id
       /\ monitor'[n].mode = "native" /\ monitor'[n].bin = b
       /\ \A m \in Nodes : m # n => monitor'[m] = monitor[m]
  BY <1>1, <1>3, <1>6, <1>14, Repoint
<1>16. /\ bins' \in [BinIds -> SUBSET Nodes] /\ bins'[b] = bins[b] \cup {n}
       /\ \A c \in BinIds \ {b} : bins'[c] = bins[c]
       /\ open' = open \cup {b} /\ open' \subseteq BinIds /\ open \subseteq BinIds
  BY <1>1, <1>3, <1>6, <1>14 DEF RegistryTypes
<1>17. RegistryTypes'
  BY <1>3, <1>4, <1>14, <1>15, <1>16 DEF RegistryTypes
<1>18. /\ pc'[t] = "release" /\ job'[t] = j
       /\ \A u \in Threads : u # t => pc'[u] = pc[u] /\ job'[u] = job[u]
  BY <1>8, <1>10, MoveFacts
<1>19. \A u \in Threads : pc'[u] \notin Holding
  BY <1>1, <1>8, <1>18, HolderAlone
<1>20. \A c \in BinIds \ open : bins[c] = {}
  BY DEF MonitorInv, RoomInv
<1>21. RoomInv'
  <2>1. \A c \in BinIds \ open' : bins'[c] = {}
    BY <1>16, <1>20
  <2> QED BY <1>19, <2>1 DEF RoomInv
<1>22. job[t].new => b \notin open
  BY <1>1 DEF MonitorInv, RoomInv, b
<1>23. LimitsKept'
  <2>1. /\ TotalMonitored + 1 <= MaxItems
        /\ b \notin open => Cardinality(open) + 1 <= MaxSubscriptions
        /\ b \in open => Cardinality(bins[b]) + 1 <= Capacity
    BY <1>1, <1>6, <1>22 DEF MonitorInv, RoomInv, b
  <2>2. LimitsKept
    BY DEF MonitorInv
  <2> QED BY <1>1, <1>3, <1>14, <1>16, <1>20, <2>1, <2>2, RoomForOne
<1>24. NativeIsPacked'
  <2> SUFFICES ASSUME NEW m \in Nodes, monitor'[m] # NoMonitor, monitor'[m].mode = "native"
               PROVE  monitor'[m].bin \in open' /\ m \in bins'[monitor'[m].bin]
    BY DEF NativeIsPacked
  <2>1. CASE m = n
    BY <1>15, <1>16, <2>1
  <2>2. CASE m # n
    <3>1. monitor[m].bin \in open /\ m \in bins[monitor[m].bin] /\ monitor'[m] = monitor[m]
      BY <1>15, <2>2 DEF MonitorInv, NativeIsPacked
    <3> QED BY <1>16, <3>1
  <2> QED BY <2>1, <2>2
<1>25. StartInv'
  BY <1>1, <1>4, <1>6, <1>10, <1>15, StartDone DEF n
<1>26. reconnects = 0 => monitor[n].mode = "idle"
  BY <1>1, <1>6 DEF MonitorInv, StartInv, n
<1>27. reconnects = 0 => \A c \in BinIds : n \notin bins[c]
  BY <1>20, <1>26 DEF MonitorInv, PackedIsOwned
<1>28. PackedIsOwned'
  <2> SUFFICES ASSUME reconnects = 0, NEW c \in open', NEW m \in bins'[c]
               PROVE  monitor'[m] # NoMonitor /\ monitor'[m].mode = "native" /\ monitor'[m].bin = c
    BY <1>4 DEF PackedIsOwned
  <2>1. CASE c = b /\ m = n
    BY <1>15, <2>1
  <2>2. CASE ~(c = b /\ m = n)
    <3>1. c \in BinIds /\ m \in bins[c] /\ m \in Nodes
      BY <1>14, <1>16, <2>2 DEF RegistryTypes
    <3>2. c \in open /\ m # n
      BY <1>20, <1>27, <3>1
    <3> QED BY <1>15, <3>1, <3>2 DEF MonitorInv, PackedIsOwned
  <2> QED BY <2>1, <2>2
<1>29. AloneInv'
  <2>1. \A u \in Threads : pc'[u] = "stop" => u # t /\ pc[u] = "stop" /\ job'[u] = job[u]
    BY <1>18
  <2>2. \A u \in Threads : pc[u] = "stop" /\ job[u].new => job[u].bin # b /\ job[u].bin \notin open
    BY <1>1, <1>6 DEF MonitorInv, AloneInv, b
  <2> QED BY <1>16, <1>19, <2>1, <2>2 DEF MonitorInv, AloneInv
<1>30. ServerInv'
  <2> SUFFICES ASSUME reconnects' = 0, ~failed'
               PROVE  ServerInv'
    BY DEF ServerInv
  <2>1. reconnects = 0 /\ ~failed
    BY <1>3, <1>4
  <2> DEFINE O == OpenOthers(t)
             C == CloseOthers(t)
             K(c, m) == Cardinality(TouchOthers(t, c, m))
             I(c, m) == IF c = b /\ m = n THEN 1 ELSE 0
  <2>2. /\ ~Opens("release", j) /\ ~Closes("release", j)
        /\ \A c, m : TouchCount("release", j, c, m) = 0
        /\ Opens(pc[t], job[t]) <=> job[t].new
        /\ ~Closes(pc[t], job[t])
        /\ \A c, m : TouchCount(pc[t], job[t], c, m) = I(c, m)
    BY <1>1 DEF Opens, Closes, Touches, TouchCount, b, n
  <2>3. /\ \A c : c \in server <=> c \in open \cup O \cup C \/ (job[t].new /\ b = c)
        /\ \A c, m : K(c, m) \in Nat
        /\ \A c \in open \cup O, m \in Nodes :
             items[c][m] = (K(c, m) + I(c, m)) + (IF m \in bins[c] THEN 1 ELSE 0)
        /\ job[t].new => \A m \in Nodes :
             items[b][m] = (K(b, m) + I(b, m)) + (IF m \in bins[b] THEN 1 ELSE 0)
    BY <1>8, <1>10, <2>1, <2>2, ServerBefore DEF b
  <2>4. O = {}
    BY <1>1, HolderAlone
  <2>5. \A c : c \in server' <=> c \in open' \cup O \cup C
    BY <1>3, <1>6, <1>16, <2>3
  <2>6. ASSUME NEW c \in open' \cup O, NEW m \in Nodes
        PROVE  items'[c][m] = (K(c, m) + 0) + (IF m \in bins'[c] THEN 1 ELSE 0)
    <3> DEFINE k == K(c, m)
    <3>1. k \in Nat /\ c \in BinIds
      BY <1>16, <2>3, <2>4
    <3>2. items[c][m] = (k + (IF c = b /\ m = n THEN 1 ELSE 0)) + (IF m \in bins[c] THEN 1 ELSE 0)
      BY <1>6, <1>16, <2>3, <2>4
    <3>3. m \in bins'[c] <=> m \in bins[c] \/ (c = b /\ m = n)
      BY <1>16, <3>1
    <3> HIDE DEF k, K
    <3>4. CASE c = b /\ m = n
      <4>1. m \notin bins[c] /\ m \in bins'[c]
        BY <1>27, <2>1, <3>1, <3>3, <3>4
      <4> QED BY <1>3, <3>1, <3>2, <3>4, <4>1 DEF k
    <3>5. CASE ~(c = b /\ m = n)
      BY <1>3, <3>1, <3>2, <3>3, <3>5 DEF k
    <3> QED BY <3>4, <3>5
  <2> HIDE DEF K
  <2> QED BY <1>8, <1>10, <2>2, <2>5, <2>6, ServerMoved DEF K
<1> QED BY <1>5, <1>11, <1>12, <1>13, <1>17, <1>21, <1>23, <1>24, <1>25, <1>28, <1>29, <1>30
        DEF MonitorInv

-----------------------------------------------------------------------------
(* _acquire_node_monitor                                                    *)

\* A step in the loops of a request that moves no monitor and releases only one that is
\* in no bin.
LEMMA MonitorsStay ==
  ASSUME MonitorInv, NEW w \in Workers, NEW j \in Job, j.sub = job[w].sub, pc[w] = "release",
         job' = [job EXCEPT ![w] = j], Goto(w, "release"),
         UNCHANGED <<live, monitored, mode, monitors, bins, open, server, items, failed, admission,
                     backoff, dead, reconnects>>,
         monitor' \in [Nodes -> MonitorRecord \cup {NoMonitor}],
         \A m \in Nodes : monitor'[m] # NoMonitor =>
            /\ monitor[m] # NoMonitor /\ monitor'[m].id = monitor[m].id
            /\ monitor'[m].mode = monitor[m].mode /\ monitor'[m].bin = monitor[m].bin,
         \A m \in Nodes : monitor'[m] = NoMonitor /\ monitor[m] # NoMonitor =>
            (monitor[m].bin \in open => m \notin bins[monitor[m].bin])
  PROVE  MonitorInv'
<1>1. /\ job[w] \in Job /\ job \in [Threads -> Job] /\ w \in Threads
      /\ w # Reconnector /\ job[w].sub \in Subs
  BY WorkersAssumption DEF MonitorInv, TaskTypes, JobInv, JobFits, Threads
<1>2. Moves(w, "release", j) /\ turn' \in Threads \cup {NoThread}
  BY <1>1, GotoFacts DEF Moves
<1>3. /\ "release" \in Labels /\ "release" \notin Asking \cup Starting \cup Holding
      /\ pc[w] \notin Asking
  BY DEF Labels, Asking, Starting, Holding
<1>4. SubTypes' /\ RegistryTypes'
  BY DEF MonitorInv, SubTypes, RegistryTypes
<1>5. TaskTypes'
  BY <1>1, <1>2, <1>3, MoveFacts DEF MonitorInv, TaskTypes
<1>6. JobInv'
  <2>1. JobFits(w, "release", j)
    BY <1>1, <1>3 DEF JobFits
  <2> QED BY <1>1, <1>2, <1>3, <2>1, JobKept
<1>7. AdmissionInv'
  BY <1>1, <1>2, <1>3, LockKept
<1>8. RoomInv' /\ LimitsKept'
  BY <1>1, <1>2, <1>3, <1>4, <1>6, RoomShrinks
<1>9. AloneInv'
  BY <1>1, <1>2, <1>3, AloneKept
<1>10. ServerInv'
  BY <1>1, <1>2, <1>3, ServerKept DEF Opens, Closes, Touches
<1>11. StartInv'
  <2>1. SameMonitors /\ monitors' \in Nat /\ monitors' >= monitors
    BY DEF SameMonitors, MonitorInv, RegistryTypes
  <2> QED BY <1>1, <1>2, <1>3, <1>6, <2>1, StartKept
<1>12. NativeIsPacked'
  BY DEF MonitorInv, NativeIsPacked
<1>13. PackedIsOwned'
  <2> SUFFICES ASSUME reconnects = 0, NEW c \in open, NEW m \in bins[c]
               PROVE  monitor'[m] # NoMonitor /\ monitor'[m].mode = "native" /\ monitor'[m].bin = c
    BY DEF PackedIsOwned
  <2>1. m \in Nodes /\ monitor[m] # NoMonitor /\ monitor[m].mode = "native" /\ monitor[m].bin = c
    BY DEF MonitorInv, PackedIsOwned, RegistryTypes
  <2> QED BY <2>1
<1> QED BY <1>4, <1>5, <1>6, <1>7, <1>8, <1>9, <1>10, <1>11, <1>12, <1>13 DEF MonitorInv

\* Another subscriber of a monitor that exists.
LEMMA AcquireKnownStep ==
  ASSUME MonitorInv, NEW w \in Workers, NEW n \in Nodes, AcquireNode(w, n), monitor[n] # NoMonitor
  PROVE  MonitorInv'
<1> DEFINE j == [job[w] EXCEPT !.acq = @ \ {n}]
           r == AddSubscriber(monitor[n], job[w].sub)
<1>1. /\ pc[w] = "release" /\ job[w] \in Job /\ job \in [Threads -> Job] /\ w \in Threads
      /\ job[w].sub \in Subs
  BY DEF AcquireNode, MonitorInv, TaskTypes, JobInv, JobFits, Threads
<1>2. /\ monitor' = [monitor EXCEPT ![n] = AddSubscriber(@, job[w].sub)]
      /\ job' = [job EXCEPT ![w].acq = @ \ {n}]
      /\ Goto(w, "release") /\ monitors' = monitors
  BY DEF AcquireNode
<1>3. UNCHANGED <<live, monitored, mode, bins, open, server, items, failed, admission, backoff,
                  dead, reconnects>>
  BY DEF AcquireNode, subVars, binVars, srvVars, recVars
<1>4. j \in Job /\ job' = [job EXCEPT ![w] = j] /\ j.sub = job[w].sub
  BY <1>1, <1>2 DEF Job
<1>5. monitor \in [Nodes -> MonitorRecord \cup {NoMonitor}] /\ monitor[n] \in MonitorRecord
  BY DEF MonitorInv, RegistryTypes
<1>6. /\ r \in MonitorRecord /\ r.id = monitor[n].id /\ r.mode = monitor[n].mode
      /\ r.bin = monitor[n].bin /\ monitor' = [monitor EXCEPT ![n] = r]
  BY <1>1, <1>2, <1>5 DEF AddSubscriber, MonitorRecord
<1> HIDE DEF j, r
<1>7. /\ monitor' \in [Nodes -> MonitorRecord \cup {NoMonitor}]
      /\ \A m \in Nodes :
            /\ monitor'[m] = NoMonitor <=> monitor[m] = NoMonitor
            /\ monitor[m] # NoMonitor => /\ monitor'[m].id = monitor[m].id
                                         /\ monitor'[m].mode = monitor[m].mode
                                         /\ monitor'[m].bin = monitor[m].bin
  BY <1>5, <1>6, NoMonitorAssumption
<1> QED BY <1>1, <1>2, <1>3, <1>4, <1>7, MonitorsStay

\* A new monitor, in no bin, with an identity no start in progress has.
LEMMA AcquireNewStep ==
  ASSUME MonitorInv, NEW w \in Workers, NEW n \in Nodes, AcquireNode(w, n), monitor[n] = NoMonitor
  PROVE  MonitorInv'
<1> DEFINE i == monitors + 1
           j == [job[w] EXCEPT !.acq = @ \ {n}, !.node = n, !.id = i]
           r == [id |-> i, mode |-> "idle", subs |-> {job[w].sub}, bin |-> 0]
<1>1. /\ pc[w] = "release" /\ job[w] \in Job /\ job \in [Threads -> Job] /\ w \in Threads
      /\ w # Reconnector /\ job[w].sub \in Subs
  BY WorkersAssumption DEF AcquireNode, MonitorInv, TaskTypes, JobInv, JobFits, Threads
<1>2. /\ monitor' = [monitor EXCEPT ![n] = r]
      /\ job' = [job EXCEPT ![w].acq = @ \ {n}, ![w].node = n, ![w].id = i]
      /\ Goto(w, "start") /\ monitors' = i
  BY DEF AcquireNode
<1>3. UNCHANGED <<live, monitored, mode, bins, open, server, items, failed, admission, backoff,
                  dead, reconnects>>
  BY DEF AcquireNode, subVars, binVars, srvVars, recVars
<1>4. monitors \in Nat /\ i \in Nat /\ i > monitors
  BY DEF MonitorInv, RegistryTypes
<1>5. r \in MonitorRecord /\ r.id = i /\ r.mode = "idle"
  BY <1>1, <1>4 DEF MonitorRecord
<1> HIDE DEF i, r
<1>6. /\ j \in Job /\ job' = [job EXCEPT ![w] = j] /\ j.sub = job[w].sub /\ j.node = n
      /\ j.id = i
  BY <1>1, <1>2, <1>4 DEF Job
<1> HIDE DEF j
<1>7. /\ monitor' \in [Nodes -> MonitorRecord \cup {NoMonitor}]
      /\ monitor'[n] = r /\ \A m \in Nodes : m # n => monitor'[m] = monitor[m]
  BY <1>2, <1>5 DEF MonitorInv, RegistryTypes
<1>8. Moves(w, "start", j) /\ turn' \in Threads \cup {NoThread}
  BY <1>1, <1>2, <1>6, GotoFacts DEF Moves
<1>9. /\ "start" \in Labels /\ "start" \notin Asking \cup Holding /\ "start" \in Starting
      /\ pc[w] \notin Asking
  BY <1>1 DEF Labels, Asking, Starting, Holding
<1>10. SubTypes' /\ RegistryTypes'
  BY <1>2, <1>3, <1>4, <1>7 DEF MonitorInv, SubTypes, RegistryTypes
<1>11. TaskTypes'
  BY <1>1, <1>3, <1>6, <1>8, <1>9, MoveFacts DEF MonitorInv, TaskTypes
<1>12. JobInv'
  <2>1. JobFits(w, "start", j)
    BY <1>1, <1>6, <1>9 DEF JobFits
  <2> QED BY <1>1, <1>6, <1>8, <1>9, <2>1, JobKept
<1>13. AdmissionInv'
  BY <1>1, <1>3, <1>6, <1>8, <1>9, LockKept
<1>14. RoomInv' /\ LimitsKept'
  BY <1>1, <1>3, <1>6, <1>8, <1>9, <1>10, <1>12, RoomShrinks
<1>15. AloneInv'
  BY <1>1, <1>3, <1>6, <1>8, <1>9, AloneKept
<1>16. ServerInv'
  BY <1>1, <1>3, <1>6, <1>8, <1>9, ServerKept DEF Opens, Closes, Touches
<1>17. NativeIsPacked'
  BY <1>3, <1>5, <1>7 DEF MonitorInv, NativeIsPacked
<1>18. PackedIsOwned'
  <2> SUFFICES ASSUME reconnects = 0, NEW c \in open, NEW m \in bins[c]
               PROVE  monitor'[m] # NoMonitor /\ monitor'[m].mode = "native" /\ monitor'[m].bin = c
    BY <1>3 DEF PackedIsOwned
  <2>1. m \in Nodes /\ monitor[m] # NoMonitor /\ monitor[m].mode = "native" /\ monitor[m].bin = c
    BY DEF MonitorInv, PackedIsOwned, RegistryTypes
  <2> QED BY <1>7, <2>1
<1>19. StartInv'
  <2> SUFFICES ASSUME reconnects = 0
               PROVE  /\ pc'[Reconnector] = "idle"
                      /\ \A q \in Threads : pc'[q] \in Starting =>
                           /\ job'[q].id \in 1 .. monitors'
                           /\ IsLive(q)' => monitor'[job'[q].node].mode = "idle"
                           /\ \A u \in Threads : pc'[u] \in Starting /\ job'[u].id = job'[q].id => u = q
    BY <1>3 DEF StartInv
  <2>1. /\ pc'[w] = "start" /\ job'[w] = j
        /\ \A u \in Threads : u # w => pc'[u] = pc[u] /\ job'[u] = job[u]
    BY <1>1, <1>6, <1>8, <1>9, MoveFacts
  <2>2. /\ pc[Reconnector] = "idle"
        /\ \A q \in Threads : pc[q] \in Starting =>
              /\ job[q].id \in 1 .. monitors
              /\ IsLive(q) => monitor[job[q].node].mode = "idle"
              /\ \A u \in Threads : pc[u] \in Starting /\ job[u].id = job[q].id => u = q
    BY DEF MonitorInv, StartInv
  <2>3. pc'[Reconnector] = "idle"
    <3>1. Reconnector \in Threads
      BY DEF Threads
    <3> QED BY <1>1, <2>1, <2>2, <3>1
  <2>4. \A q \in Threads : q # w /\ pc'[q] \in Starting =>
           /\ pc[q] \in Starting /\ job'[q] = job[q] /\ job[q].id # i /\ job[q].id \in 1 .. monitors
           /\ job[q].node \in Nodes
    <3>1. \A x \in 1 .. monitors : x # i
      BY <1>4
    <3> QED BY <2>1, <2>2, <3>1 DEF MonitorInv, JobInv, JobFits
  <2>5. i \in 1 .. monitors' /\ \A x \in 1 .. monitors : x \in 1 .. monitors'
    BY <1>2, <1>4
  <2>6. ASSUME NEW q \in Threads, pc'[q] \in Starting
        PROVE  /\ job'[q].id \in 1 .. monitors'
               /\ IsLive(q)' => monitor'[job'[q].node].mode = "idle"
               /\ \A u \in Threads : pc'[u] \in Starting /\ job'[u].id = job'[q].id => u = q
    <3>1. CASE q = w
      <4>1. job'[q].id = i /\ job'[q].node = n /\ monitor'[n].mode = "idle"
        BY <1>5, <1>6, <1>7, <2>1, <3>1
      <4> QED BY <2>4, <2>5, <3>1, <4>1
    <3>2. CASE q # w
      <4>1. /\ pc[q] \in Starting /\ job'[q] = job[q] /\ job[q].id # i /\ job[q].id \in 1 .. monitors
            /\ job[q].node \in Nodes
        BY <2>4, <2>6, <3>2
      <4>2. ASSUME IsLive(q)' PROVE monitor'[job'[q].node].mode = "idle"
        <5>1. monitor'[job[q].node] # NoMonitor /\ monitor'[job[q].node].id = job[q].id
          BY <4>1, <4>2 DEF IsLive
        <5>2. job[q].node # n
          BY <1>5, <1>7, <4>1, <5>1
        <5>3. monitor'[job[q].node] = monitor[job[q].node]
          BY <1>7, <4>1, <5>2
        <5>4. IsLive(q)
          BY <5>1, <5>3 DEF IsLive
        <5> QED BY <2>2, <4>1, <5>3, <5>4
      <4>3. \A u \in Threads : pc'[u] \in Starting /\ job'[u].id = job'[q].id => u = q
        BY <1>6, <2>1, <2>2, <2>4, <4>1
      <4> QED BY <2>5, <4>1, <4>2, <4>3
    <3> QED BY <3>1, <3>2
  <2> QED BY <2>3, <2>6
<1> QED BY <1>10, <1>11, <1>12, <1>13, <1>14, <1>15, <1>16, <1>17, <1>18, <1>19 DEF MonitorInv

-----------------------------------------------------------------------------
(* _release_node_monitor and _stop_node_monitor_runtime                     *)

\* What a release does to the monitor and the bin b of node n; the last case, where
\* something is left to be deleted from the server, is Popped.
Popped(n, b) == /\ monitor[n] # NoMonitor /\ b = monitor[n].bin /\ b \in open
                /\ bins[b] \ {n} = {} \/ n \in bins[b]

\* The locals of the task that is about to stop the runtime of node n in bin b.
StopJob(w, n, b, g) ==
    job' = [job EXCEPT ![w].rel = @ \ {n}, ![w].node = n, ![w].bin = b, ![w].new = g]

\* The four outcomes of a release.
LEMMA ReleaseCases ==
  ASSUME MonitorInv, NEW w \in Workers, NEW n \in Nodes, ReleaseNode(w, n)
  PROVE  \/ /\ UNCHANGED <<monitor, bins, open>> /\ monitor[n] = NoMonitor
            /\ job' = [job EXCEPT ![w].rel = @ \ {n}] /\ Goto(w, "release")
         \/ /\ UNCHANGED <<bins, open>> /\ monitor[n] # NoMonitor
            /\ monitor' = [monitor EXCEPT ![n] = [monitor[n] EXCEPT !.subs = @ \ {job[w].sub}]]
            /\ job' = [job EXCEPT ![w].rel = @ \ {n}] /\ Goto(w, "release")
         \/ /\ UNCHANGED <<bins, open>> /\ monitor[n] # NoMonitor
            /\ monitor[n].bin \in open => n \notin bins[monitor[n].bin]
            /\ monitor' = [monitor EXCEPT ![n] = NoMonitor]
            /\ job' = [job EXCEPT ![w].rel = @ \ {n}] /\ Goto(w, "release")
         \/ \E b \in BinIds : \E g \in BOOLEAN :
               /\ Popped(n, b) /\ (g <=> bins[b] \ {n} = {})
               /\ monitor' = [monitor EXCEPT ![n] = NoMonitor]
               /\ bins' = [bins EXCEPT ![b] = @ \ {n}]
               /\ open' = IF g THEN open \ {b} ELSE open
               /\ StopJob(w, n, b, g)
               /\ Goto(w, "stop")
<1> DEFINE m    == monitor[n]
           rest == IF m = NoMonitor THEN {} ELSE m.subs \ {job[w].sub}
           b    == IF m = NoMonitor THEN 0 ELSE m.bin
           stop == m # NoMonitor /\ rest = {}
           pop  == stop /\ b \in open
           gone == pop /\ bins[b] \ {n} = {}
<1>1. /\ monitor' = IF m = NoMonitor THEN monitor
                    ELSE [monitor EXCEPT ![n] = IF stop THEN NoMonitor ELSE [m EXCEPT !.subs = rest]]
      /\ bins' = IF pop THEN [bins EXCEPT ![b] = @ \ {n}] ELSE bins
      /\ open' = IF gone THEN open \ {b} ELSE open
      /\ IF gone \/ (pop /\ n \in bins[b])
         THEN /\ job' = [job EXCEPT ![w].rel = @ \ {n}, ![w].node = n, ![w].bin = b, ![w].new = gone]
              /\ Goto(w, "stop")
         ELSE job' = [job EXCEPT ![w].rel = @ \ {n}] /\ Goto(w, "release")
  BY DEF ReleaseNode
<1>2. bins \in [BinIds -> SUBSET Nodes] /\ open \subseteq BinIds
  BY DEF MonitorInv, RegistryTypes
<1>3. CASE m = NoMonitor
  BY <1>1, <1>3
<1>4. CASE m # NoMonitor /\ ~stop
  <2>1. rest = m.subs \ {job[w].sub} /\ ~pop /\ ~gone
    BY <1>4
  <2> HIDE DEF stop, pop, gone
  <2>2. [m EXCEPT !.subs = rest] = [monitor[n] EXCEPT !.subs = @ \ {job[w].sub}]
    BY <2>1
  <2> QED BY <1>1, <1>4, <2>1, <2>2
<1>5. CASE stop /\ ~(gone \/ (pop /\ n \in bins[b]))
  <2>1. /\ m # NoMonitor /\ b = monitor[n].bin /\ ~gone
        /\ b \in open => n \notin bins[b]
    BY <1>5
  <2>2. bins' = bins
    <3>1. CASE pop
      <4>1. b \in BinIds /\ bins[b] \ {n} = bins[b]
        BY <1>2, <2>1, <3>1
      <4> QED BY <1>1, <1>2, <3>1, <4>1
    <3>2. CASE ~pop
      BY <1>1, <3>2
    <3> QED BY <3>1, <3>2
  <2>3. monitor' = [monitor EXCEPT ![n] = NoMonitor] /\ open' = open
    BY <1>1, <1>5, <2>1
  <2>4. job' = [job EXCEPT ![w].rel = @ \ {n}] /\ Goto(w, "release")
    BY <1>1, <1>5
  <2> QED BY <2>1, <2>2, <2>3, <2>4
<1>6. CASE stop /\ (gone \/ (pop /\ n \in bins[b]))
  <2>1. /\ m # NoMonitor /\ b = monitor[n].bin /\ pop /\ b \in open /\ b \in BinIds
        /\ gone \in BOOLEAN /\ (gone <=> bins[b] \ {n} = {})
    BY <1>2, <1>6
  <2>2. Popped(n, b)
    BY <1>6, <2>1 DEF Popped
  <2>3. monitor' = [monitor EXCEPT ![n] = NoMonitor]
    BY <1>1, <1>6, <2>1
  <2>4. StopJob(w, n, b, gone) /\ Goto(w, "stop")
    BY <1>1, <1>6 DEF StopJob
  <2> HIDE DEF gone, pop, stop, b, m
  <2> QED BY <1>1, <1>6, <2>1, <2>2, <2>3, <2>4
<1> QED BY <1>3, <1>4, <1>5, <1>6

\* The locals of the task that is about to stop a runtime.
LEMMA StopLocals ==
  ASSUME job \in [Threads -> Job], NEW w \in Threads, NEW n \in Nodes, NEW b \in Nat,
         NEW g \in BOOLEAN,
         StopJob(w, n, b, g)
  PROVE  \E j \in Job : /\ j.sub = job[w].sub /\ j.node = n /\ j.bin = b /\ j.new = g
                        /\ job' = [job EXCEPT ![w] = j]
<1> DEFINE j == [job[w] EXCEPT !.rel = @ \ {n}, !.node = n, !.bin = b, !.new = g]
<1>1. job[w] \in Job
  OBVIOUS
<1>2. j \in Job /\ j.sub = job[w].sub /\ j.node = n /\ j.bin = b /\ j.new = g
  BY <1>1 DEF Job
<1>3. job' = [job EXCEPT ![w] = j]
  BY DEF StopJob
<1> HIDE DEF j
<1> QED BY <1>2, <1>3

\* A monitor is released and its node taken out of its bin b, which is closed when g.
LEMMA PopStep ==
  ASSUME MonitorInv, NEW w \in Workers, NEW n \in Nodes, NEW b \in BinIds, NEW g \in BOOLEAN,
         pc[w] = "release", Popped(n, b), g <=> bins[b] \ {n} = {},
         monitor' = [monitor EXCEPT ![n] = NoMonitor],
         bins' = [bins EXCEPT ![b] = @ \ {n}],
         open' = IF g THEN open \ {b} ELSE open,
         NEW j \in Job, j.sub = job[w].sub, j.node = n, j.bin = b, j.new = g,
         job' = [job EXCEPT ![w] = j], Goto(w, "stop"),
         UNCHANGED <<live, monitored, mode, monitors, server, items, failed, admission,
                     backoff, dead, reconnects>>
  PROVE  MonitorInv'
<1>1. /\ job[w] \in Job /\ job \in [Threads -> Job] /\ w \in Threads
      /\ w # Reconnector /\ job[w].sub \in Subs
  BY WorkersAssumption DEF MonitorInv, TaskTypes, JobInv, JobFits, Threads
<1>3. j \in Job /\ j.sub = job[w].sub /\ j.node = n /\ j.bin = b /\ j.new = g
  OBVIOUS
<1>4. Moves(w, "stop", j) /\ turn' \in Threads \cup {NoThread}
  BY <1>1, GotoFacts DEF Moves
<1>5. /\ "stop" \in Labels /\ "stop" \notin Asking \cup Starting \cup Holding
      /\ pc[w] \notin Asking
  BY DEF Labels, Asking, Starting, Holding
<1>6. /\ monitor \in [Nodes -> MonitorRecord \cup {NoMonitor}] /\ bins \in [BinIds -> SUBSET Nodes]
      /\ open \subseteq BinIds
  BY DEF MonitorInv, RegistryTypes
<1>7. /\ monitor' \in [Nodes -> MonitorRecord \cup {NoMonitor}] /\ monitor'[n] = NoMonitor
      /\ \A m \in Nodes : m # n => monitor'[m] = monitor[m]
      /\ bins' \in [BinIds -> SUBSET Nodes] /\ bins'[b] = bins[b] \ {n}
      /\ \A c \in BinIds : c # b => bins'[c] = bins[c]
      /\ open' \subseteq open
  BY <1>6
<1>8. b \in open /\ monitor[n].bin = b /\ (~g => n \in bins[b])
  BY DEF Popped
<1>9. SubTypes' /\ RegistryTypes'
  BY <1>6, <1>7 DEF MonitorInv, SubTypes, RegistryTypes
<1>10. TaskTypes'
  BY <1>1, <1>3, <1>4, <1>5, MoveFacts DEF MonitorInv, TaskTypes
<1>11. JobInv'
  <2>1. JobFits(w, "stop", j)
    BY <1>1, <1>3, <1>5 DEF JobFits
  <2> QED BY <1>1, <1>3, <1>4, <1>5, <2>1, JobKept
<1>12. AdmissionInv'
  BY <1>1, <1>3, <1>4, <1>5, LockKept
<1>13. RoomInv' /\ LimitsKept'
  <2>1. \A c \in BinIds : bins'[c] \subseteq bins[c]
    BY <1>7
  <2>2. \A c \in open \ open' : bins'[c] = {}
    BY <1>7
  <2> QED BY <1>1, <1>3, <1>4, <1>5, <1>7, <1>9, <1>11, <2>1, <2>2, RoomShrinks
<1>14. StartInv'
  <2>1. SameMonitors /\ monitors' \in Nat /\ monitors' >= monitors
    BY <1>7 DEF SameMonitors, MonitorInv, RegistryTypes
  <2> QED BY <1>1, <1>3, <1>4, <1>5, <1>11, <2>1, StartKept
<1>15. NativeIsPacked'
  <2> SUFFICES ASSUME NEW m \in Nodes, monitor'[m] # NoMonitor, monitor'[m].mode = "native"
               PROVE  monitor'[m].bin \in open' /\ m \in bins'[monitor'[m].bin]
    BY DEF NativeIsPacked
  <2>1. m # n /\ monitor'[m] = monitor[m]
    BY <1>7
  <2>2. monitor[m].bin \in open /\ m \in bins[monitor[m].bin]
    BY <2>1 DEF MonitorInv, NativeIsPacked
  <2>3. CASE monitor[m].bin = b
    <3>1. m \in bins'[b] /\ ~g
      BY <1>7, <2>1, <2>2, <2>3
    <3> QED BY <1>8, <2>1, <2>3, <3>1
  <2>4. CASE monitor[m].bin # b
    BY <1>6, <1>7, <2>1, <2>2, <2>4
  <2> QED BY <2>3, <2>4
<1>16. PackedIsOwned'
  <2> SUFFICES ASSUME reconnects = 0, NEW c \in open', NEW m \in bins'[c]
               PROVE  monitor'[m] # NoMonitor /\ monitor'[m].mode = "native" /\ monitor'[m].bin = c
    BY DEF PackedIsOwned
  <2>1. c \in open /\ c \in BinIds /\ m \in bins[c] /\ m \in Nodes
    BY <1>6, <1>7
  <2>2. monitor[m] # NoMonitor /\ monitor[m].mode = "native" /\ monitor[m].bin = c
    BY <2>1 DEF MonitorInv, PackedIsOwned
  <2>3. m # n
    BY <1>7, <1>8, <2>2
  <2> QED BY <1>7, <2>1, <2>2, <2>3
<1>17. /\ pc'[w] = "stop" /\ job'[w] = j
       /\ \A u \in Threads : u # w => pc'[u] = pc[u] /\ job'[u] = job[u]
  BY <1>1, <1>3, <1>4, <1>5, MoveFacts
<1>18. AloneInv'
  <2>1. \A u \in Threads : pc[u] = "stop" /\ job[u].new => job[u].bin # b /\ job[u].bin \notin open
    BY <1>8 DEF MonitorInv, AloneInv
  <2>2. \A u \in Threads : pc[u] \in Holding /\ job[u].new => job[u].bin # b
    BY <1>8 DEF MonitorInv, RoomInv
  <2>3. ASSUME NEW u \in Threads, pc'[u] = "stop", job'[u].new
        PROVE  /\ job'[u].bin \notin open'
               /\ \A v \in Threads : pc'[v] = "stop" /\ job'[v].new /\ job'[v].bin = job'[u].bin => v = u
    <3>1. CASE u = w
      <4>1. job'[u].bin = b /\ b \notin open'
        BY <1>3, <1>17, <2>3, <3>1
      <4> QED BY <1>17, <2>1, <3>1, <4>1
    <3>2. CASE u # w
      <4>1. pc[u] = "stop" /\ job[u].new /\ job'[u] = job[u]
        BY <1>17, <2>3, <3>2
      <4>2. job[u].bin # b /\ job[u].bin \notin open
        BY <2>1, <4>1
      <4>3. \A v \in Threads : pc[v] = "stop" /\ job[v].new /\ job[v].bin = job[u].bin => v = u
        BY <4>1 DEF MonitorInv, AloneInv
      <4>4. job'[u].bin \notin open'
        BY <1>7, <4>1, <4>2
      <4>5. ASSUME NEW v \in Threads, pc'[v] = "stop", job'[v].new, job'[v].bin = job'[u].bin
            PROVE  v = u
        <5>1. v # w
          BY <1>3, <1>17, <4>1, <4>2, <4>5
        <5>2. pc[v] = "stop" /\ job'[v] = job[v]
          BY <1>17, <4>5, <5>1
        <5> QED BY <4>1, <4>3, <4>5, <5>2
      <4> QED BY <4>4, <4>5
    <3> QED BY <3>1, <3>2
  <2>4. ASSUME NEW u \in Threads, pc'[u] \in Holding, job'[u].new,
               NEW v \in Threads, pc'[v] = "stop"
        PROVE  job'[v].bin # job'[u].bin
    <3>1. u # w /\ pc[u] \in Holding /\ job'[u] = job[u]
      BY <1>5, <1>17, <2>4
    <3>2. CASE v = w
      BY <1>3, <1>17, <2>2, <2>4, <3>1, <3>2
    <3>3. CASE v # w
      <4>1. pc[v] = "stop" /\ job'[v] = job[v] /\ job[u].new
        BY <1>17, <2>4, <3>1, <3>3
      <4> QED BY <3>1, <4>1 DEF MonitorInv, AloneInv
    <3> QED BY <3>2, <3>3
  <2> QED BY <2>3, <2>4 DEF AloneInv
<1>19. ServerInv'
  <2> SUFFICES ASSUME reconnects' = 0, ~failed'
               PROVE  ServerInv'
    BY DEF ServerInv
  <2>1. reconnects = 0 /\ ~failed
    OBVIOUS
  <2> DEFINE O == OpenOthers(w)
             C == CloseOthers(w)
             K(c, m) == Cardinality(TouchOthers(w, c, m))
             I(c, m) == IF ~g /\ c = b /\ m = n THEN 1 ELSE 0
  <2>2. /\ ~Opens("stop", j) /\ (Closes("stop", j) <=> g)
        /\ \A c, m : TouchCount("stop", j, c, m) = I(c, m)
        /\ ~Opens(pc[w], job[w]) /\ ~Closes(pc[w], job[w])
        /\ \A c, m : TouchCount(pc[w], job[w], c, m) = 0
    BY <1>3 DEF Opens, Closes, Touches, TouchCount
  <2>3. /\ \A c : c \in server <=> c \in open \cup O \cup C
        /\ \A c, m : K(c, m) \in Nat
        /\ \A c \in open \cup O, m \in Nodes :
             items[c][m] = (K(c, m) + 0) + (IF m \in bins[c] THEN 1 ELSE 0)
    BY <1>1, <1>3, <1>4, <1>5, <2>1, <2>2, ServerBefore
  <2>4. b \notin O /\ O \subseteq BinIds
    <3>1. \A u \in Threads : Opens(pc[u], job[u]) => job[u].bin # b /\ job[u].bin \in BinIds
      BY <1>8 DEF MonitorInv, RoomInv, Opens, Holding, JobInv, JobFits
    <3> QED BY <3>1 DEF OpenOthers
  <2>5. \A c : c \in server' <=> c \in open' \cup O \cup C \/ (g /\ b = c)
    BY <1>8, <2>3
  <2>6. ASSUME NEW c \in open' \cup O, NEW m \in Nodes
        PROVE  items'[c][m] = (K(c, m) + I(c, m)) + (IF m \in bins'[c] THEN 1 ELSE 0)
    <3> DEFINE k == K(c, m)
    <3>1. k \in Nat /\ c \in BinIds /\ c \in open \cup O /\ (g => c # b)
      BY <1>6, <1>7, <2>3, <2>4
    <3>2. items'[c][m] = (k + 0) + (IF m \in bins[c] THEN 1 ELSE 0)
      BY <2>3, <3>1
    <3> HIDE DEF k, K
    <3>3. CASE c = b /\ m = n
      <4>1. m \in bins[c] /\ m \notin bins'[c] /\ ~g
        BY <1>7, <1>8, <3>1, <3>3
      <4> QED BY <3>1, <3>2, <3>3, <4>1 DEF k
    <3>4. CASE ~(c = b /\ m = n)
      <4>1. m \in bins'[c] <=> m \in bins[c]
        BY <1>7, <3>1, <3>4
      <4> QED BY <3>1, <3>2, <3>4, <4>1 DEF k
    <3> QED BY <3>3, <3>4
  <2> HIDE DEF K, I
  <2> QED BY <1>1, <1>3, <1>4, <1>5, <2>2, <2>5, <2>6, ServerMoved DEF K
<1> QED BY <1>9, <1>10, <1>11, <1>12, <1>13, <1>14, <1>15, <1>16, <1>18, <1>19 DEF MonitorInv

\* A release of one node.
LEMMA ReleaseNodeStep ==
  ASSUME MonitorInv, NEW w \in Workers, NEW n \in Nodes, ReleaseNode(w, n)
  PROVE  MonitorInv'
<1>1. /\ pc[w] = "release" /\ job[w] \in Job /\ job \in [Threads -> Job] /\ w \in Threads
  BY DEF ReleaseNode, MonitorInv, TaskTypes, Threads
<1>2. UNCHANGED <<live, monitored, mode, monitors, server, items, failed, admission, backoff,
                  dead, reconnects>>
  BY DEF ReleaseNode, subVars, srvVars, recVars
<1>3. monitor \in [Nodes -> MonitorRecord \cup {NoMonitor}]
  BY DEF MonitorInv, RegistryTypes
<1> DEFINE quiet == /\ UNCHANGED <<bins, open>>
                    /\ job' = [job EXCEPT ![w].rel = @ \ {n}] /\ Goto(w, "release")
<1>4. ASSUME quiet, monitor' \in [Nodes -> MonitorRecord \cup {NoMonitor}],
         \A m \in Nodes : monitor'[m] # NoMonitor =>
            /\ monitor[m] # NoMonitor /\ monitor'[m].id = monitor[m].id
            /\ monitor'[m].mode = monitor[m].mode /\ monitor'[m].bin = monitor[m].bin,
         \A m \in Nodes : monitor'[m] = NoMonitor /\ monitor[m] # NoMonitor =>
            (monitor[m].bin \in open => m \notin bins[monitor[m].bin])
      PROVE  MonitorInv'
  <2> DEFINE j == [job[w] EXCEPT !.rel = @ \ {n}]
  <2>1. j \in Job /\ j.sub = job[w].sub /\ job' = [job EXCEPT ![w] = j]
    BY <1>1, <1>4 DEF Job
  <2> HIDE DEF j
  <2> QED BY <1>1, <1>2, <1>4, <2>1, MonitorsStay
<1>5. CASE quiet /\ monitor' = monitor
  BY <1>3, <1>4, <1>5
<1>6. CASE /\ quiet /\ monitor[n] # NoMonitor
           /\ monitor' = [monitor EXCEPT ![n] = [monitor[n] EXCEPT !.subs = @ \ {job[w].sub}]]
  <2> DEFINE r == [monitor[n] EXCEPT !.subs = @ \ {job[w].sub}]
  <2>1. monitor[n] \in MonitorRecord
    BY <1>3, <1>6
  <2>2. /\ r \in MonitorRecord /\ r.id = monitor[n].id /\ r.mode = monitor[n].mode
        /\ r.bin = monitor[n].bin
    BY <2>1 DEF MonitorRecord
  <2>3. monitor' = [monitor EXCEPT ![n] = r]
    BY <1>6
  <2> HIDE DEF r, quiet
  <2>4. /\ monitor' \in [Nodes -> MonitorRecord \cup {NoMonitor}]
        /\ monitor'[n] = r /\ r # NoMonitor /\ \A m \in Nodes : m # n => monitor'[m] = monitor[m]
    BY <1>3, <2>2, <2>3, NoMonitorAssumption
  <2> QED BY <1>4, <1>6, <2>2, <2>4
<1>7. CASE /\ quiet /\ monitor[n] # NoMonitor
           /\ monitor[n].bin \in open => n \notin bins[monitor[n].bin]
           /\ monitor' = [monitor EXCEPT ![n] = NoMonitor]
  <2> HIDE DEF quiet
  <2>1. /\ monitor' \in [Nodes -> MonitorRecord \cup {NoMonitor}]
        /\ monitor'[n] = NoMonitor /\ \A m \in Nodes : m # n => monitor'[m] = monitor[m]
    BY <1>3, <1>7
  <2> QED BY <1>4, <1>7, <2>1
<1>8. ASSUME NEW b \in BinIds, NEW g \in BOOLEAN,
             Popped(n, b), g <=> bins[b] \ {n} = {},
             monitor' = [monitor EXCEPT ![n] = NoMonitor],
             bins' = [bins EXCEPT ![b] = @ \ {n}],
             open' = IF g THEN open \ {b} ELSE open,
             StopJob(w, n, b, g),
             Goto(w, "stop")
      PROVE  MonitorInv'
  <2>1. b \in Nat
    BY MonitorBoundsAssumption DEF BinIds
  <2>2. PICK j \in Job : /\ j.sub = job[w].sub /\ j.node = n /\ j.bin = b /\ j.new = g
                         /\ job' = [job EXCEPT ![w] = j]
    BY <1>1, <1>8, <2>1, StopLocals
  <2>3. /\ Popped(n, b) /\ (g <=> bins[b] \ {n} = {})
        /\ monitor' = [monitor EXCEPT ![n] = NoMonitor]
        /\ bins' = [bins EXCEPT ![b] = @ \ {n}]
        /\ open' = IF g THEN open \ {b} ELSE open
        /\ Goto(w, "stop")
    BY <1>8
  <2> QED BY <1>1, <1>2, <2>2, <2>3, PopStep
<1>9. \/ quiet /\ monitor' = monitor
      \/ /\ quiet /\ monitor[n] # NoMonitor
         /\ monitor' = [monitor EXCEPT ![n] = [monitor[n] EXCEPT !.subs = @ \ {job[w].sub}]]
      \/ /\ quiet /\ monitor[n] # NoMonitor
         /\ monitor[n].bin \in open => n \notin bins[monitor[n].bin]
         /\ monitor' = [monitor EXCEPT ![n] = NoMonitor]
      \/ \E b \in BinIds : \E g \in BOOLEAN :
               /\ Popped(n, b) /\ (g <=> bins[b] \ {n} = {})
               /\ monitor' = [monitor EXCEPT ![n] = NoMonitor]
               /\ bins' = [bins EXCEPT ![b] = @ \ {n}]
               /\ open' = IF g THEN open \ {b} ELSE open
               /\ StopJob(w, n, b, g)
               /\ Goto(w, "stop")
  <2> DEFINE popped == \E b \in BinIds : \E g \in BOOLEAN :
               /\ Popped(n, b) /\ (g <=> bins[b] \ {n} = {})
               /\ monitor' = [monitor EXCEPT ![n] = NoMonitor]
               /\ bins' = [bins EXCEPT ![b] = @ \ {n}]
               /\ open' = IF g THEN open \ {b} ELSE open
               /\ StopJob(w, n, b, g)
               /\ Goto(w, "stop")
  <2> QED BY ReleaseCases
<1> HIDE DEF quiet
<1> QED BY <1>5, <1>6, <1>7, <1>8, <1>9

-----------------------------------------------------------------------------
(* _handle_client_reconnect                                                 *)

\* Bins lose the nodes that were not restored, and their monitors become idle.
LEMMA ReconnectStepKeeps ==
  ASSUME MonitorInv, NEW kept \in [BinIds -> SUBSET Nodes], Reconnect(kept)
  PROVE  MonitorInv'
<1> DEFINE t == Reconnector
           lost == {n \in Nodes : /\ monitor[n] # NoMonitor /\ monitor[n].bin \in open
                                  /\ n \in bins[monitor[n].bin] \ kept[monitor[n].bin]}
           j == [NoJob EXCEPT !.acq = lost]
           l == IF dead' = {} THEN "release" ELSE "clean"
<1>1. /\ pc[t] = "idle" /\ \A b \in BinIds : kept[b] \subseteq bins[b] /\ (b \notin open => kept[b] = {})
      /\ monitor' = [n \in Nodes |-> IF n \in lost THEN Lapse(monitor[n]) ELSE monitor[n]]
      /\ job' = [job EXCEPT ![t] = j]
      /\ dead' = {b \in open : kept[b] = {}} /\ open' = open \ dead'
      /\ bins' = [b \in BinIds |-> IF b \in open THEN kept[b] ELSE bins[b]]
      /\ items' = [b \in BinIds |-> [n \in Nodes |->
                     IF b \in open /\ n \in bins[b] \ kept[b] THEN 0 ELSE items[b][n]]]
      /\ reconnects' = reconnects + 1 /\ Goto(t, l)
  BY DEF Reconnect
<1>2. UNCHANGED <<live, monitored, mode, monitors, server, failed, admission, backoff>>
  BY DEF Reconnect, subVars
<1>3. /\ monitor \in [Nodes -> MonitorRecord \cup {NoMonitor}] /\ bins \in [BinIds -> SUBSET Nodes]
      /\ items \in [BinIds -> [Nodes -> Nat]] /\ reconnects \in Nat /\ open \subseteq BinIds
  BY DEF MonitorInv, RegistryTypes
<1>4. j \in Job
  BY DEF NoJob, Job
<1>5. l \in {"release", "clean"} /\ t \in Threads /\ lost \subseteq Nodes
  BY DEF Threads
<1> HIDE DEF j, l, t
<1>6. /\ l \in Labels /\ l \notin Asking \cup Starting \cup Holding /\ l # "stop" /\ pc[t] \notin Asking
  BY <1>1, <1>5 DEF Labels, Asking, Starting, Holding
<1>7. Moves(t, l, j) /\ turn' \in Threads \cup {NoThread}
  BY <1>1, <1>5, GotoFacts DEF Moves
<1>8. reconnects' \in Nat /\ reconnects' # 0
  BY <1>1, <1>3
<1>9. /\ \A n \in lost : Lapse(monitor[n]) \in MonitorRecord /\ Lapse(monitor[n]).mode = "idle"
  <2> SUFFICES ASSUME NEW n \in lost
               PROVE  Lapse(monitor[n]) \in MonitorRecord /\ Lapse(monitor[n]).mode = "idle"
    OBVIOUS
  <2>1. monitor[n] \in MonitorRecord
    BY <1>3
  <2> QED BY <2>1 DEF Lapse, MonitorRecord
<1>10. monitor' \in [Nodes -> MonitorRecord \cup {NoMonitor}]
  BY <1>1, <1>3, <1>9
<1>11. bins' \in [BinIds -> SUBSET Nodes] /\ items' \in [BinIds -> [Nodes -> Nat]]
  BY <1>1, <1>3
<1>12. SubTypes' /\ RegistryTypes'
  BY <1>1, <1>2, <1>3, <1>8, <1>10, <1>11 DEF MonitorInv, SubTypes, RegistryTypes
<1>13. TaskTypes'
  BY <1>2, <1>4, <1>5, <1>6, <1>7, MoveFacts DEF MonitorInv, TaskTypes
<1>14. JobInv'
  <2>1. JobFits(t, l, j)
    BY <1>5, WorkersAssumption DEF JobFits, Starting, Holding, t
  <2> QED BY <1>4, <1>5, <1>6, <1>7, <2>1, JobKept
<1>15. AdmissionInv'
  BY <1>2, <1>4, <1>5, <1>6, <1>7, LockKept
<1>16. RoomInv' /\ LimitsKept'
  <2>1. \A b \in BinIds : bins'[b] \subseteq bins[b]
    BY <1>1
  <2>2. open' \subseteq open /\ \A b \in open \ open' : bins'[b] = {}
    BY <1>1, <1>3
  <2> QED BY <1>4, <1>5, <1>6, <1>7, <1>12, <1>14, <2>1, <2>2, RoomShrinks
<1>17. AloneInv'
  BY <1>1, <1>4, <1>5, <1>6, <1>7, AloneKept
<1>18. StartInv' /\ PackedIsOwned' /\ ServerInv'
  BY <1>8 DEF StartInv, PackedIsOwned, ServerInv
<1>19. NativeIsPacked'
  <2> SUFFICES ASSUME NEW m \in Nodes, monitor'[m] # NoMonitor, monitor'[m].mode = "native"
               PROVE  monitor'[m].bin \in open' /\ m \in bins'[monitor'[m].bin]
    BY DEF NativeIsPacked
  <2>1. m \notin lost /\ monitor'[m] = monitor[m]
    BY <1>1, <1>9
  <2>2. monitor[m].bin \in open /\ m \in bins[monitor[m].bin]
    BY <2>1 DEF MonitorInv, NativeIsPacked
  <2>3. m \in kept[monitor[m].bin]
    BY <2>1, <2>2
  <2> QED BY <1>1, <1>3, <2>1, <2>2, <2>3
<1> QED BY <1>12, <1>13, <1>14, <1>15, <1>16, <1>17, <1>18, <1>19 DEF MonitorInv

-----------------------------------------------------------------------------
(* The invariant holds                                                      *)

\* Nothing is monitored and nobody is at work.
LEMMA InitHolds == Init => MonitorInv
<1> SUFFICES ASSUME Init PROVE MonitorInv
  OBVIOUS
<1>1. NoJob \in Job
  BY DEF NoJob, Job
<1>2. \A t \in Threads : pc[t] = "idle" /\ job[t] = NoJob
  BY DEF Init
<1>3. SubTypes
  BY DEF Init, SubTypes
<1>4. RegistryTypes
  BY DEF Init, RegistryTypes
<1>5. TaskTypes
  <2>1. pc \in [Threads -> Labels]
    BY DEF Init, Labels
  <2>2. admission \in Seq(Threads)
    <3>1. admission = <<>>
      BY DEF Init
    <3> QED BY <3>1
  <2>3. backoff \in BOOLEAN
    <3>1. backoff = FALSE
      BY DEF Init
    <3> QED BY <3>1
  <2>4. turn \in Threads \cup {NoThread}
    BY DEF Init
  <2>5. job \in [Threads -> Job]
    BY <1>1 DEF Init
  <2> QED BY <2>1, <2>2, <2>3, <2>4, <2>5 DEF TaskTypes
<1>6. JobInv
  BY <1>2 DEF JobInv, JobFits, Starting, Holding
<1>7. AdmissionInv
  BY <1>2 DEF Init, AdmissionInv, Asking, Holding
<1>8. RoomInv
  BY <1>2 DEF Init, RoomInv, Holding
<1>9. LimitsKept
  <2>1. {x \in open \X Nodes : x[2] \in bins[x[1]]} = {} /\ open = {}
    BY DEF Init
  <2>2. TotalMonitored = 0 /\ Cardinality(open) = 0
    BY <2>1, FS_EmptySet DEF TotalMonitored
  <2> QED BY <2>1, <2>2, LimitsAssumption DEF LimitsKept
<1>10. NativeIsPacked /\ PackedIsOwned
  BY DEF Init, NativeIsPacked, PackedIsOwned
<1>11. StartInv
  BY <1>2 DEF StartInv, Starting, Threads
<1>12. AloneInv
  BY <1>2 DEF AloneInv, Holding
<1>13. ServerInv
  <2>1. Opening = {} /\ Closing = {}
    BY <1>2 DEF Opening, Closing
  <2> QED BY <2>1 DEF Init, ServerInv
<1> QED BY <1>3, <1>4, <1>5, <1>6, <1>7, <1>8, <1>9, <1>10, <1>11, <1>12, <1>13 DEF MonitorInv

\* The steps of _start_node_monitor_runtime.
LEMMA StartStep ==
  ASSUME MonitorInv, NEW t \in Threads, Start(t)
  PROVE  MonitorInv'
BY StartRuntimeStep, SelectBinStep, CreateSubscriptionStep, SubscribeNodeStep, EnterWantedStep,
   UndoAdmissionStep, StartPollingStep DEF Start

\* Every step keeps the invariant.
LEMMA NextKeeps == MonitorInv /\ [Next]_vars => MonitorInv'
<1> SUFFICES ASSUME MonitorInv, [Next]_vars PROVE MonitorInv'
  OBVIOUS
<1>1. ASSUME NEW w \in Workers, Request(w) PROVE MonitorInv'
  BY <1>1, SetMonitoredStep, RemoveSubscriptionStep
     DEF Request, RegisterItems, UnregisterItems
<1>2. ASSUME NEW w \in Workers, WorkerStep(w) PROVE MonitorInv'
  <2>1. w \in Threads
    BY DEF Threads
  <2>2. ASSUME NEW n \in Nodes, ReleaseNode(w, n) PROVE MonitorInv'
    BY <2>2, ReleaseNodeStep
  <2>3. ASSUME NEW n \in Nodes, AcquireNode(w, n) PROVE MonitorInv'
    BY <2>3, AcquireKnownStep, AcquireNewStep
  <2>4. CASE StopRuntime(w)
    BY <2>4, StopRuntimeStep
  <2>5. CASE Start(w)
    BY <2>1, <2>5, StartStep
  <2>6. CASE FinishRequest(w)
    BY <2>6, FinishRequestStep
  <2> QED BY <1>2, <2>2, <2>3, <2>4, <2>5, <2>6 DEF WorkerStep
<1>3. ASSUME NEW kept \in [BinIds -> SUBSET Nodes], Reconnect(kept) PROVE MonitorInv'
  BY <1>3, ReconnectStepKeeps
<1>4. ASSUME ReconnectStep PROVE MonitorInv'
  <2>1. Reconnector \in Threads
    BY DEF Threads
  <2> QED BY <1>4, <2>1, DeleteDeadBinStep, ReadmitNodeStep, StartStep, FinishReconnectStep
          DEF ReconnectStep
<1>5. CASE BackoffEnds
  BY <1>5, BackoffStep DEF BackoffEnds
<1>6. CASE UNCHANGED vars
  <2>1. /\ UNCHANGED <<subVars, monVars, binVars, srvVars, pc, job, turn, admission, recVars>>
        /\ backoff' = backoff /\ backoff \in BOOLEAN
    BY <1>6 DEF vars, taskVars, MonitorInv, TaskTypes
  <2> QED BY <2>1, BackoffStep
<1> QED BY <1>1, <1>2, <1>3, <1>4, <1>5, <1>6 DEF Next

\* Monitors, bins, server and tasks stay in the relations of the inductive invariant.
THEOREM MonitorsStayConsistent == Spec => []MonitorInv
BY InitHolds, NextKeeps, PTL DEF Spec

\* service.py, _acquire_native_bin_slot: the limits of the server are kept, although the
\* room is checked one or two network calls before the node enters its bin.
THEOREM LimitsAreKept == Spec => []LimitsKept
<1>1. MonitorInv => LimitsKept
  BY DEF MonitorInv
<1> QED BY <1>1, MonitorsStayConsistent, PTL

\* When nothing is in progress the server shows what the bins show.
LEMMA QuietAgrees == MonitorInv => NothingLeftOnServer
<1> SUFFICES ASSUME MonitorInv, Quiet, ~failed, reconnects = 0
             PROVE  /\ server = open
                    /\ \A b \in open, n \in Nodes : items[b][n] = IF n \in bins[b] THEN 1 ELSE 0
  BY DEF NothingLeftOnServer
<1>1. \A t \in Threads : pc[t] = "idle"
  BY DEF Quiet
<1>2. Opening = {} /\ Closing = {} /\ \A b, n : Touching(b, n) = {}
  BY <1>1 DEF Opening, Closing, Touching
<1>3. /\ server = open \cup Opening \cup Closing
      /\ \A b \in open \cup Opening, n \in Nodes :
            items[b][n] = Cardinality(Touching(b, n)) + (IF n \in bins[b] THEN 1 ELSE 0)
  BY DEF MonitorInv, ServerInv
<1>4. \A b, n : Cardinality(Touching(b, n)) = 0
  BY <1>2, FS_EmptySet
<1> QED BY <1>2, <1>3, <1>4

\* service.py, monitors against bins against the server: a native monitor is in an open bin
\* that holds its node; until the first reconnect every packed node has such a monitor; and
\* until the first failure or reconnect nothing else is left on the server.
THEOREM BinsStayInAgreement == Spec => []BinsAgree
<1>1. MonitorInv => BinsAgree
  BY TypesSplit, QuietAgrees DEF MonitorInv, BinsAgree
<1> QED BY <1>1, MonitorsStayConsistent, PTL

-----------------------------------------------------------------------------
(***************************************************************************)
(* The subscribers of the shared monitors, where the requests of one        *)
(* subscription do not overlap (Serial): the reference counts are right,    *)
(* and so is the mode a subscription reports.                               *)
(***************************************************************************)

-----------------------------------------------------------------------------
(* The inductive invariant                                                  *)

\* Subscription s is counted by the monitor of node n.
Uses(s, n) == monitor[n] # NoMonitor /\ s \in monitor[n].subs

\* A request of s is still to release, or to acquire, node n.
Releasing(s, n) == \E w \in Workers : job[w].sub = s /\ n \in job[w].rel
Acquiring(s, n) == \E w \in Workers : job[w].sub = s /\ n \in job[w].acq

\* The requests in progress: at most one per subscription, with nodes to release that the
\* subscription no longer monitors and nodes to acquire that it does.
RequestInv ==
    /\ \A w \in Workers : pc[w] = "idle" => job[w] = NoJob
    /\ \A v, w \in Workers : job[v].sub = job[w].sub /\ job[w].sub \in Subs => v = w
    /\ \A w \in Workers : \A n \in job[w].rel :
          job[w].sub \in live => n \notin monitored[job[w].sub]
    /\ \A w \in Workers : \A n \in job[w].acq :
          job[w].sub \in live /\ n \in monitored[job[w].sub]

\* A monitor counts the subscriptions that monitor its node, those that are about to
\* release it included and those that are about to acquire it not, and there is one.
CountInv ==
    /\ \A n \in Nodes : monitor[n] # NoMonitor => monitor[n].subs # {}
    /\ \A s \in Subs, n \in Nodes :
          Uses(s, n) <=> \/ Releasing(s, n)
                         \/ s \in live /\ n \in monitored[s] /\ ~Acquiring(s, n)

\* Between its requests a subscription in native mode has native monitors only.
ModeInv ==
    reconnects = 0 => \A s \in live :
       (mode[s] = "native" /\ \A w \in Workers : job[w].sub # s) =>
          \A n \in monitored[s] : monitor[n] # NoMonitor /\ monitor[n].mode = "native"

UseInv == RequestInv /\ CountInv /\ ModeInv

-----------------------------------------------------------------------------
(* Steps that leave the requests and the subscribers alone                  *)

SameRequests == \A w \in Workers : /\ job'[w].sub = job[w].sub /\ job'[w].rel = job[w].rel
                                   /\ job'[w].acq = job[w].acq
                                   /\ pc'[w] = "idle" => pc[w] = "idle" /\ job'[w] = job[w]

SameSubscribers == \A n \in Nodes : /\ monitor'[n] = NoMonitor <=> monitor[n] = NoMonitor
                                    /\ monitor[n] # NoMonitor => monitor'[n].subs = monitor[n].subs

\* Native monitors stay native.
NativeStays == \A n \in Nodes : monitor[n] # NoMonitor /\ monitor[n].mode = "native" =>
                                   monitor'[n] # NoMonitor /\ monitor'[n].mode = "native"

\* A step that starts, stops or restores monitors and begins or ends no request.
LEMMA UseKept ==
  ASSUME MonitorInv, UseInv, UNCHANGED <<live, monitored>>, SameRequests, SameSubscribers,
         reconnects' = 0 => reconnects = 0 /\ mode' = mode /\ NativeStays
  PROVE  UseInv'
<1>1. RequestInv'
  <2>1. RequestInv
    BY DEF UseInv
  <2>2. \A w \in Workers : pc'[w] = "idle" => job'[w] = NoJob
    BY <2>1 DEF RequestInv, SameRequests
  <2>3. \A v, w \in Workers : job'[v].sub = job'[w].sub /\ job'[w].sub \in Subs => v = w
    BY <2>1 DEF RequestInv, SameRequests
  <2>4. \A w \in Workers : \A n \in job'[w].rel : job'[w].sub \in live => n \notin monitored[job'[w].sub]
    BY <2>1 DEF RequestInv, SameRequests
  <2>5. \A w \in Workers : \A n \in job'[w].acq : job'[w].sub \in live /\ n \in monitored[job'[w].sub]
    BY <2>1 DEF RequestInv, SameRequests
  <2> QED BY <2>2, <2>3, <2>4, <2>5 DEF RequestInv
<1>2. CountInv'
  <2>1. \A n \in Nodes : monitor'[n] # NoMonitor => monitor'[n].subs # {}
    BY DEF UseInv, CountInv, SameSubscribers
  <2>2. \A s, n : (Releasing(s, n)' <=> Releasing(s, n)) /\ (Acquiring(s, n)' <=> Acquiring(s, n))
    BY DEF Releasing, Acquiring, SameRequests
  <2>3. \A s \in Subs, n \in Nodes : Uses(s, n)' <=> Uses(s, n)
    BY DEF Uses, SameSubscribers
  <2> QED BY <2>1, <2>2, <2>3 DEF UseInv, CountInv
<1>3. ModeInv'
  <2> SUFFICES ASSUME reconnects' = 0, NEW s \in live, mode'[s] = "native",
                      \A w \in Workers : job'[w].sub # s, NEW n \in monitored[s]
               PROVE  monitor'[n] # NoMonitor /\ monitor'[n].mode = "native"
    BY DEF ModeInv
  <2>1. n \in Nodes
    BY DEF MonitorInv, SubTypes
  <2>2. \A w \in Workers : job[w].sub # s
    BY DEF SameRequests
  <2>3. monitor[n] # NoMonitor /\ monitor[n].mode = "native"
    BY <2>2 DEF UseInv, ModeInv
  <2> QED BY <2>1, <2>3 DEF NativeStays
<1> QED BY <1>1, <1>2, <1>3 DEF UseInv

\* A task moves on within its request, or is the listener.
LEMMA MoveWithin ==
  ASSUME MonitorInv, NEW t \in Threads, NEW l, l # "idle", Goto(t, l),
         NEW j, job' = [job EXCEPT ![t] = j],
         t \in Workers => j.sub = job[t].sub /\ j.rel = job[t].rel /\ j.acq = job[t].acq
  PROVE  SameRequests
<1>1. pc \in [Threads -> Labels] /\ job \in [Threads -> Job] /\ Workers \subseteq Threads
  BY DEF MonitorInv, TaskTypes, Threads
<1>2. pc' = [pc EXCEPT ![t] = l]
  BY DEF Goto
<1>3. \A u \in Threads : u # t => pc'[u] = pc[u] /\ job'[u] = job[u]
  BY <1>1, <1>2
<1>4. pc'[t] = l /\ job'[t] = j
  BY <1>1, <1>2
<1> QED BY <1>1, <1>3, <1>4 DEF SameRequests

\* The same where the locals stay as they are.
LEMMA MoveOnly ==
  ASSUME MonitorInv, NEW t \in Threads, NEW l, l # "idle", Goto(t, l), job' = job
  PROVE  SameRequests
<1>1. job \in [Threads -> Job]
  BY DEF MonitorInv, TaskTypes
<1>2. job' = [job EXCEPT ![t] = job[t]]
  BY <1>1
<1> QED BY <1>2, MoveWithin

\* The same where a start or stop returns to its caller.
LEMMA MoveBack ==
  ASSUME MonitorInv, NEW t \in Threads, Goto(t, "release"), Forget(t)
  PROVE  SameRequests
<1> DEFINE j == [NoJob EXCEPT !.sub = job[t].sub, !.rel = job[t].rel, !.acq = job[t].acq]
<1>1. j.sub = job[t].sub /\ j.rel = job[t].rel /\ j.acq = job[t].acq
  BY DEF NoJob
<1>2. job' = [job EXCEPT ![t] = j]
  BY DEF Forget
<1> HIDE DEF j
<1> QED BY <1>1, <1>2, MoveWithin

\* The same where monitors stay as they are.
LEMMA MonitorsSame ==
  ASSUME monitor' = monitor
  PROVE  SameSubscribers /\ NativeStays
BY DEF SameSubscribers, NativeStays

\* A registered monitor keeps its subscribers when it gets a mode and a bin.
LEMMA RepointSame ==
  ASSUME MonitorInv, NEW n \in Nodes, monitor[n] # NoMonitor,
         NEW c \in {"idle", "native", "polling"}, NEW v \in Nat,
         monitor' = [monitor EXCEPT ![n].mode = c, ![n].bin = v]
  PROVE  /\ SameSubscribers
         /\ c = "native" \/ monitor[n].mode # "native" => NativeStays
<1> DEFINE r == [monitor[n] EXCEPT !.mode = c, !.bin = v]
<1>1. monitor \in [Nodes -> MonitorRecord \cup {NoMonitor}] /\ monitor[n] \in MonitorRecord
  BY DEF MonitorInv, RegistryTypes
<1>2. r \in MonitorRecord /\ r.subs = monitor[n].subs /\ r.mode = c
  BY <1>1 DEF MonitorRecord
<1>3. monitor' = [monitor EXCEPT ![n] = r]
  BY <1>1
<1> HIDE DEF r
<1>4. monitor'[n] = r /\ r # NoMonitor /\ \A m \in Nodes : m # n => monitor'[m] = monitor[m]
  BY <1>1, <1>2, <1>3, NoMonitorAssumption
<1>5. SameSubscribers
  BY <1>2, <1>4 DEF SameSubscribers
<1>6. c = "native" \/ monitor[n].mode # "native" => NativeStays
  BY <1>2, <1>4 DEF NativeStays
<1> QED BY <1>5, <1>6

\* The network call that ends a release.
LEMMA StopRuntimeUse ==
  ASSUME MonitorInv, UseInv, NEW w \in Workers, StopRuntime(w)
  PROVE  UseInv'
<1>1. UNCHANGED <<live, monitored, mode, monitor, reconnects>> /\ w \in Threads
  BY DEF StopRuntime, subVars, monVars, recVars, Threads
<1>2. SameRequests
  BY <1>1, MoveBack DEF StopRuntime
<1> QED BY <1>1, <1>2, MonitorsSame, UseKept

\* The steps of a start.
LEMMA StartUse ==
  ASSUME MonitorInv, UseInv, NEW t \in Threads, Start(t)
  PROVE  UseInv'
<1>1. CASE StartRuntime(t)
  <2>1. UNCHANGED <<live, monitored, mode, monitor, job, reconnects>>
    BY <1>1 DEF StartRuntime, subVars, monVars, recVars
  <2>2. SameRequests
    BY <1>1, <2>1, MoveOnly DEF StartRuntime
  <2> QED BY <2>1, <2>2, MonitorsSame, UseKept
<1>2. CASE SelectBin(t)
  <2>1. UNCHANGED <<live, monitored, mode, monitor, reconnects>>
    BY <1>2 DEF SelectBin, subVars, monVars, recVars
  <2>2. CASE Leave(t, "poll") /\ job' = job
    <3>1. SameRequests
      BY <2>2, MoveOnly DEF Leave
    <3> QED BY <2>1, <3>1, MonitorsSame, UseKept
  <2>3. ASSUME NEW b, job' = [job EXCEPT ![t].bin = b, ![t].new = (Spare = {})],
               NEW l \in {"subscribe", "create"}, Goto(t, l)
        PROVE  UseInv'
    <3> DEFINE new == (Spare = {})
               j == [job[t] EXCEPT !.bin = b, !.new = new]
    <3>1. job[t] \in Job /\ job \in [Threads -> Job]
      BY DEF MonitorInv, TaskTypes
    <3>2. job' = [job EXCEPT ![t] = [job[t] EXCEPT !.bin = b, !.new = (Spare = {})]]
      BY <2>3, <3>1
    <3> HIDE DEF new
    <3>3. job' = [job EXCEPT ![t] = j]
      BY <3>2 DEF new
    <3>4. j.sub = job[t].sub /\ j.rel = job[t].rel /\ j.acq = job[t].acq
      BY <3>1 DEF Job
    <3> HIDE DEF j
    <3>5. SameRequests
      BY <2>3, <3>3, <3>4, MoveWithin
    <3> QED BY <2>1, <3>5, MonitorsSame, UseKept
  <2> QED BY <1>2, <2>2, <2>3 DEF SelectBin
<1>3. CASE CreateSubscription(t)
  <2>1. UNCHANGED <<live, monitored, mode, monitor, job, reconnects>>
    BY <1>3 DEF CreateSubscription, subVars, monVars, recVars
  <2>2. SameRequests
    BY <1>3, <2>1, MoveOnly DEF CreateSubscription, Leave
  <2> QED BY <2>1, <2>2, MonitorsSame, UseKept
<1>4. CASE SubscribeNode(t)
  <2>1. UNCHANGED <<live, monitored, mode, monitor, job, reconnects>>
    BY <1>4 DEF SubscribeNode, subVars, monVars, recVars
  <2>2. Goto(t, "enter") \/ Goto(t, "poll")
    BY <1>4 DEF SubscribeNode, Leave
  <2>3. SameRequests
    BY <2>1, <2>2, MoveOnly
  <2> QED BY <2>1, <2>3, MonitorsSame, UseKept
<1>5. CASE EnterBin(t) /\ StillWanted(t)
  <2> DEFINE n == job[t].node
  <2>1. /\ UNCHANGED <<live, monitored, mode, reconnects>> /\ Forget(t) /\ Goto(t, "release")
        /\ monitor' = [monitor EXCEPT ![n].mode = "native", ![n].bin = job[t].bin]
        /\ monitor[n] # NoMonitor /\ pc[t] = "enter"
    BY <1>5 DEF EnterBin, subVars, recVars, Leave, StillWanted, IsLive
  <2>2. n \in Nodes /\ job[t].bin \in Nat
    BY <2>1 DEF MonitorInv, JobInv, JobFits, Starting, TaskTypes, Job
  <2> HIDE DEF n
  <2>3. SameSubscribers /\ NativeStays
    BY <2>1, <2>2, RepointSame
  <2>4. SameRequests
    BY <2>1, MoveBack
  <2> QED BY <2>1, <2>3, <2>4, UseKept
<1>6. CASE EnterBin(t) /\ ~StillWanted(t)
  <2>1. UNCHANGED <<live, monitored, mode, monitor, job, reconnects>> /\ Goto(t, "poll")
    BY <1>6 DEF EnterBin, subVars, recVars, Leave
  <2>2. SameRequests
    BY <2>1, MoveOnly
  <2> QED BY <2>1, <2>2, MonitorsSame, UseKept
<1>7. CASE StartPolling(t)
  <2> DEFINE n == job[t].node
  <2>1. /\ UNCHANGED <<live, monitored, mode, reconnects>> /\ Forget(t) /\ Goto(t, "release")
        /\ pc[t] = "poll"
    BY <1>7 DEF StartPolling, subVars, recVars
  <2>2. SameRequests
    BY <2>1, MoveBack
  <2>3. CASE ~IsLive(t)
    <3>1. monitor' = monitor
      BY <1>7, <2>3 DEF StartPolling
    <3> QED BY <2>1, <2>2, <3>1, MonitorsSame, UseKept
  <2>4. CASE IsLive(t)
    <3>1. /\ monitor' = [monitor EXCEPT ![n].mode = "polling", ![n].bin = 0]
          /\ monitor[n] # NoMonitor
      BY <1>7, <2>4 DEF StartPolling, IsLive
    <3>2. n \in Nodes /\ 0 \in Nat
      BY <2>1 DEF MonitorInv, JobInv, JobFits, Starting
    <3>3. reconnects = 0 => monitor[n].mode = "idle"
      BY <2>1, <2>4 DEF MonitorInv, StartInv, Starting
    <3> HIDE DEF n
    <3>4. SameSubscribers /\ (reconnects = 0 => NativeStays)
      BY <3>1, <3>2, <3>3, RepointSame
    <3> QED BY <2>1, <2>2, <3>4, UseKept
  <2> QED BY <2>3, <2>4
<1> QED BY <1>1, <1>2, <1>3, <1>4, <1>5, <1>6, <1>7 DEF Start

\* A reconnect: lost monitors keep their subscribers.
LEMMA ReconnectUse ==
  ASSUME MonitorInv, UseInv, NEW kept \in [BinIds -> SUBSET Nodes], Reconnect(kept)
  PROVE  UseInv'
<1> DEFINE t == Reconnector
           lost == {n \in Nodes : /\ monitor[n] # NoMonitor /\ monitor[n].bin \in open
                                  /\ n \in bins[monitor[n].bin] \ kept[monitor[n].bin]}
           j == [NoJob EXCEPT !.acq = lost]
           l == IF dead' = {} THEN "release" ELSE "clean"
<1>1. /\ monitor' = [n \in Nodes |-> IF n \in lost THEN Lapse(monitor[n]) ELSE monitor[n]]
      /\ job' = [job EXCEPT ![t] = j] /\ Goto(t, l) /\ l # "idle"
      /\ UNCHANGED <<live, monitored>> /\ t \in Threads /\ t \notin Workers
  BY WorkersAssumption DEF Reconnect, subVars, Threads
<1>2. reconnects' # 0
  BY DEF Reconnect, MonitorInv, RegistryTypes
<1>3. SameSubscribers
  <2> SUFFICES ASSUME NEW n \in Nodes
               PROVE  /\ monitor'[n] = NoMonitor <=> monitor[n] = NoMonitor
                      /\ monitor[n] # NoMonitor => monitor'[n].subs = monitor[n].subs
    BY DEF SameSubscribers
  <2>1. CASE n \in lost
    <3>1. monitor[n] \in MonitorRecord
      BY <2>1 DEF MonitorInv, RegistryTypes
    <3>2. Lapse(monitor[n]) \in MonitorRecord /\ Lapse(monitor[n]).subs = monitor[n].subs
      BY <3>1 DEF Lapse, MonitorRecord
    <3> HIDE DEF lost
    <3> QED BY <1>1, <2>1, <3>1, <3>2, NoMonitorAssumption
  <2>2. CASE n \notin lost
    BY <1>1, <2>2
  <2> QED BY <2>1, <2>2
<1> HIDE DEF j, l, t
<1>4. SameRequests
  BY <1>1, MoveWithin
<1> QED BY <1>1, <1>2, <1>3, <1>4, UseKept

\* The rest of the listener.
LEMMA ListenerUse ==
  ASSUME MonitorInv, UseInv, ReconnectStep
  PROVE  UseInv'
<1> DEFINE t == Reconnector
<1>1. t \in Threads /\ t \notin Workers
  BY WorkersAssumption DEF Threads
<1>2. ASSUME NEW b \in BinIds, DeleteDeadBin(b) PROVE UseInv'
  <2> DEFINE l == IF dead' = {} THEN "release" ELSE "clean"
  <2>1. UNCHANGED <<live, monitored, mode, monitor, job, reconnects>> /\ Goto(t, l) /\ l # "idle"
    BY <1>2 DEF DeleteDeadBin, subVars, monVars
  <2> HIDE DEF t, l
  <2>2. SameRequests
    BY <1>1, <2>1, MoveOnly
  <2> QED BY <2>1, <2>2, MonitorsSame, UseKept
<1>3. ASSUME NEW n \in Nodes, ReadmitNode(n) PROVE UseInv'
  <2>1. /\ UNCHANGED <<live, monitored, mode, monitor, reconnects>>
        /\ Goto(t, "start") \/ Goto(t, "release")
    BY <1>3 DEF ReadmitNode, subVars, monVars, recVars
  <2>2. job \in [Threads -> Job]
    BY DEF MonitorInv, TaskTypes
  <2>3. \E j : job' = [job EXCEPT ![t] = j]
    <3>1. CASE monitor[n] # NoMonitor /\ monitor[n].mode = "idle"
      <4>1. job' = [job EXCEPT ![t] = [job[t] EXCEPT !.acq = @ \ {n}, !.node = n, !.id = monitor[n].id]]
        BY <1>1, <1>3, <2>2, <3>1 DEF ReadmitNode
      <4> QED BY <4>1
    <3>2. CASE ~(monitor[n] # NoMonitor /\ monitor[n].mode = "idle")
      <4>1. job' = [job EXCEPT ![t] = [job[t] EXCEPT !.acq = @ \ {n}]]
        BY <1>1, <1>3, <2>2, <3>2 DEF ReadmitNode
      <4> QED BY <4>1
    <3> QED BY <3>1, <3>2
  <2> HIDE DEF t
  <2>4. SameRequests
    BY <1>1, <2>1, <2>3, MoveWithin
  <2> QED BY <2>1, <2>4, MonitorsSame, UseKept
<1>4. CASE Start(t)
  BY <1>1, <1>4, StartUse
<1>5. CASE FinishReconnect
  <2>1. /\ UNCHANGED <<live, monitored, monitor, reconnects>> /\ pc[t] = "release"
        /\ job' = [job EXCEPT ![t] = NoJob] /\ pc' = [pc EXCEPT ![t] = "idle"]
    BY <1>5 DEF FinishReconnect, monVars, recVars, Goto
  <2>2. SameRequests
    <3>1. /\ pc \in [Threads -> Labels] /\ job \in [Threads -> Job] /\ Workers \subseteq Threads
      BY DEF MonitorInv, TaskTypes, Threads
    <3> HIDE DEF t
    <3>2. \A w \in Workers : pc'[w] = pc[w] /\ job'[w] = job[w]
      BY <1>1, <2>1, <3>1
    <3> QED BY <3>2 DEF SameRequests
  <2>3. reconnects # 0
    BY <2>1, ListenerIdle
  <2> QED BY <2>1, <2>2, <2>3, MonitorsSame, UseKept
<1> QED BY <1>2, <1>3, <1>4, <1>5 DEF ReconnectStep

-----------------------------------------------------------------------------
(* Steps of the request of one subscription                                 *)

\* Worker w, the only one with a request of s, moves on: it begins the request, goes on with
\* it or ends it.
Serves(w, s, l, j) ==
    /\ Moves(w, l, j) /\ job[w].sub \in {s, NoSub} /\ j.sub \in {s, NoSub}
    /\ \A v \in Workers : v # w => job[v].sub # s
    /\ l = "idle" => j = NoJob
    /\ live' \ {s} = live \ {s} /\ \A z \in Subs : z # s => monitored'[z] = monitored[z]
    /\ \A n \in j.rel : j.sub \in live' => n \notin monitored'[j.sub]
    /\ \A n \in j.acq : j.sub \in live' /\ n \in monitored'[j.sub]

\* Worker w is to release, or to acquire, node n for s, with locals j.
RelIn(j, s, n) == j.sub = s /\ n \in j.rel
AcqIn(j, s, n) == j.sub = s /\ n \in j.acq

\* What the step leaves of the requests.
LEMMA ServeRequests ==
  ASSUME MonitorInv, UseInv, NEW w \in Workers, NEW s \in Subs, NEW l \in Labels, NEW j \in Job,
         Serves(w, s, l, j)
  PROVE  /\ RequestInv'
         /\ \A z \in Subs, n \in Nodes : z # s => /\ Releasing(z, n)' <=> Releasing(z, n)
                                                  /\ Acquiring(z, n)' <=> Acquiring(z, n)
         /\ \A n \in Nodes : /\ Releasing(s, n) <=> RelIn(job[w], s, n)
                             /\ Acquiring(s, n) <=> AcqIn(job[w], s, n)
                             /\ Releasing(s, n)' <=> RelIn(j, s, n)
                             /\ Acquiring(s, n)' <=> AcqIn(j, s, n)
<1>1. /\ w \in Threads /\ pc'[w] = l /\ job'[w] = j
      /\ \A v \in Workers : v # w => pc'[v] = pc[v] /\ job'[v] = job[v] /\ job[v].sub # s
  BY MoveFacts DEF Serves, Threads
<1>2. NoSub # s /\ NoSub \notin Subs
  BY WorkersAssumption
<1>3. /\ job[w].sub \in {s, NoSub} /\ j.sub \in {s, NoSub} /\ (l = "idle" => j = NoJob)
      /\ \A n \in j.rel : j.sub \in live' => n \notin monitored'[j.sub]
      /\ \A n \in j.acq : j.sub \in live' /\ n \in monitored'[j.sub]
      /\ \A z : z # s => (z \in live' <=> z \in live)
      /\ \A z \in Subs : z # s => monitored'[z] = monitored[z]
  BY DEF Serves
<1>4. RequestInv'
  <2>1. RequestInv
    BY DEF UseInv
  <2>2. \A v \in Workers : pc'[v] = "idle" => job'[v] = NoJob
    BY <1>1, <1>3, <2>1 DEF RequestInv
  <2>3. \A u, v \in Workers : job'[u].sub = job'[v].sub /\ job'[v].sub \in Subs => u = v
    BY <1>1, <1>2, <1>3, <2>1 DEF RequestInv
  <2>4. ASSUME NEW v \in Workers
        PROVE  /\ \A n \in job'[v].rel : job'[v].sub \in live' => n \notin monitored'[job'[v].sub]
               /\ \A n \in job'[v].acq : job'[v].sub \in live' /\ n \in monitored'[job'[v].sub]
    <3>1. CASE v = w
      BY <1>1, <1>3, <3>1
    <3>2. CASE v # w
      <4> DEFINE z == job[v].sub
      <4>1. job'[v] = job[v] /\ z # s /\ (z \in live' <=> z \in live)
        BY <1>1, <1>3, <3>2
      <4>2. live \subseteq Subs
        BY DEF MonitorInv, SubTypes
      <4>3. z \in live => monitored'[z] = monitored[z]
        BY <1>3, <4>1, <4>2
      <4>4. /\ \A n \in job[v].rel : z \in live => n \notin monitored[z]
            /\ \A n \in job[v].acq : z \in live /\ n \in monitored[z]
        BY <2>1 DEF RequestInv
      <4> HIDE DEF z
      <4>5. job'[v].sub = z /\ job'[v].rel = job[v].rel /\ job'[v].acq = job[v].acq
        BY <4>1 DEF z
      <4> QED BY <4>1, <4>3, <4>4, <4>5
    <3> QED BY <3>1, <3>2
  <2> QED BY <2>2, <2>3, <2>4 DEF RequestInv
<1>5. ASSUME NEW z \in Subs, NEW n \in Nodes, z # s
      PROVE  (Releasing(z, n)' <=> Releasing(z, n)) /\ (Acquiring(z, n)' <=> Acquiring(z, n))
  <2>1. job[w].sub # z /\ j.sub # z
    BY <1>2, <1>3, <1>5
  <2> QED BY <1>1, <2>1 DEF Releasing, Acquiring
<1>6. ASSUME NEW n \in Nodes
      PROVE  /\ Releasing(s, n) <=> RelIn(job[w], s, n)
             /\ Acquiring(s, n) <=> AcqIn(job[w], s, n)
             /\ Releasing(s, n)' <=> RelIn(j, s, n)
             /\ Acquiring(s, n)' <=> AcqIn(j, s, n)
  BY <1>1 DEF Releasing, Acquiring, RelIn, AcqIn
<1> QED BY <1>4, <1>5, <1>6

\* A step of the request of s changes who else uses a monitor as little as that it is native.
LEMMA ServeUse ==
  ASSUME MonitorInv, UseInv, NEW w \in Workers, NEW s \in Subs, NEW l \in Labels, NEW j \in Job,
         Serves(w, s, l, j), reconnects' = reconnects,
         \A n \in Nodes : monitor'[n] # NoMonitor => monitor'[n].subs # {},
         \A z \in Subs, n \in Nodes : z # s => (Uses(z, n)' <=> Uses(z, n)),
         \A n \in Nodes : Uses(s, n)' <=> \/ RelIn(j, s, n)
                                          \/ s \in live' /\ n \in monitored'[s] /\ ~AcqIn(j, s, n),
         \A z \in Subs, n \in Nodes : z # s /\ Uses(z, n) /\ monitor[n].mode = "native" =>
                                         monitor'[n] # NoMonitor /\ monitor'[n].mode = "native",
         \A z \in Subs : z # s => mode'[z] = mode[z],
         j.sub # s /\ s \in live' /\ mode'[s] = "native" => \A n \in monitored'[s] :
            monitor'[n] # NoMonitor /\ monitor'[n].mode = "native"
  PROVE  UseInv'
<1>1. /\ RequestInv'
      /\ \A z \in Subs, n \in Nodes : z # s => /\ Releasing(z, n)' <=> Releasing(z, n)
                                               /\ Acquiring(z, n)' <=> Acquiring(z, n)
      /\ \A n \in Nodes : /\ Releasing(s, n)' <=> RelIn(j, s, n)
                          /\ Acquiring(s, n)' <=> AcqIn(j, s, n)
  BY ServeRequests
<1>2. /\ \A z : z # s => (z \in live' <=> z \in live)
      /\ \A z \in Subs : z # s => monitored'[z] = monitored[z]
      /\ live \subseteq Subs /\ live' \subseteq Subs
      /\ \A z \in live : monitored[z] \subseteq Nodes
  BY DEF Serves, MonitorInv, SubTypes
<1>3. CountInv'
  <2>1. ASSUME NEW z \in Subs, NEW n \in Nodes
        PROVE  Uses(z, n)' <=> \/ Releasing(z, n)'
                               \/ z \in live' /\ n \in monitored'[z] /\ ~Acquiring(z, n)'
    <3>1. CASE z = s
      BY <1>1, <3>1
    <3>2. CASE z # s
      <4>1. Uses(z, n) <=> \/ Releasing(z, n)
                           \/ z \in live /\ n \in monitored[z] /\ ~Acquiring(z, n)
        BY DEF UseInv, CountInv
      <4> QED BY <1>1, <1>2, <3>2, <4>1
    <3> QED BY <3>1, <3>2
  <2> QED BY <2>1 DEF CountInv
<1>4. ModeInv'
  <2> SUFFICES ASSUME reconnects' = 0, NEW z \in live', mode'[z] = "native",
                      \A v \in Workers : job'[v].sub # z, NEW n \in monitored'[z]
               PROVE  monitor'[n] # NoMonitor /\ monitor'[n].mode = "native"
    BY DEF ModeInv
  <2>1. w \in Threads /\ job'[w] = j /\ \A v \in Workers : v # w => job'[v] = job[v]
    BY MoveFacts DEF Serves, Threads
  <2>2. CASE z = s
    BY <2>1, <2>2
  <2>3. CASE z # s
    <3>1. z \in live /\ z \in Subs /\ n \in monitored[z] /\ n \in Nodes /\ mode[z] = "native"
      BY <1>2, <2>3
    <3>2. \A v \in Workers : job[v].sub # z
      <4>1. job[w].sub # z
        BY <2>3, <3>1, WorkersAssumption DEF Serves
      <4> QED BY <2>1, <4>1
    <3>3. ~Acquiring(z, n)
      BY <3>2 DEF Acquiring
    <3>4. Uses(z, n)
      BY <3>1, <3>3 DEF UseInv, CountInv
    <3>5. monitor[n].mode = "native"
      BY <3>1, <3>2 DEF UseInv, ModeInv
    <3> QED BY <2>3, <3>1, <3>4, <3>5
  <2> QED BY <2>2, <2>3
<1> QED BY <1>1, <1>3, <1>4 DEF UseInv

\* A request of s begins while none is in progress, and monitors stay as they are.
LEMMA BeginUse ==
  ASSUME MonitorInv, UseInv, Serial, NEW w \in Workers, NEW s \in Subs, Free(w, s),
         NEW j \in Job, j.sub = s, job' = [job EXCEPT ![w] = j], Goto(w, "release"),
         live' \ {s} = live \ {s}, \A z \in Subs : z # s => monitored'[z] = monitored[z],
         \A n \in j.rel : s \in live' => n \notin monitored'[s],
         \A n \in j.acq : s \in live' /\ n \in monitored'[s],
         \A n \in Nodes : n \in monitored[s] <=> n \in j.rel \/ (s \in live' /\ n \in monitored'[s] /\ n \notin j.acq),
         UNCHANGED <<mode, monitor, reconnects>>
  PROVE  UseInv'
<1>1. pc[w] = "idle" /\ s \in live /\ \A v \in Workers : job[v].sub # s
  BY DEF Free
<1>2. job[w].sub = NoSub
  <2>1. job[w] = NoJob
    BY <1>1 DEF UseInv, RequestInv
  <2> QED BY <2>1 DEF NoJob
<1>3. Moves(w, "release", j) /\ "release" \in Labels
  BY DEF Goto, Moves, Labels
<1>4. Serves(w, s, "release", j)
  BY <1>1, <1>2, <1>3 DEF Serves
<1>5. \A z, n : Uses(z, n)' <=> Uses(z, n)
  BY DEF Uses
<1>6. ASSUME NEW n \in Nodes
      PROVE  Uses(s, n)' <=> \/ RelIn(j, s, n)
                             \/ s \in live' /\ n \in monitored'[s] /\ ~AcqIn(j, s, n)
  <2>1. Uses(s, n) <=> n \in monitored[s]
    BY <1>1 DEF UseInv, CountInv, Releasing, Acquiring
  <2> QED BY <1>5, <2>1 DEF RelIn, AcqIn
<1>7. \A n \in Nodes : monitor'[n] # NoMonitor => monitor'[n].subs # {}
  BY DEF UseInv, CountInv
<1>8. \A z \in Subs, n \in Nodes : z # s /\ Uses(z, n) /\ monitor[n].mode = "native" =>
                                      monitor'[n] # NoMonitor /\ monitor'[n].mode = "native"
  BY DEF Uses
<1> QED BY <1>3, <1>4, <1>5, <1>6, <1>7, <1>8, ServeUse

\* register_items and unregister_items.
LEMMA SetMonitoredUse ==
  ASSUME MonitorInv, UseInv, Serial, NEW w \in Workers, NEW s \in Subs, NEW S \in SUBSET Nodes,
         SetMonitored(w, s, S)
  PROVE  UseInv'
<1> DEFINE j == [NoJob EXCEPT !.sub = s, !.rel = monitored[s] \ S, !.acq = S \ monitored[s]]
<1>1. monitored \in [Subs -> SUBSET Nodes]
  BY DEF MonitorInv, SubTypes
<1>2. j \in Job /\ j.sub = s /\ j.rel = monitored[s] \ S /\ j.acq = S \ monitored[s]
  BY <1>1 DEF NoJob, Job
<1>3. job' = [job EXCEPT ![w] = j] /\ Goto(w, "release") /\ Free(w, s) /\ s \in live
  BY DEF SetMonitored, Free
<1> HIDE DEF j
<1>4. /\ UNCHANGED <<live, mode, monitor, reconnects>>
      /\ monitored'[s] = S /\ \A z \in Subs : z # s => monitored'[z] = monitored[z]
  BY <1>1 DEF SetMonitored, monVars, recVars
<1>5. \A n \in Nodes : n \in monitored[s] <=>
                          n \in j.rel \/ (s \in live' /\ n \in monitored'[s] /\ n \notin j.acq)
  BY <1>2, <1>3, <1>4
<1> QED BY <1>2, <1>3, <1>4, <1>5, BeginUse

\* delete_subscriptions and the expiry.
LEMMA RemoveSubscriptionUse ==
  ASSUME MonitorInv, UseInv, Serial, NEW w \in Workers, NEW s \in Subs, RemoveSubscription(w, s)
  PROVE  UseInv'
<1> DEFINE j == [NoJob EXCEPT !.sub = s, !.rel = monitored[s]]
<1>1. monitored \in [Subs -> SUBSET Nodes]
  BY DEF MonitorInv, SubTypes
<1>2. j \in Job /\ j.sub = s /\ j.rel = monitored[s] /\ j.acq = {}
  BY <1>1 DEF NoJob, Job
<1>3. job' = [job EXCEPT ![w] = j] /\ Goto(w, "release") /\ Free(w, s) /\ live' = live \ {s}
  BY DEF RemoveSubscription, Free
<1> HIDE DEF j
<1>4. UNCHANGED <<monitored, mode, monitor, reconnects>>
  BY DEF RemoveSubscription, monVars, recVars
<1>5. \A n \in Nodes : n \in monitored[s] <=>
                          n \in j.rel \/ (s \in live' /\ n \in monitored'[s] /\ n \notin j.acq)
  BY <1>2, <1>3
<1>6. live' \ {s} = live \ {s} /\ s \notin live'
  BY <1>3
<1> QED BY <1>2, <1>3, <1>4, <1>5, <1>6, BeginUse

\* The end of a request: the subscription uses what it monitors, and its mode is right.
LEMMA FinishRequestUse ==
  ASSUME MonitorInv, UseInv, NEW w \in Workers, FinishRequest(w)
  PROVE  UseInv'
<1>0. PICK s : s = job[w].sub
  OBVIOUS
<1>1. /\ pc[w] = "release" /\ job[w].rel = {} /\ job[w].acq = {}
      /\ job' = [job EXCEPT ![w] = NoJob] /\ pc' = [pc EXCEPT ![w] = "idle"]
      /\ UNCHANGED <<live, monitored, monitor, reconnects>>
      /\ mode' = IF s \in live THEN [mode EXCEPT ![s] = ModeOf(s)] ELSE mode
  BY <1>0 DEF FinishRequest, Goto, monVars, recVars
<1>2. s \in Subs /\ w \in Threads
  BY <1>0, <1>1 DEF MonitorInv, JobInv, JobFits, Threads
<1>3. \A v \in Workers : v # w => job[v].sub # s
  BY <1>0, <1>2 DEF UseInv, RequestInv
<1>4. NoJob \in Job /\ NoJob.sub = NoSub /\ NoJob.rel = {} /\ NoJob.acq = {} /\ "idle" \in Labels
  BY DEF NoJob, Job, Labels
<1>5. Serves(w, s, "idle", NoJob)
  BY <1>0, <1>1, <1>3, <1>4 DEF Serves, Moves
<1>6. \A z, n : Uses(z, n)' <=> Uses(z, n)
  BY <1>1 DEF Uses
<1>7. NoSub # s /\ NoJob.sub # s
  BY <1>2, <1>4, WorkersAssumption
<1>8. ASSUME NEW n \in Nodes
      PROVE  Uses(s, n)' <=> \/ RelIn(NoJob, s, n)
                             \/ s \in live' /\ n \in monitored'[s] /\ ~AcqIn(NoJob, s, n)
  <2>1. ~Releasing(s, n) /\ ~Acquiring(s, n)
    BY <1>0, <1>1, <1>3 DEF Releasing, Acquiring
  <2>2. Uses(s, n) <=> s \in live /\ n \in monitored[s]
    BY <1>2, <2>1 DEF UseInv, CountInv
  <2> QED BY <1>1, <1>4, <1>6, <1>7, <2>2 DEF RelIn, AcqIn
<1>9. /\ \A z \in Subs : z # s => mode'[z] = mode[z]
      /\ s \in live => mode'[s] = ModeOf(s)
  BY <1>1, <1>2 DEF MonitorInv, SubTypes
<1>10. ASSUME s \in live', mode'[s] = "native"
       PROVE  \A n \in monitored'[s] : monitor'[n] # NoMonitor /\ monitor'[n].mode = "native"
  <2>1. ModeOf(s) = "native"
    BY <1>1, <1>9, <1>10
  <2>2. \A n \in monitored[s] : monitor[n] # NoMonitor /\ monitor[n].mode = "native"
    BY <2>1 DEF ModeOf
  <2> QED BY <1>1, <2>2
<1>11. \A n \in Nodes : monitor'[n] # NoMonitor => monitor'[n].subs # {}
  BY <1>1 DEF UseInv, CountInv
<1>12. \A z \in Subs, n \in Nodes : z # s /\ Uses(z, n) /\ monitor[n].mode = "native" =>
                                       monitor'[n] # NoMonitor /\ monitor'[n].mode = "native"
  BY <1>1 DEF Uses
<1> QED BY <1>1, <1>2, <1>4, <1>5, <1>6, <1>8, <1>9, <1>10, <1>11, <1>12, ServeUse

\* Within a request of s the step concerns one node n: it is no longer to be released, or to be
\* acquired, and the monitor of n counts s accordingly.
LEMMA NodeUse ==
  ASSUME MonitorInv, UseInv, NEW w \in Workers, NEW s \in Subs, s = job[w].sub, NEW n \in Nodes,
         NEW l \in Labels, l # "idle", NEW j \in Job, Moves(w, l, j), j.sub = s,
         \/ n \in job[w].rel /\ j.rel = job[w].rel \ {n} /\ j.acq = job[w].acq /\ ~Uses(s, n)'
         \/ n \in job[w].acq /\ n \notin j.rel /\ j.rel = job[w].rel
            /\ j.acq = job[w].acq \ {n} /\ Uses(s, n)',
         UNCHANGED <<live, monitored, mode, reconnects>>,
         \A m \in Nodes : m # n => monitor'[m] = monitor[m],
         monitor'[n] # NoMonitor => monitor'[n].subs # {},
         \A z \in Subs : z # s => (Uses(z, n)' <=> Uses(z, n)),
         \A z \in Subs : z # s /\ Uses(z, n) /\ monitor[n].mode = "native" =>
                            monitor'[n] # NoMonitor /\ monitor'[n].mode = "native"
  PROVE  UseInv'
<1>1. \A v \in Workers : v # w => job[v].sub # s
  BY DEF UseInv, RequestInv
<1>2. /\ \A m \in job[w].rel : s \in live => m \notin monitored[s]
      /\ \A m \in job[w].acq : s \in live /\ m \in monitored[s]
  BY DEF UseInv, RequestInv
<1>3. Serves(w, s, l, j)
  BY <1>1, <1>2 DEF Serves
<1>4. \A z \in Subs, m \in Nodes : m # n => (Uses(z, m)' <=> Uses(z, m))
  BY DEF Uses
<1>5. \A z \in Subs, m \in Nodes : z # s => (Uses(z, m)' <=> Uses(z, m))
  BY <1>4
<1>6. ASSUME NEW m \in Nodes
      PROVE  Uses(s, m)' <=> \/ RelIn(j, s, m)
                             \/ s \in live' /\ m \in monitored'[s] /\ ~AcqIn(j, s, m)
  <2>1. CASE m # n
    <3>1. /\ Releasing(s, m) <=> m \in job[w].rel
          /\ Acquiring(s, m) <=> m \in job[w].acq
      BY <1>1 DEF Releasing, Acquiring
    <3>2. Uses(s, m) <=> m \in job[w].rel \/ (s \in live /\ m \in monitored[s] /\ m \notin job[w].acq)
      BY <3>1 DEF UseInv, CountInv
    <3>3. Uses(s, m)' <=> Uses(s, m)
      BY <1>4, <2>1
    <3> QED BY <2>1, <3>2, <3>3 DEF RelIn, AcqIn
  <2>2. CASE m = n
    BY <1>2, <2>2 DEF RelIn, AcqIn
  <2> QED BY <2>1, <2>2
<1>7. \A m \in Nodes : monitor'[m] # NoMonitor => monitor'[m].subs # {}
  BY DEF UseInv, CountInv
<1>8. \A z \in Subs, m \in Nodes : z # s /\ Uses(z, m) /\ monitor[m].mode = "native" =>
                                      monitor'[m] # NoMonitor /\ monitor'[m].mode = "native"
  BY DEF Uses
<1> QED BY <1>3, <1>5, <1>6, <1>7, <1>8, ServeUse

\* The locals of a task that has released node n.
LEMMA ReleaseLocals ==
  ASSUME MonitorInv, NEW w \in Workers, NEW n \in Nodes, ReleaseNode(w, n)
  PROVE  \E l \in Labels : \E j \in Job :
            /\ l # "idle" /\ Moves(w, l, j)
            /\ j.sub = job[w].sub /\ j.rel = job[w].rel \ {n} /\ j.acq = job[w].acq
<1>1. w \in Threads /\ job[w] \in Job /\ job \in [Threads -> Job]
  BY DEF MonitorInv, TaskTypes, Threads
<1>2. CASE job' = [job EXCEPT ![w].rel = @ \ {n}] /\ Goto(w, "release")
  <2> DEFINE j == [job[w] EXCEPT !.rel = @ \ {n}]
  <2>1. j \in Job /\ j.sub = job[w].sub /\ j.rel = job[w].rel \ {n} /\ j.acq = job[w].acq
    BY <1>1 DEF Job
  <2>2. job' = [job EXCEPT ![w] = j]
    BY <1>1, <1>2
  <2> HIDE DEF j
  <2>3. "release" \in Labels /\ Moves(w, "release", j)
    BY <1>2, <2>2 DEF Labels, Moves, Goto
  <2> QED BY <2>1, <2>3
<1>3. ASSUME NEW b \in BinIds, NEW g \in BOOLEAN, StopJob(w, n, b, g), Goto(w, "stop")
      PROVE  \E l \in Labels : \E j \in Job :
                /\ l # "idle" /\ Moves(w, l, j)
                /\ j.sub = job[w].sub /\ j.rel = job[w].rel \ {n} /\ j.acq = job[w].acq
  <2> DEFINE j == [job[w] EXCEPT !.rel = @ \ {n}, !.node = n, !.bin = b, !.new = g]
  <2>1. b \in Nat
    BY DEF BinIds
  <2>2. j \in Job /\ j.sub = job[w].sub /\ j.rel = job[w].rel \ {n} /\ j.acq = job[w].acq
    BY <1>1, <2>1 DEF Job
  <2>3. job' = [job EXCEPT ![w] = j]
    BY <1>1, <1>3 DEF StopJob
  <2> HIDE DEF j
  <2>4. "stop" \in Labels /\ Moves(w, "stop", j)
    BY <1>3, <2>3 DEF Labels, Moves, Goto
  <2> QED BY <2>2, <2>4
<1> QED BY <1>2, <1>3, ReleaseCases

\* _release_node_monitor.
LEMMA ReleaseNodeUse ==
  ASSUME MonitorInv, UseInv, NEW w \in Workers, NEW n \in Nodes, ReleaseNode(w, n)
  PROVE  UseInv'
<1>0. PICK s : s = job[w].sub
  OBVIOUS
<1>1. /\ pc[w] = "release" /\ n \in job[w].rel /\ UNCHANGED <<live, monitored, mode, reconnects>>
      /\ monitor' = IF monitor[n] = NoMonitor THEN monitor
                    ELSE [monitor EXCEPT ![n] = IF monitor[n].subs \ {s} = {} THEN NoMonitor
                                                ELSE [monitor[n] EXCEPT !.subs = monitor[n].subs \ {s}]]
  BY <1>0 DEF ReleaseNode, subVars, recVars
<1>2. s \in Subs /\ w \in Threads
  BY <1>0, <1>1 DEF MonitorInv, JobInv, JobFits, Threads
<1>3. PICK l \in Labels, j \in Job :
         /\ l # "idle" /\ Moves(w, l, j)
         /\ j.sub = job[w].sub /\ j.rel = job[w].rel \ {n} /\ j.acq = job[w].acq
  BY ReleaseLocals
<1>4. monitor \in [Nodes -> MonitorRecord \cup {NoMonitor}]
  BY DEF MonitorInv, RegistryTypes
<1>5. monitor[n] # NoMonitor
  <2>1. Releasing(s, n)
    BY <1>0, <1>1 DEF Releasing
  <2> QED BY <1>2, <2>1 DEF UseInv, CountInv, Uses
<1>6. \A m \in Nodes : m # n => monitor'[m] = monitor[m]
  BY <1>1, <1>4, <1>5
<1>7. CASE monitor[n].subs \ {s} = {}
  <2>1. monitor'[n] = NoMonitor
    BY <1>1, <1>4, <1>5, <1>7
  <2>2. \A z \in Subs : ~Uses(z, n)' /\ (z # s => ~Uses(z, n))
    BY <1>7, <2>1 DEF Uses
  <2> QED BY <1>0, <1>1, <1>2, <1>3, <1>6, <2>1, <2>2, NodeUse
<1>8. CASE monitor[n].subs \ {s} # {}
  <2> DEFINE r == [monitor[n] EXCEPT !.subs = monitor[n].subs \ {s}]
  <2>1. /\ r \in MonitorRecord /\ r.subs = monitor[n].subs \ {s} /\ r.mode = monitor[n].mode
    BY <1>4, <1>5 DEF MonitorRecord
  <2>2. monitor'[n] = r
    BY <1>1, <1>4, <1>5, <1>8
  <2> HIDE DEF r
  <2>3. r # NoMonitor
    BY <2>1, NoMonitorAssumption
  <2>4. ~Uses(s, n)' /\ \A z \in Subs : z # s => (Uses(z, n)' <=> Uses(z, n))
    BY <1>5, <2>1, <2>2, <2>3 DEF Uses
  <2> QED BY <1>0, <1>1, <1>2, <1>3, <1>6, <1>8, <2>1, <2>2, <2>3, <2>4, NodeUse
<1> QED BY <1>7, <1>8

\* _acquire_node_monitor.
LEMMA AcquireNodeUse ==
  ASSUME MonitorInv, UseInv, NEW w \in Workers, NEW n \in Nodes, AcquireNode(w, n)
  PROVE  UseInv'
<1>0. PICK s : s = job[w].sub
  OBVIOUS
<1>1. /\ pc[w] = "release" /\ job[w].rel = {} /\ n \in job[w].acq
      /\ UNCHANGED <<live, monitored, mode, reconnects>>
  BY DEF AcquireNode, subVars, recVars
<1>2. s \in Subs /\ w \in Threads /\ job[w] \in Job /\ job \in [Threads -> Job]
  BY <1>0, <1>1 DEF MonitorInv, JobInv, JobFits, TaskTypes, Threads
<1>3. monitor \in [Nodes -> MonitorRecord \cup {NoMonitor}] /\ monitors \in Nat
  BY DEF MonitorInv, RegistryTypes
<1>4. CASE monitor[n] # NoMonitor
  <2> DEFINE r == AddSubscriber(monitor[n], s)
             j == [job[w] EXCEPT !.acq = @ \ {n}]
  <2>1. /\ r \in MonitorRecord /\ r.subs = monitor[n].subs \cup {s} /\ r.mode = monitor[n].mode
    BY <1>2, <1>3, <1>4 DEF MonitorRecord, AddSubscriber
  <2>2. j \in Job /\ j.sub = job[w].sub /\ j.rel = job[w].rel /\ j.acq = job[w].acq \ {n}
    BY <1>2 DEF Job
  <2>3. monitor' = [monitor EXCEPT ![n] = r] /\ job' = [job EXCEPT ![w] = j] /\ Goto(w, "release")
    BY <1>0, <1>2, <1>4 DEF AcquireNode
  <2> HIDE DEF r, j
  <2>4. monitor'[n] = r /\ r # NoMonitor /\ \A m \in Nodes : m # n => monitor'[m] = monitor[m]
    BY <1>3, <2>1, <2>3, NoMonitorAssumption
  <2>5. Uses(s, n)' /\ \A z \in Subs : z # s => (Uses(z, n)' <=> Uses(z, n))
    BY <1>4, <2>1, <2>4 DEF Uses
  <2>6. "release" \in Labels /\ Moves(w, "release", j)
    BY <2>3 DEF Labels, Moves, Goto
  <2> QED BY <1>0, <1>1, <1>2, <2>1, <2>2, <2>4, <2>5, <2>6, NodeUse
<1>5. CASE monitor[n] = NoMonitor
  <2> DEFINE i == monitors + 1
             r == [id |-> i, mode |-> "idle", subs |-> {s}, bin |-> 0]
             j == [job[w] EXCEPT !.acq = @ \ {n}, !.node = n, !.id = i]
  <2>1. r \in MonitorRecord /\ r.subs = {s} /\ i \in Nat
    BY <1>2, <1>3 DEF MonitorRecord
  <2>2. monitor' = [monitor EXCEPT ![n] = r] /\ Goto(w, "start")
    BY <1>0, <1>5 DEF AcquireNode
  <2>3. job' = [job EXCEPT ![w].acq = @ \ {n}, ![w].node = n, ![w].id = i]
    BY <1>5 DEF AcquireNode
  <2> HIDE DEF r, i
  <2>4. j \in Job /\ j.sub = job[w].sub /\ j.rel = job[w].rel /\ j.acq = job[w].acq \ {n}
    BY <1>2, <2>1 DEF Job
  <2>5. job' = [job EXCEPT ![w] = j]
    BY <1>2, <2>3
  <2> HIDE DEF j
  <2>6. monitor'[n] = r /\ r # NoMonitor /\ \A m \in Nodes : m # n => monitor'[m] = monitor[m]
    BY <1>3, <2>1, <2>2, NoMonitorAssumption
  <2>7. Uses(s, n)' /\ \A z \in Subs : z # s => ~Uses(z, n)' /\ ~Uses(z, n)
    BY <1>5, <2>1, <2>6 DEF Uses
  <2>8. "start" \in Labels /\ Moves(w, "start", j)
    BY <2>2, <2>5 DEF Labels, Moves, Goto
  <2> QED BY <1>0, <1>1, <1>2, <2>1, <2>4, <2>6, <2>7, <2>8, NodeUse
<1> QED BY <1>4, <1>5

-----------------------------------------------------------------------------
(* The invariant and the theorems                                           *)

\* Init: no monitor and no request.
LEMMA InitUse == Init => UseInv
<1> SUFFICES ASSUME Init PROVE UseInv
  OBVIOUS
<1>1. \A w \in Workers : w \in Threads /\ job[w] = NoJob
  BY DEF Init, Threads
<1>2. NoJob.sub = NoSub /\ NoJob.rel = {} /\ NoJob.acq = {}
  BY DEF NoJob
<1>3. \A w \in Workers : job[w].sub \notin Subs /\ job[w].rel = {} /\ job[w].acq = {}
  BY <1>1, <1>2, WorkersAssumption
<1>4. RequestInv
  BY <1>1, <1>3 DEF RequestInv
<1>5. /\ \A n \in Nodes : monitor[n] = NoMonitor
      /\ \A s \in Subs : monitored[s] = {} /\ mode[s] = "idle"
      /\ live = Subs
  BY DEF Init
<1>6. \A s, n : ~Releasing(s, n)
  BY <1>3 DEF Releasing
<1>7. CountInv
  BY <1>5, <1>6 DEF CountInv, Uses
<1>8. ModeInv
  BY <1>5 DEF ModeInv
<1> QED BY <1>4, <1>7, <1>8 DEF UseInv

\* Every step keeps the invariant, where the requests of a subscription do not overlap.
LEMMA NextUse == Serial /\ MonitorInv /\ UseInv /\ [Next]_vars => UseInv'
<1> SUFFICES ASSUME Serial, MonitorInv, UseInv, [Next]_vars PROVE UseInv'
  OBVIOUS
<1>1. ASSUME NEW w \in Workers, Request(w) PROVE UseInv'
  BY <1>1, SetMonitoredUse, RemoveSubscriptionUse DEF Request, RegisterItems, UnregisterItems
<1>2. ASSUME NEW w \in Workers, WorkerStep(w) PROVE UseInv'
  <2>1. w \in Threads
    BY DEF Threads
  <2> QED BY <1>2, <2>1, ReleaseNodeUse, AcquireNodeUse, StopRuntimeUse, StartUse,
             FinishRequestUse DEF WorkerStep
<1>3. ASSUME NEW kept \in [BinIds -> SUBSET Nodes], Reconnect(kept) PROVE UseInv'
  BY <1>3, ReconnectUse
<1>4. CASE ReconnectStep
  BY <1>4, ListenerUse
<1>5. CASE BackoffEnds \/ UNCHANGED vars
  <2>1. UNCHANGED <<live, monitored, mode, monitor, reconnects, pc, job>>
    BY <1>5 DEF BackoffEnds, vars, subVars, monVars, recVars, taskVars
  <2>2. SameRequests
    BY <2>1 DEF SameRequests
  <2> QED BY <2>1, <2>2, MonitorsSame, UseKept
<1> QED BY <1>1, <1>2, <1>3, <1>4, <1>5 DEF Next

\* The subscribers a monitor counts are those that monitor its node, up to the requests in
\* progress.
THEOREM SubscribersAreCounted == Serial => (Spec => [](MonitorInv /\ UseInv))
<1> SUFFICES ASSUME Serial PROVE Spec => [](MonitorInv /\ UseInv)
  OBVIOUS
<1>1. Init => MonitorInv /\ UseInv
  BY InitHolds, InitUse
<1>2. MonitorInv /\ UseInv /\ [Next]_vars => (MonitorInv /\ UseInv)'
  BY NextKeeps, NextUse
<1> QED BY <1>1, <1>2, PTL DEF Spec

\* When nothing is in progress no request has anything left to do.
LEMMA QuietRequests ==
  ASSUME UseInv, Quiet
  PROVE  /\ \A s, n : ~Releasing(s, n) /\ ~Acquiring(s, n)
         /\ \A s \in Subs, w \in Workers : job[w].sub # s
<1>1. \A w \in Workers : job[w] = NoJob
  BY DEF Quiet, Threads, UseInv, RequestInv
<1>2. NoJob.sub = NoSub /\ NoJob.rel = {} /\ NoJob.acq = {}
  BY DEF NoJob
<1> QED BY <1>1, <1>2, WorkersAssumption DEF Releasing, Acquiring

\* service.py, _acquire_node_monitor and _release_node_monitor: when nothing is in progress a
\* node has a monitor exactly when some live subscription monitors it, and those are its
\* subscribers, whatever was registered, unregistered, deleted, lost or refused before.
THEOREM ReferencesAreCounted == Serial => (Spec => []ReferenceCounted)
<1> SUFFICES ASSUME Serial PROVE Spec => []ReferenceCounted
  OBVIOUS
<1>1. MonitorInv /\ UseInv => ReferenceCounted
  <2> SUFFICES ASSUME MonitorInv, UseInv, Quiet, NEW n \in Nodes
               PROVE  LET users == {s \in live : n \in monitored[s]} IN
                      IF users = {} THEN monitor[n] = NoMonitor
                      ELSE monitor[n] # NoMonitor /\ monitor[n].subs = users
    BY DEF ReferenceCounted
  <2> DEFINE users == {s \in live : n \in monitored[s]}
  <2>1. \A s \in Subs : Uses(s, n) <=> s \in live /\ n \in monitored[s]
    BY QuietRequests DEF UseInv, CountInv
  <2>2. live \subseteq Subs /\ (monitor[n] # NoMonitor => monitor[n].subs \subseteq Subs)
    BY DEF MonitorInv, SubTypes, RegistryTypes, MonitorRecord
  <2>3. monitor[n] # NoMonitor => monitor[n].subs # {} /\ monitor[n].subs = users
    BY <2>1, <2>2 DEF Uses, UseInv, CountInv
  <2>4. monitor[n] = NoMonitor => users = {}
    BY <2>1, <2>2 DEF Uses
  <2> QED BY <2>3, <2>4
<1> QED BY <1>1, SubscribersAreCounted, PTL

\* service.py, _update_subscription_mode: until the first reconnect, a subscription that
\* reports native mode when nothing is in progress has native monitors only, although other
\* requests have started, stopped and shared those monitors since it computed the mode.
THEOREM NativeModesAreTrue == Serial => (Spec => []NativeModeIsTrue)
<1> SUFFICES ASSUME Serial PROVE Spec => []NativeModeIsTrue
  OBVIOUS
<1>1. MonitorInv /\ UseInv => NativeModeIsTrue
  <2>1. ASSUME MonitorInv, UseInv, Quiet, reconnects = 0
        PROVE  \A s \in live : mode[s] = "native" =>
                  \A n \in monitored[s] : monitor[n] # NoMonitor /\ monitor[n].mode = "native"
    <3>1. \A s \in live, w \in Workers : job[w].sub # s
      BY <2>1, QuietRequests DEF MonitorInv, SubTypes
    <3> QED BY <2>1, <3>1 DEF UseInv, ModeInv
  <2> QED BY <2>1 DEF NativeModeIsTrue
<1> QED BY <1>1, SubscribersAreCounted, PTL
================================================================================
