--------------------------- MODULE ValueFlow_proofs ---------------------------
(***************************************************************************)
(* Theorems about ValueFlow, for any subscriptions, nodes, queue size and   *)
(* number of changes, failures and requests.                                *)
(***************************************************************************)
EXTENDS ValueFlow, FiniteSetTheorems, TLAPS

-----------------------------------------------------------------------------
(* The types, in three groups                                               *)

ServerTypes ==
    /\ current \in [Nodes -> 0 .. MaxChange] /\ due \subseteq Nodes
    /\ mode \in [Nodes -> {"none", "native", "polling"}]
    /\ subscribers \in [Nodes -> SUBSET Subs]
    /\ monitored \in [Subs -> SUBSET Nodes]
    /\ pending \in [Subs -> SUBSET Nodes]
    /\ requests \in Nat /\ failures \in Nat

Fan == [value : Value \cup {NoValue}, subs : SUBSET Subs]

TaskTypes ==
    /\ datachanges \in Seq(Value) /\ Len(datachanges) <= QueueSize
    /\ fanout \in [Fans -> Fan]
    /\ polled \in Read /\ refresh \in [Subs -> Read]

RecordTypes == last_values \in [Subs -> [Nodes -> Value \cup {NoValue}]]

FlowInv == ServerTypes /\ TaskTypes /\ RecordTypes /\ OnlyMonitoredRecorded

\* The groups are the type invariant.
LEMMA TypesSplit == FlowInv => RecordsClean
BY DEF FlowInv, ServerTypes, TaskTypes, RecordTypes, RecordsClean, TypeOK, Fan

\* Initially nothing is monitored, queued, read or recorded.
LEMMA InitFlowInv == Init => FlowInv
<1> SUFFICES ASSUME Init PROVE FlowInv
  OBVIOUS
<1>1. ServerTypes
  BY FlowBoundsAssumption DEF Init, ServerTypes
<1>2. Idle \in Fan /\ NoRead \in Read
  BY DEF Idle, Fan, NoRead, Read
<1>3. <<>> \in Seq(Value) /\ Len(<<>>) <= QueueSize
  BY QueueSizeAssumption
<1>4. TaskTypes
  BY <1>2, <1>3 DEF Init, TaskTypes
<1>5. RecordTypes
  BY DEF Init, RecordTypes
<1>6. OnlyMonitoredRecorded
  BY DEF Init, OnlyMonitoredRecorded
<1> QED BY <1>1, <1>4, <1>5, <1>6 DEF FlowInv

-----------------------------------------------------------------------------
(* The operators                                                            *)

\* A full queue loses its oldest event, so that one more fits.
LEMMA OfferKeeps ==
  ASSUME NEW q \in Seq(Value), Len(q) <= QueueSize, NEW e \in Value
  PROVE  Offer(q, e) \in Seq(Value) /\ Len(Offer(q, e)) <= QueueSize
<1>1. CASE Len(q) >= QueueSize
  <2>1. q # <<>>
    BY <1>1, QueueSizeAssumption
  <2>2. Tail(q) \in Seq(Value) /\ Len(Tail(q)) = Len(q) - 1
    BY <2>1
  <2>3. /\ Append(Tail(q), e) \in Seq(Value)
        /\ Len(Append(Tail(q), e)) = Len(q)
    BY <2>2
  <2> QED BY <1>1, <2>3 DEF Offer
<1>2. CASE ~(Len(q) >= QueueSize)
  <2>1. Append(q, e) \in Seq(Value) /\ Len(Append(q, e)) = Len(q) + 1
    OBVIOUS
  <2> QED BY <1>2, <2>1, QueueSizeAssumption DEF Offer
<1> QED BY <1>1, <1>2

\* What a read gives is a value of its node.
LEMMA AnswersAreValues ==
  ASSUME ServerTypes, NEW n \in Nodes, NEW v \in Answers(n)
  PROVE  v \in Value /\ v.node = n
<1>1. current[n] \in 0 .. MaxChange
  BY DEF ServerTypes
<1>2. PICK c \in (0 .. MaxChange) \cup {Null} : v = [node |-> n, change |-> c]
  BY <1>1 DEF Answers
<1> QED BY <1>2 DEF Value

\* A value goes to its own node, or to the only one there is.
LEMMA ResolveOwnOrOnly ==
  ASSUME ServerTypes, NEW s \in Subs, NEW n, NEW m \in Resolve(s, n)
  PROVE  m \in monitored[s] /\ (m # n => n \notin monitored[s] /\ monitored[s] = {m})
<1>1. CASE n \in monitored[s]
  BY <1>1 DEF Resolve
<1>2. CASE n \notin monitored[s]
  <2>1. Cardinality(monitored[s]) = 1 /\ m \in monitored[s]
    BY <1>2 DEF Resolve
  <2>2. monitored[s] \subseteq Nodes
    BY DEF ServerTypes
  <2>3. IsFiniteSet(monitored[s])
    BY <2>2, NodesAssumption, FS_Subset
  <2>4. PICK x : monitored[s] = {x}
    BY <2>1, <2>3, FS_Singleton
  <2> QED BY <1>2, <2>1, <2>4
<1> QED BY <1>1, <1>2

-----------------------------------------------------------------------------
(* Every step                                                               *)

\* What WrongNodeOnlyWhenAlone says of a step.
Alone ==
    \A s \in Subs, n \in Nodes :
      LET new == last_values'[s][n] IN
      new # last_values[s][n] /\ new # NoValue /\ new.node # n =>
         new.node \notin monitored[s] /\ monitored[s] = {n}

\* A step that records nothing and registers nothing.
LEMMA NothingRecorded ==
  ASSUME FlowInv, UNCHANGED <<monitored, last_values>>
  PROVE  RecordTypes' /\ OnlyMonitoredRecorded' /\ Alone
BY DEF FlowInv, RecordTypes, OnlyMonitoredRecorded, Alone

\* A step that is not one of the server or of a request.
LEMMA ServerUntouched ==
  ASSUME FlowInv, UNCHANGED <<serverVars, registryVars>>, failures' \in Nat
  PROVE  ServerTypes' /\ UNCHANGED monitored
<1>1. UNCHANGED <<current, due, mode, subscribers, monitored, pending, requests>>
  BY DEF serverVars, registryVars
<1> QED BY <1>1 DEF FlowInv, ServerTypes

\* The server's value changes, and is reported to the queue.
LEMMA ServerStepKeeps ==
  ASSUME FlowInv, NEW n \in Nodes, Change(n) \/ Notification(n)
  PROVE  FlowInv' /\ Alone
<1>1. CASE Change(n)
  <2>1. UNCHANGED <<mode, subscribers, monitored, pending, requests, last_values,
                    datachanges, fanout, polled, refresh, failures>>
    BY <1>1 DEF Change, registryVars, taskVars
  <2>2. current' \in [Nodes -> 0 .. MaxChange] /\ due' \subseteq Nodes
    <3>1. current[n] + 1 \in 0 .. MaxChange /\ current \in [Nodes -> 0 .. MaxChange]
      BY <1>1, FlowBoundsAssumption DEF Change, FlowInv, ServerTypes
    <3>2. current' = [current EXCEPT ![n] = current[n] + 1]
      BY <1>1 DEF Change
    <3>3. due' \subseteq due \cup {n}
      BY <1>1 DEF Change
    <3> QED BY <3>1, <3>2, <3>3 DEF FlowInv, ServerTypes
  <2>3. ServerTypes' /\ TaskTypes'
    BY <2>1, <2>2 DEF FlowInv, ServerTypes, TaskTypes, Read, Fan, Value
  <2> QED BY <2>1, <2>3, NothingRecorded DEF FlowInv
<1>2. CASE Notification(n)
  <2> DEFINE e == [node |-> n, change |-> current[n]]
  <2>1. UNCHANGED <<current, mode, subscribers, monitored, pending, requests, last_values,
                    fanout, polled, refresh, failures>>
    BY <1>2 DEF Notification, registryVars
  <2>2. e \in Value
    BY DEF FlowInv, ServerTypes, Value
  <2>3. datachanges' = Offer(datachanges, e) /\ due' \subseteq due
    BY <1>2 DEF Notification
  <2> HIDE DEF e
  <2>4. datachanges' \in Seq(Value) /\ Len(datachanges') <= QueueSize
    BY <2>2, <2>3, OfferKeeps DEF FlowInv, TaskTypes
  <2>5. ServerTypes' /\ TaskTypes'
    BY <2>1, <2>3, <2>4 DEF FlowInv, ServerTypes, TaskTypes, Read, Fan, Value
  <2> QED BY <2>1, <2>5, NothingRecorded DEF FlowInv
<1> QED BY <1>1, <1>2

\* A fan-out that starts has a value and the subscribers of its node.
LEMMA FanoutType ==
  ASSUME FlowInv, NEW f \in Fans, NEW v \in Value, Fanout(f, v)
  PROVE  fanout' \in [Fans -> Fan]
<1>1. subscribers[v.node] \subseteq Subs
  BY DEF FlowInv, ServerTypes, Value
<1> DEFINE x == IF subscribers[v.node] = {} THEN Idle ELSE [value |-> v, subs |-> subscribers[v.node]]
<1>2. x \in Fan
  BY <1>1 DEF Idle, Fan
<1>3. fanout' = [fanout EXCEPT ![f] = x]
  BY DEF Fanout
<1> HIDE DEF x
<1> QED BY <1>2, <1>3 DEF FlowInv, TaskTypes

\* One of the copied subscribers gets the value, or drops it.
LEMMA HandleDatachangeKeeps ==
  ASSUME FlowInv, NEW f \in Fans, NEW s \in Subs, HandleDatachange(f, s)
  PROVE  FlowInv' /\ Alone
<1> DEFINE v == fanout[f].value
           new == [n \in Nodes |-> IF n \in Resolve(s, v.node) THEN v ELSE last_values[s][n]]
           x == IF fanout[f].subs = {s} THEN Idle
                ELSE [value |-> v, subs |-> fanout[f].subs \ {s}]
<1>1. /\ last_values' = [last_values EXCEPT ![s] = new] /\ fanout' = [fanout EXCEPT ![f] = x]
      /\ UNCHANGED <<serverVars, registryVars, datachanges, polled, refresh, failures>>
  BY DEF HandleDatachange
<1>2. fanout[f] \in Fan /\ v \in Value \cup {NoValue}
  BY DEF FlowInv, TaskTypes, Fan
<1>3. x \in Fan
  BY <1>2 DEF Fan, Idle
<1> HIDE DEF x
<1>4. ServerTypes' /\ UNCHANGED monitored
  <2>1. failures' \in Nat
    BY <1>1 DEF FlowInv, ServerTypes
  <2> QED BY <1>1, <2>1, ServerUntouched
<1>5. TaskTypes'
  <2>1. fanout' \in [Fans -> Fan]
    BY <1>1, <1>3 DEF FlowInv, TaskTypes
  <2> QED BY <1>1, <2>1 DEF FlowInv, TaskTypes
<1>6. /\ last_values'[s] = new
      /\ \A q \in Subs : q # s => last_values'[q] = last_values[q]
  BY <1>1 DEF FlowInv, RecordTypes
<1>7. RecordTypes'
  <2>1. new \in [Nodes -> Value \cup {NoValue}]
    BY <1>2 DEF FlowInv, RecordTypes
  <2> HIDE DEF new
  <2> QED BY <1>1, <2>1 DEF FlowInv, RecordTypes
<1>8. \A n \in Resolve(s, v.node) :
         n \in monitored[s] /\ (n # v.node => v.node \notin monitored[s] /\ monitored[s] = {n})
  BY ResolveOwnOrOnly DEF FlowInv
<1>9. \A n \in Nodes : new[n] = IF n \in Resolve(s, v.node) THEN v ELSE last_values[s][n]
  OBVIOUS
<1> HIDE DEF new, v
<1>10. OnlyMonitoredRecorded'
  BY <1>4, <1>6, <1>8, <1>9 DEF FlowInv, OnlyMonitoredRecorded
<1>11. Alone
  BY <1>6, <1>8, <1>9 DEF Alone
<1> QED BY <1>4, <1>5, <1>7, <1>10, <1>11 DEF FlowInv

\* The dispatch task takes the next event.
LEMMA DispatchKeeps == ASSUME FlowInv, Dispatch PROVE FlowInv' /\ Alone
<1>1. /\ datachanges # <<>> /\ Fanout("dispatch", Head(datachanges))
      /\ datachanges' = Tail(datachanges)
      /\ UNCHANGED <<serverVars, registryVars, last_values, polled, refresh, failures>>
  BY DEF Dispatch
<1>2. datachanges \in Seq(Value) /\ Len(datachanges) <= QueueSize
  BY DEF FlowInv, TaskTypes
<1>3. /\ Head(datachanges) \in Value /\ Tail(datachanges) \in Seq(Value)
      /\ Len(Tail(datachanges)) <= QueueSize
  BY <1>1, <1>2, QueueSizeAssumption
<1>4. fanout' \in [Fans -> Fan]
  BY <1>1, <1>3, FanoutType DEF Fans
<1>5. TaskTypes'
  BY <1>1, <1>3, <1>4 DEF FlowInv, TaskTypes
<1>6. ServerTypes' /\ UNCHANGED monitored
  <2>1. failures' \in Nat
    BY <1>1 DEF FlowInv, ServerTypes
  <2> QED BY <1>1, <2>1, ServerUntouched
<1> QED BY <1>1, <1>5, <1>6, NothingRecorded DEF FlowInv

\* A read that goes on: one node less to read, one value more.
LEMMA ReadGoesOn ==
  ASSUME FlowInv, NEW r \in Read, NEW n \in Nodes, NEW v \in Answers(n)
  PROVE  [nodes |-> r.nodes \ {n}, values |-> r.values \cup {v}] \in Read
<1>1. v \in Value
  BY AnswersAreValues DEF FlowInv
<1> QED BY <1>1 DEF Read

\* The shared polling loop: its reads and their failure.
LEMMA PollKeeps ==
  ASSUME FlowInv,
         PollBegin \/ PollFail \/ (\E n \in Nodes : PollRead(n)) \/ (\E v \in polled.values : PollFanout(v))
  PROVE  FlowInv' /\ Alone
<1>1. /\ UNCHANGED <<serverVars, registryVars, last_values, datachanges, refresh>>
      /\ failures' \in {failures, failures + 1}
  BY DEF PollBegin, PollFail, PollRead, PollFanout, Failing
<1>2. polled \in Read /\ polled.values \subseteq Value
  BY DEF FlowInv, TaskTypes, Read
<1>3. polled' \in Read
  <2>1. CASE PollBegin
    BY <2>1 DEF PollBegin, Polled, Read
  <2>2. CASE PollFail
    BY <2>2 DEF PollFail, NoRead, Read
  <2>3. ASSUME NEW n \in Nodes, PollRead(n) PROVE polled' \in Read
    BY <1>2, <2>3, ReadGoesOn DEF PollRead
  <2>4. ASSUME NEW v \in polled.values, PollFanout(v) PROVE polled' \in Read
    <3>1. polled' = [polled EXCEPT !.values = polled.values \ {v}]
      BY <2>4 DEF PollFanout
    <3> QED BY <1>2, <3>1 DEF Read
  <2> QED BY <2>1, <2>2, <2>3, <2>4
<1>4. fanout' \in [Fans -> Fan]
  <2>1. ASSUME NEW v \in polled.values, PollFanout(v) PROVE fanout' \in [Fans -> Fan]
    BY <1>2, <2>1, FanoutType DEF PollFanout, Fans
  <2>2. CASE UNCHANGED fanout
    BY <2>2 DEF FlowInv, TaskTypes
  <2> QED BY <2>1, <2>2 DEF PollBegin, PollFail, PollRead
<1>5. TaskTypes'
  BY <1>1, <1>3, <1>4 DEF FlowInv, TaskTypes
<1>6. ServerTypes' /\ UNCHANGED monitored
  <2>1. failures' \in Nat
    BY <1>1 DEF FlowInv, ServerTypes
  <2> QED BY <1>1, <2>1, ServerUntouched
<1> QED BY <1>1, <1>5, <1>6, NothingRecorded DEF FlowInv

\* The reads of a refresh and their failure.
LEMMA RefreshReadKeeps ==
  ASSUME FlowInv, NEW s \in Subs,
         RefreshBegin(s) \/ RefreshFail(s) \/ (\E n \in Nodes : RefreshRead(s, n))
  PROVE  FlowInv' /\ Alone
<1>1. /\ UNCHANGED <<serverVars, registryVars, last_values, datachanges, fanout, polled>>
      /\ failures' \in {failures, failures + 1}
  BY DEF RefreshBegin, RefreshFail, RefreshRead, Failing
<1>2. refresh \in [Subs -> Read] /\ refresh[s] \in Read /\ monitored[s] \subseteq Nodes
  BY DEF FlowInv, TaskTypes, ServerTypes
<1>3. refresh' \in [Subs -> Read]
  <2>1. CASE RefreshBegin(s)
    <3>1. [refresh[s] EXCEPT !.nodes = monitored[s]] \in Read
      BY <1>2 DEF Read
    <3>2. refresh' = [refresh EXCEPT ![s] = [refresh[s] EXCEPT !.nodes = monitored[s]]]
      BY <2>1 DEF RefreshBegin
    <3> QED BY <1>2, <3>1, <3>2
  <2>2. CASE RefreshFail(s)
    <3>1. NoRead \in Read
      BY DEF NoRead, Read
    <3> QED BY <1>2, <2>2, <3>1 DEF RefreshFail
  <2>3. ASSUME NEW n \in Nodes, RefreshRead(s, n) PROVE refresh' \in [Subs -> Read]
    <3>1. PICK v \in Answers(n) :
             refresh' = [refresh EXCEPT ![s] = [nodes |-> refresh[s].nodes \ {n},
                                                values |-> refresh[s].values \cup {v}]]
      BY <2>3 DEF RefreshRead
    <3> QED BY <1>2, <3>1, ReadGoesOn
  <2> QED BY <2>1, <2>2, <2>3
<1>4. TaskTypes'
  BY <1>1, <1>3 DEF FlowInv, TaskTypes
<1>5. ServerTypes' /\ UNCHANGED monitored
  <2>1. failures' \in Nat
    BY <1>1 DEF FlowInv, ServerTypes
  <2> QED BY <1>1, <2>1, ServerUntouched
<1> QED BY <1>1, <1>4, <1>5, NothingRecorded DEF FlowInv

\* The values of a refresh are recorded, each under its own node if that is still monitored.
LEMMA RefreshAppendKeeps ==
  ASSUME FlowInv, NEW s \in Subs, RefreshAppend(s)
  PROVE  FlowInv' /\ Alone
<1> DEFINE read(n) == {v \in refresh[s].values : v.node = n /\ StillMonitored(s, v)}
           new == [n \in Nodes |-> IF read(n) = {} THEN last_values[s][n]
                                   ELSE CHOOSE v \in read(n) : TRUE]
<1>1. /\ last_values' = [last_values EXCEPT ![s] = new]
      /\ refresh' = [refresh EXCEPT ![s] = NoRead]
      /\ UNCHANGED <<serverVars, registryVars, datachanges, fanout, polled, failures>>
  BY DEF RefreshAppend
<1>2. refresh \in [Subs -> Read] /\ refresh[s].values \subseteq Value /\ NoRead \in Read
  BY DEF FlowInv, TaskTypes, Read, NoRead
<1>3. ASSUME NEW n \in Nodes
      PROVE  \/ new[n] = last_values[s][n]
             \/ new[n] \in Value /\ new[n].node = n /\ n \in monitored[s]
  <2>1. CASE read(n) = {}
    BY <2>1
  <2>2. CASE read(n) # {}
    <3>1. new[n] \in read(n)
      BY <2>2
    <3> QED BY <1>2, <3>1 DEF StillMonitored
  <2> QED BY <2>1, <2>2
<1>4. new \in [Nodes -> Value \cup {NoValue}]
  <2>1. \A n \in Nodes : new[n] \in Value \cup {NoValue}
    BY <1>3 DEF FlowInv, RecordTypes
  <2> QED BY <2>1
<1> HIDE DEF new
<1>5. ServerTypes' /\ UNCHANGED monitored
  <2>1. failures' \in Nat
    BY <1>1 DEF FlowInv, ServerTypes
  <2> QED BY <1>1, <2>1, ServerUntouched
<1>6. TaskTypes'
  BY <1>1, <1>2 DEF FlowInv, TaskTypes
<1>7. /\ last_values'[s] = new
      /\ \A q \in Subs : q # s => last_values'[q] = last_values[q]
  BY <1>1 DEF FlowInv, RecordTypes
<1>8. RecordTypes'
  BY <1>1, <1>4 DEF FlowInv, RecordTypes
<1>9. OnlyMonitoredRecorded'
  BY <1>3, <1>5, <1>7 DEF FlowInv, OnlyMonitoredRecorded
<1>10. Alone
  BY <1>3, <1>7 DEF Alone
<1> QED BY <1>5, <1>6, <1>8, <1>9, <1>10 DEF FlowInv

\* The section of a request that sets the node ids forgets the values of the others.
LEMMA SetMonitoredKeeps ==
  ASSUME FlowInv, NEW s \in Subs, NEW S \in SUBSET Nodes, SetMonitored(s, S)
  PROVE  FlowInv' /\ Alone
<1>1. /\ requests' = requests + 1 /\ monitored' = [monitored EXCEPT ![s] = S]
      /\ last_values' = [last_values EXCEPT ![s] = Forgotten(s, S)]
      /\ pending' = [pending EXCEPT ![s] = SymDiff(S, monitored[s])]
      /\ UNCHANGED <<current, due, mode, subscribers, datachanges, fanout, polled, refresh, failures>>
  BY DEF SetMonitored, serverVars, taskVars
<1>2. SymDiff(S, monitored[s]) \subseteq Nodes
  BY DEF SymDiff, FlowInv, ServerTypes
<1>3. /\ Forgotten(s, S) \in [Nodes -> Value \cup {NoValue}]
      /\ \A n \in Nodes : Forgotten(s, S)[n] = IF n \in S THEN last_values[s][n] ELSE NoValue
  BY DEF Forgotten, FlowInv, RecordTypes
<1>4. ServerTypes'
  <2>1. monitored' \in [Subs -> SUBSET Nodes] /\ pending' \in [Subs -> SUBSET Nodes]
    BY <1>1, <1>2 DEF FlowInv, ServerTypes
  <2> QED BY <1>1, <2>1 DEF FlowInv, ServerTypes
<1>5. TaskTypes'
  BY <1>1 DEF FlowInv, TaskTypes
<1>6. /\ last_values'[s] = Forgotten(s, S) /\ monitored'[s] = S
      /\ \A q \in Subs : q # s => last_values'[q] = last_values[q] /\ monitored'[q] = monitored[q]
  BY <1>1 DEF FlowInv, RecordTypes, ServerTypes
<1>7. RecordTypes'
  BY <1>1, <1>3 DEF FlowInv, RecordTypes
<1>8. OnlyMonitoredRecorded'
  BY <1>3, <1>6 DEF FlowInv, OnlyMonitoredRecorded
<1>9. Alone
  BY <1>3, <1>6 DEF Alone
<1> QED BY <1>4, <1>5, <1>7, <1>8, <1>9 DEF FlowInv

\* One node of a difference is released or acquired.
LEMMA ApplyDiffKeeps ==
  ASSUME FlowInv, NEW s \in Subs, NEW n \in Nodes, NEW m \in Modes, ApplyDiff(s, n, m)
  PROVE  FlowInv' /\ Alone
<1> DEFINE u == IF n \in monitored[s] THEN subscribers[n] \cup {s} ELSE subscribers[n] \ {s}
           k == IF subscribers'[n] = {} THEN "none" ELSE IF mode[n] = "none" THEN m ELSE mode[n]
<1>1. /\ pending' = [pending EXCEPT ![s] = pending[s] \ {n}]
      /\ subscribers' = [subscribers EXCEPT ![n] = u]
      /\ mode' = [mode EXCEPT ![n] = k]
      /\ due' \in {due, due \cup {n}, due \ {n}}
      /\ UNCHANGED <<current, monitored, last_values, requests, datachanges, fanout, polled, refresh,
                     failures>>
  <2>1. due' \in {due, due \cup {n}, due \ {n}}
    BY DEF ApplyDiff
  <2> QED BY <2>1 DEF ApplyDiff, taskVars
<1>2. u \subseteq Subs /\ k \in {"none", "native", "polling"}
  BY ModesAssumption DEF FlowInv, ServerTypes
<1> HIDE DEF u, k
<1>3. ServerTypes'
  <2>1. /\ pending' \in [Subs -> SUBSET Nodes] /\ subscribers' \in [Nodes -> SUBSET Subs]
        /\ mode' \in [Nodes -> {"none", "native", "polling"}]
    BY <1>1, <1>2 DEF FlowInv, ServerTypes
  <2>2. due' \subseteq Nodes
    BY <1>1 DEF FlowInv, ServerTypes
  <2> QED BY <1>1, <2>1, <2>2 DEF FlowInv, ServerTypes
<1>4. TaskTypes'
  BY <1>1 DEF FlowInv, TaskTypes
<1> QED BY <1>1, <1>3, <1>4, NothingRecorded DEF FlowInv

\* Every step keeps the invariant, and no step records a value wrongly.
LEMMA NextFlowInv == FlowInv /\ [Next]_vars => FlowInv' /\ (vars' # vars => Alone)
<1> SUFFICES ASSUME FlowInv, [Next]_vars PROVE FlowInv' /\ (vars' # vars => Alone)
  OBVIOUS
<1>1. CASE UNCHANGED vars
  <2>1. UNCHANGED <<serverVars, registryVars, last_values, datachanges, fanout, polled, refresh, failures>>
    BY <1>1 DEF vars, taskVars
  <2>2. ServerTypes' /\ UNCHANGED monitored
    <3>1. failures' \in Nat
      BY <2>1 DEF FlowInv, ServerTypes
    <3> QED BY <2>1, <3>1, ServerUntouched
  <2>3. TaskTypes'
    BY <2>1 DEF FlowInv, TaskTypes
  <2> QED BY <1>1, <2>1, <2>2, <2>3, NothingRecorded DEF FlowInv
<1>2. CASE \E n \in Nodes : Change(n) \/ Notification(n)
  BY <1>2, ServerStepKeeps
<1>3. CASE PollStep \/ PollFail \/ DispatchStep
  <2>1. "poll" \in Fans /\ "dispatch" \in Fans
    BY DEF Fans
  <2> QED BY <1>3, <2>1, PollKeeps, DispatchKeeps, HandleDatachangeKeeps DEF PollStep, DispatchStep
<1>4. ASSUME NEW s \in Subs, RefreshBegin(s) \/ RefreshStep(s) \/ RefreshFail(s)
      PROVE  FlowInv' /\ Alone
  BY <1>4, RefreshReadKeeps, RefreshAppendKeeps DEF RefreshStep
<1>5. ASSUME NEW s \in Subs, RequestStep(s) PROVE FlowInv' /\ Alone
  BY <1>5, ApplyDiffKeeps DEF RequestStep
<1>6. ASSUME NEW s \in Subs, NEW S \in SUBSET Nodes, SetMonitored(s, S) PROVE FlowInv' /\ Alone
  BY <1>6, SetMonitoredKeeps
<1> QED BY <1>1, <1>2, <1>3, <1>4, <1>5, <1>6 DEF Next

-----------------------------------------------------------------------------
(* The theorems                                                             *)

\* However notifications, polls and refreshes overtake the requests, nothing is recorded
\* for a node that is not monitored, and the queue keeps its bound.
THEOREM RecordsStayClean == Spec => []RecordsClean
BY InitFlowInv, NextFlowInv, TypesSplit, PTL DEF Spec

\* A value comes to stand under another node than its own only when its own is not
\* monitored and that node is the only one that is.
THEOREM OwnNodeOrOnlyOne == Spec => WrongNodeOnlyWhenAlone
<1>1. FlowInv /\ [Next]_vars =>
        [\A s \in Subs, n \in Nodes :
           LET new == last_values'[s][n] IN
           new # last_values[s][n] /\ new # NoValue /\ new.node # n =>
              new.node \notin monitored[s] /\ monitored[s] = {n}]_vars
  BY NextFlowInv DEF Alone
<1> QED BY <1>1, InitFlowInv, NextFlowInv, PTL DEF Spec, WrongNodeOnlyWhenAlone

=============================================================================
