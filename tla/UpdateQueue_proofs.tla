------------------------- MODULE UpdateQueue_proofs --------------------------
(***************************************************************************)
(* Theorems about UpdateQueue, for every number of nodes, values, requests  *)
(* and streams, every queue limit and every refresh mode.                   *)
(***************************************************************************)
EXTENDS UpdateQueue, Lemmas

-----------------------------------------------------------------------------
(* Lemmas about the oldest and the newest entry of a set of updates         *)

\* The oldest entry of a non-empty queue is an entry with the least number.
LEMMA OldestIsLeast ==
  ASSUME NEW us, us \subseteq Update, us # {}
  PROVE  Oldest(us) \in us /\ \A w \in us : Oldest(us).seq <= w.seq
<1>1. SeqsOf(us) \in SUBSET Nat /\ SeqsOf(us) # {}
  BY DEF SeqsOf, Update
<1>2. PICK m \in SeqsOf(us) : \A k \in SeqsOf(us) : m <= k
  <2> HIDE DEF SeqsOf
  <2> QED BY <1>1, MinExists
<1>3. PICK u \in us : u.seq = m
  BY DEF SeqsOf
<1>4. \A w \in us : u.seq <= w.seq
  BY <1>2, <1>3 DEF SeqsOf
<1> QED BY <1>3, <1>4 DEF Oldest

\* The newest entry of a non-empty batch of bounded numbers exists: it carries the
\* least upper bound of them.
LEMMA NewestIsGreatest ==
  ASSUME NEW us, us \subseteq Update, us # {},
         NEW b \in Nat, \A u \in us : u.seq <= b
  PROVE  Newest(us) \in us /\ \A w \in us : w.seq <= Newest(us).seq
<1> DEFINE B == {k \in Nat : \A u \in us : u.seq <= k}
<1>1. B \in SUBSET Nat /\ B # {}
  OBVIOUS
<1>2. PICK m \in B : \A k \in B : m <= k
  <2> HIDE DEF B
  <2> QED BY <1>1, MinExists
<1>3. \E u \in us : u.seq = m
  <2> SUFFICES ASSUME \A u \in us : u.seq # m PROVE FALSE
    OBVIOUS
  <2>1. \A u \in us : u.seq \in Nat /\ u.seq <= m
    BY <1>2 DEF Update
  <2>2. \A u \in us : u.seq <= m - 1
    BY <2>1, <1>2
  <2>3. m \in Nat /\ m # 0
    BY <2>1, <2>2
  <2>4. m - 1 \in B
    BY <2>2, <2>3
  <2> QED BY <2>4, <1>2, <2>3
<1>4. \E u \in us : \A w \in us : w.seq <= u.seq
  BY <1>2, <1>3
<1> QED BY <1>4 DEF Newest

\* A full queue is not empty, so it has an oldest entry to drop.
LEMMA FullIsNotEmpty ==
  ASSUME NEW us, Cardinality(us) >= MaxUpdates PROVE us # {}
BY FS_EmptySet, MaxUpdatesAssumption

-----------------------------------------------------------------------------
(* Types                                                                    *)

\* TypeOK is not inductive: the number a stream advances to is the newest of a
\* batch, and a batch has a newest entry only because its numbers are bounded.
Bounded == /\ \A u \in updates : u.seq \in 1 .. sequence_number
           /\ \A s \in Streams : \A u \in preload[s] : u.seq \in 1 .. sequence_number

TypeInv == TypeOK /\ Bounded

\* Sequence numbers are naturals.
LEMMA SeqsType ==
  ASSUME NEW us, us \subseteq Update PROVE SeqsOf(us) \subseteq Nat
BY DEF SeqsOf, Update

\* What an append does to the queue, in types and bounds.
LEMMA AppendType ==
  ASSUME TypeInv, NEW n \in Nodes, NEW v \in Values, AppendUpdate(n, v)
  PROVE  /\ last_values' \in [Nodes -> Values \cup {NoValue}]
         /\ updates' \subseteq Update
         /\ sequence_number' \in Nat /\ sequence_number <= sequence_number'
         /\ dropped' \in [from : Nat, to : Nat]
         /\ lost' \subseteq Nat /\ woken' \subseteq Streams
         /\ \A u \in updates' : u.seq \in 1 .. sequence_number'
<1> USE DEF TypeInv, TypeOK, Bounded
<1>1. CASE last_values[n] = v /\ UNCHANGED <<queueVars, woken>>
  BY <1>1 DEF queueVars
<1>2. CASE last_values[n] # v
  <2> DEFINE u0 == [seq |-> sequence_number + 1, node |-> n, value |-> v]
  <2>1. /\ last_values' = [last_values EXCEPT ![n] = v]
        /\ sequence_number' = sequence_number + 1
        /\ updates' = Enqueue(updates, u0)
        /\ dropped' = NoteDrop(dropped, updates)
        /\ lost' = lost \cup (SeqsOf(updates) \ SeqsOf(updates'))
        /\ woken' \subseteq Streams
    BY <1>2 DEF AppendUpdate, SetEvent
  <2>2. u0 \in Update /\ u0.seq = sequence_number + 1
    BY DEF Update
  <2>3. updates' \subseteq updates \cup {u0}
    BY <2>1 DEF Enqueue
  <2>4. updates' \subseteq Update /\ \A u \in updates' : u.seq \in 1 .. sequence_number'
    BY <2>1, <2>2, <2>3
  <2>5. dropped' \in [from : Nat, to : Nat]
    <3>1. CASE Cardinality(updates) >= MaxUpdates
      <4>1. Oldest(updates) \in Update
        BY <3>1, FullIsNotEmpty, OldestIsLeast
      <4> QED BY <2>1, <3>1, <4>1 DEF NoteDrop, Update
    <3>2. CASE ~(Cardinality(updates) >= MaxUpdates)
      BY <2>1, <3>2 DEF NoteDrop
    <3> QED BY <3>1, <3>2
  <2>6. lost' \subseteq Nat
    BY <2>1, SeqsType
  <2>7. last_values' \in [Nodes -> Values \cup {NoValue}]
    BY <2>1
  <2> QED BY <2>1, <2>4, <2>5, <2>6, <2>7
<1> QED BY <1>1, <1>2 DEF AppendUpdate

\* What a yield does to a stream's position and history.
LEMMA YieldType ==
  ASSUME TypeInv, NEW s \in Streams, NEW batch, batch \subseteq Update,
         \A u \in batch : u.seq \in 1 .. sequence_number,
         Yield(s, batch)
  PROVE  /\ last_sequence' \in [Streams -> Nat]
         /\ sent' \in [Streams -> SUBSET Nat]
         /\ overdue' \in [Streams -> Nat]
         /\ repeated' \subseteq Streams
<1> USE DEF TypeInv, TypeOK
<1>1. CASE batch = {}
  BY <1>1 DEF Yield, sendVars
<1>2. CASE batch # {}
  <2>1. Newest(batch) \in batch
    BY <1>2, NewestIsGreatest
  <2>2. Newest(batch).seq \in Nat /\ SeqsOf(batch) \subseteq Nat
    BY <2>1, SeqsType DEF Update
  <2> QED BY <1>2, <2>2 DEF Yield
<1> QED BY <1>1, <1>2

\* An acknowledgement covers natural numbers only.
LEMMA CoveredType ==
  ASSUME NEW ack \in {NoAck} \cup Int, sequence_number \in Nat
  PROVE  Covered(ack) \subseteq Nat
BY NoneAssumption DEF Covered

\* A dropped range holds natural numbers only, and the reset one is a range.
LEMMA DropType ==
  ASSUME dropped \in [from : Nat, to : Nat]
  PROVE  Range0(dropped) \subseteq Nat /\ NoDrop \in [from : Nat, to : Nat]
BY DEF Range0, NoDrop

\* The initial state is typed and bounded.
LEMMA InitTypeInv == Init => TypeInv
<1> SUFFICES ASSUME Init PROVE TypeInv
  OBVIOUS
<1>1. TypeOK
  BY DEF Init, TypeOK, NoDrop, Tasks, CallerStates, StreamStates
<1>2. Bounded
  BY DEF Init, Bounded
<1> QED BY <1>1, <1>2 DEF TypeInv

\* Every action keeps the types and the bounds.
LEMMA NextTypeInv == TypeInv /\ [Next]_vars => TypeInv'
<1> SUFFICES ASSUME TypeInv, [Next]_vars PROVE TypeInv'
  OBVIOUS
<1> USE DEF TypeInv, TypeOK, Bounded, Tasks
<1> USE DEF subVars, itemVars, queueVars, ackVars, genVars, sendVars, waitVars, taskVars
<1>1. CASE UNCHANGED vars
  BY <1>1 DEF vars
<1>2. ASSUME NEW n \in Nodes, NEW v \in Values, Notify(n, v) PROVE TypeInv'
  <2>1. PICK m \in Resolve(n) : AppendUpdate(m, v)
    BY <1>2 DEF Notify
  <2>2. m \in Nodes
    BY <2>1 DEF Resolve
  <2> QED BY <1>2, <2>1, <2>2, AppendType DEF Notify
<1>3. ASSUME NEW c \in Callers, NEW S \in SUBSET Nodes,
             RegisterItems(c, S) \/ UnregisterItems(c, S)
      PROVE  TypeInv'
  BY <1>3 DEF RegisterItems, UnregisterItems, SetMonitored, Goto, Touch, CallerStates
<1>4. ASSUME NEW t \in Tasks, NEW ack \in {NoAck} \cup Int, SyncAck(t, ack) PROVE TypeInv'
  BY <1>4, CoveredType DEF SyncAck, Goto, Touch, CallerStates
<1>5. ASSUME NEW c \in Callers, ApplyDiff(c) PROVE TypeInv'
  BY <1>5 DEF ApplyDiff, ModeOf, Goto, CallerStates
<1>6. ASSUME NEW c \in Callers, SyncCollect(c) PROVE TypeInv'
  <2>1. CASE exists
    BY <1>6, <2>1, DropType DEF SyncCollect, Goto, Touch, CallerStates
  <2>2. CASE ~exists
    BY <1>6, <2>2 DEF SyncCollect, Goto, CallerStates
  <2> QED BY <2>1, <2>2
<1>7. ASSUME NEW t \in Tasks, Refresh(t) PROVE TypeInv'
  <2>1. CASE RefreshBegin(t)
    BY <2>1 DEF RefreshBegin, Goto, Return, CallerStates, StreamStates
  <2>2. CASE RefreshLock(t)
    BY <2>2 DEF RefreshLock, Goto, CallerStates
  <2>3. CASE RefreshFail(t)
    BY <2>3 DEF RefreshFail, Goto, Return, CallerStates, StreamStates
  <2>4. ASSUME NEW n \in Nodes, NEW v \in Values, RefreshAppend(t, n, v) PROVE TypeInv'
    <3>1. CASE n \in monitored
      BY <2>4, <3>1, AppendType DEF RefreshAppend
    <3>2. CASE n \notin monitored
      BY <2>4, <3>2 DEF RefreshAppend
    <3> QED BY <3>1, <3>2
  <2>5. CASE RefreshDone(t)
    BY <2>5 DEF RefreshDone, Goto, Return, Touch, CallerStates, StreamStates
  <2> QED BY <1>7, <2>1, <2>2, <2>3, <2>4, <2>5 DEF Refresh
<1>8. ASSUME NEW s \in Streams, ActivateStream(s) PROVE TypeInv'
  <2>1. CASE exists
    <3>1. /\ generation' = generation + 1
          /\ gen' = [gen EXCEPT ![s] = generation + 1]
          /\ stream_connected' = TRUE /\ stale' = FALSE
          /\ woken' \subseteq Streams
          /\ pc' = [pc EXCEPT ![s] = "sync"]
      BY <1>8, <2>1 DEF ActivateStream, Goto, Touch, SetEvent
    <3>2. UNCHANGED <<exists, shutdown, itemVars, queueVars, ackVars, sendVars, waitVars,
                      holder, ret, reading, preload>>
      BY <1>8 DEF ActivateStream
    <3>3. pc' \in [Tasks -> CallerStates \cup StreamStates]
      BY <3>1 DEF StreamStates
    <3>4. generation + 1 \in Nat /\ gen' \in [Streams -> Nat]
      BY <3>1
    <3> QED BY <3>1, <3>2, <3>3, <3>4
  <2>2. CASE ~exists
    BY <1>8, <2>2 DEF ActivateStream, Goto, StreamStates
  <2> QED BY <2>1, <2>2
<1>9. ASSUME NEW s \in Streams, StreamSync(s) PROVE TypeInv'
  <2>1. CASE SyncAck(s, NoAck)
    BY <1>4, <2>1
  <2>2. CASE ~SyncAck(s, NoAck)
    BY <1>9, <2>2 DEF StreamSync, Goto, StreamStates
  <2> QED BY <2>1, <2>2
<1>10. ASSUME NEW s \in Streams, StreamCollect(s) PROVE TypeInv'
  <2>1. CASE exists
    <3>1. /\ preload' = [preload EXCEPT ![s] = updates]
          /\ pc' \in [Tasks -> CallerStates \cup StreamStates]
          /\ swallowed' \subseteq Nat /\ dropped' \in [from : Nat, to : Nat]
          /\ stale' = FALSE
      BY <1>10, <2>1, DropType DEF StreamCollect, Goto, Touch, StreamStates
    <3>2. UNCHANGED <<exists, shutdown, itemVars, last_values, updates, sequence_number,
                      lost, acked, told, genVars, sendVars, waitVars, holder, ret,
                      reading, woken>>
      BY <1>10 DEF StreamCollect
    <3>3. preload' \in [Streams -> SUBSET Update]
      BY <3>1
    <3> QED BY <3>1, <3>2, <3>3
  <2>2. CASE ~exists
    BY <1>10, <2>2 DEF StreamCollect, Goto, StreamStates
  <2> QED BY <2>1, <2>2
<1>11. ASSUME NEW s \in Streams, StreamStart(s) PROVE TypeInv'
  BY <1>11, YieldType DEF StreamStart, Goto, StreamStates
<1>12. ASSUME NEW s \in Streams, IsStreamActive(s) PROVE TypeInv'
  BY <1>12 DEF IsStreamActive, Goto, StreamStates
<1>13. ASSUME NEW s \in Streams PROVE /\ Pending(s) \subseteq Update
                                      /\ \A u \in Pending(s) : u.seq \in 1 .. sequence_number
  BY DEF Pending
<1>14. ASSUME NEW s \in Streams, WaitBegin(s) PROVE TypeInv'
  <2>1. CASE ~InScope(s)
    BY <1>14, <2>1 DEF WaitBegin, Goto, StreamStates
  <2>2. CASE InScope(s)
    <3>1. /\ last_sequence' \in [Streams -> Nat]
          /\ sent' \in [Streams -> SUBSET Nat]
          /\ overdue' \in [Streams -> Nat]
          /\ repeated' \subseteq Streams
      BY <1>13, <1>14, <2>2, YieldType DEF WaitBegin
    <3>2. /\ pc' \in [Tasks -> CallerStates \cup StreamStates]
          /\ timeout_count' \in Nat /\ on_timeout' \subseteq Streams
          /\ stale' = FALSE
      BY <1>14, <2>2 DEF WaitBegin, Goto, Touch, StreamStates
    <3> QED BY <1>14, <3>1, <3>2 DEF WaitBegin
  <2> QED BY <2>1, <2>2
<1>15. ASSUME NEW s \in Streams, WaitReturn(s)
       PROVE  /\ last_sequence' \in [Streams -> Nat]
              /\ sent' \in [Streams -> SUBSET Nat]
              /\ overdue' \in [Streams -> Nat]
              /\ repeated' \subseteq Streams
              /\ stale' \in BOOLEAN
              /\ pc' \in [Tasks -> CallerStates \cup StreamStates]
  <2>1. CASE ~InScope(s)
    BY <1>15, <2>1 DEF WaitReturn, Goto, StreamStates
  <2>2. CASE InScope(s)
    BY <1>13, <1>15, <2>2, YieldType DEF WaitReturn, Goto, Touch, StreamStates
  <2> QED BY <2>1, <2>2
<1>16. ASSUME NEW s \in Streams, WaitWake(s) PROVE TypeInv'
  BY <1>15, <1>16 DEF WaitWake, EndWait
<1>17. ASSUME NEW s \in Streams, WaitAbort(s) PROVE TypeInv'
  BY <1>17 DEF WaitAbort, EndWait, Goto, StreamStates
<1>18. ASSUME NEW s \in Streams, WaitTimeout(s) PROVE TypeInv'
  <2>1. timeout_count' \in Nat /\ pc' \in [Tasks -> CallerStates \cup StreamStates]
    BY <1>18 DEF WaitTimeout, Goto, StreamStates
  <2> QED BY <1>18, <2>1 DEF WaitTimeout, EndWait
<1>19. ASSUME NEW s \in Streams, WaitTimeoutReset(s) PROVE TypeInv'
  BY <1>19 DEF WaitTimeoutReset, Goto, CallerStates, StreamStates
<1>20. ASSUME NEW s \in Streams, WaitTimeoutResult(s) PROVE TypeInv'
  BY <1>15, <1>20 DEF WaitTimeoutResult
<1>21. ASSUME NEW s \in Streams, DeactivateStream(s) PROVE TypeInv'
  BY <1>21 DEF DeactivateStream, Goto, Touch, StreamStates
<1>22. ASSUME NEW s \in Streams, Disconnect(s) PROVE TypeInv'
  BY <1>22 DEF Disconnect, EndWait, Goto, StreamStates
<1>23. ASSUME NEW s \in Streams, Abandon(s) PROVE TypeInv'
  BY <1>23 DEF Abandon, Goto, StreamStates
<1>24. CASE ReconnectMode
  BY <1>24 DEF ReconnectMode, ModeOf
<1>25. CASE Elapse
  BY <1>25 DEF Elapse
<1>26. CASE DeleteSubscription \/ ExpireSubscription
  BY <1>26 DEF DeleteSubscription, ExpireSubscription, Remove, SetEvent
<1>27. CASE InitiateShutdown
  BY <1>27 DEF InitiateShutdown, SetEvent
<1>28. CASE CloseRelease \/ CloseClear
  BY <1>28 DEF CloseRelease, CloseClear, SetEvent
<1>29. ASSUME NEW c \in Callers, NEW ack \in {NoAck} \cup (-1 .. MaxSeq), Sync(c, ack)
       PROVE  TypeInv'
  <2>1. ack \in {NoAck} \cup Int /\ c \in Tasks
    BY BoundsAssumption
  <2> QED BY <1>4, <1>29, <2>1 DEF Sync
<1>30. ASSUME NEW c \in Callers, CallerStep(c) PROVE TypeInv'
  BY <1>5, <1>6, <1>7, <1>30 DEF CallerStep
<1>31. ASSUME NEW s \in Streams, StreamStep(s) PROVE TypeInv'
  BY <1>7, <1>9, <1>10, <1>11, <1>12, <1>14, <1>16, <1>17, <1>18, <1>19, <1>20, <1>21,
     <1>31 DEF StreamStep
<1> HIDE DEF TypeInv
<1> QED
  BY <1>1, <1>2, <1>3, <1>8, <1>22, <1>23, <1>24, <1>25, <1>26, <1>27, <1>28, <1>29,
     <1>30, <1>31 DEF Next

\* Type correctness of the subscription state and of every local of the requests
\* and streams of service.py and subscription.py.
THEOREM TypeCorrect == Spec => []TypeOK
<1>1. TypeInv => TypeOK
  BY DEF TypeInv
<1> QED BY <1>1, InitTypeInv, NextTypeInv, PTL DEF Spec

-----------------------------------------------------------------------------
(* The queue                                                                *)

\* The reported range ends before the queue begins: without this, extending the
\* range at the next overflow could leave a dropped number out of it.
DropsPrecedeQueue ==
    dropped.from # 0 => /\ dropped.from <= dropped.to /\ dropped.to <= sequence_number
                        /\ \A u \in updates : dropped.to < u.seq

QueueInv == /\ IsFiniteSet(updates) /\ QueueIsNewestRun
            /\ NoSilentLoss /\ DropsPrecedeQueue /\ OverflowAccounted
            /\ LastValueIsNewestUpdate

\* The ways in which an action touches the queue and its accounting.
AppendStep == \E n \in Nodes, v \in Values : AppendUpdate(n, v) /\ UNCHANGED ackVars
AckStep(ack) == /\ updates' = updates \ Acknowledged(ack)
                /\ acked' = acked \cup Covered(ack)
                /\ UNCHANGED <<last_values, sequence_number, dropped, lost, told, swallowed>>
ReportStep == /\ dropped' = NoDrop
              /\ told' \cup swallowed' = told \cup swallowed \cup Range0(dropped)
              /\ UNCHANGED <<last_values, updates, sequence_number, lost, acked>>
ForgetStep == /\ \A n \in Nodes : last_values'[n] \in {last_values[n], NoValue}
              /\ UNCHANGED <<updates, sequence_number, dropped, lost, ackVars>>

\* Every action either leaves the queue alone or touches it in one of these ways.
LEMMA QueueStep ==
  ASSUME TypeOK, [Next]_vars
  PROVE  \/ UNCHANGED <<queueVars, ackVars>>
         \/ AppendStep \/ ReportStep \/ ForgetStep
         \/ \E ack \in {NoAck} \cup Int : AckStep(ack)
<1> DEFINE Goal == \/ UNCHANGED <<queueVars, ackVars>>
                   \/ AppendStep \/ ReportStep \/ ForgetStep
                   \/ \E ack \in {NoAck} \cup Int : AckStep(ack)
<1> SUFFICES Goal
  OBVIOUS
<1> USE DEF queueVars, ackVars
<1>1. CASE UNCHANGED vars
  BY <1>1 DEF vars
<1>2. ASSUME NEW n \in Nodes, NEW v \in Values, Notify(n, v) PROVE Goal
  <2>1. PICK m \in Resolve(n) : AppendUpdate(m, v)
    BY <1>2 DEF Notify
  <2>2. m \in Nodes
    BY <2>1 DEF Resolve, TypeOK
  <2> QED BY <1>2, <2>1, <2>2 DEF Notify, AppendStep
<1>3. ASSUME NEW c \in Callers, NEW S \in SUBSET Nodes,
             RegisterItems(c, S) \/ UnregisterItems(c, S)
      PROVE  Goal
  BY <1>3 DEF RegisterItems, UnregisterItems, SetMonitored, ForgetStep
<1>4. ASSUME NEW t \in Tasks, NEW ack \in {NoAck} \cup Int, SyncAck(t, ack) PROVE Goal
  BY <1>4 DEF SyncAck, AckStep
<1>5. ASSUME NEW c \in Callers, NEW ack \in {NoAck} \cup (-1 .. MaxSeq), Sync(c, ack)
      PROVE  Goal
  <2>1. ack \in {NoAck} \cup Int /\ c \in Tasks
    BY BoundsAssumption DEF Tasks
  <2> QED BY <1>4, <1>5, <2>1 DEF Sync
<1>6. ASSUME NEW t \in Tasks, Refresh(t) PROVE Goal
  <2>1. CASE RefreshBegin(t) \/ RefreshLock(t) \/ RefreshFail(t) \/ RefreshDone(t)
    BY <2>1 DEF RefreshBegin, RefreshLock, RefreshFail, RefreshDone
  <2>2. ASSUME NEW n \in Nodes, NEW v \in Values, RefreshAppend(t, n, v) PROVE Goal
    BY <2>2 DEF RefreshAppend, AppendStep
  <2> QED BY <1>6, <2>1, <2>2 DEF Refresh
<1>7. ASSUME NEW c \in Callers, CallerStep(c) PROVE Goal
  <2>1. CASE ApplyDiff(c)
    BY <2>1 DEF ApplyDiff
  <2>2. CASE SyncCollect(c)
    BY <2>2 DEF SyncCollect, ReportStep
  <2> QED BY <1>6, <1>7, <2>1, <2>2 DEF CallerStep, Tasks
<1>8. ASSUME NEW s \in Streams, StreamStep(s) PROVE Goal
  <2>1. CASE StreamSync(s)
    BY <1>4, <2>1 DEF StreamSync, Tasks
  <2>2. CASE StreamCollect(s)
    BY <2>2 DEF StreamCollect, ReportStep
  <2>3. CASE \/ StreamStart(s) \/ IsStreamActive(s) \/ WaitBegin(s) \/ WaitWake(s)
             \/ WaitAbort(s) \/ WaitTimeout(s) \/ WaitTimeoutReset(s)
             \/ WaitTimeoutResult(s) \/ DeactivateStream(s)
    BY <2>3 DEF StreamStart, IsStreamActive, WaitBegin, WaitWake, WaitAbort, WaitTimeout,
                WaitTimeoutReset, WaitTimeoutResult, DeactivateStream
  <2> QED BY <1>6, <1>8, <2>1, <2>2, <2>3 DEF StreamStep, Tasks
<1>9. ASSUME NEW s \in Streams, ActivateStream(s) \/ Disconnect(s) \/ Abandon(s) PROVE Goal
  BY <1>9 DEF ActivateStream, Disconnect, Abandon
<1>10. CASE \/ ReconnectMode \/ Elapse \/ DeleteSubscription \/ ExpireSubscription
            \/ InitiateShutdown \/ CloseRelease \/ CloseClear
  BY <1>10 DEF ReconnectMode, Elapse, DeleteSubscription, ExpireSubscription, Remove,
               InitiateShutdown, CloseRelease, CloseClear
<1> HIDE DEF Goal
<1> QED BY <1>1, <1>2, <1>3, <1>5, <1>7, <1>8, <1>9, <1>10 DEF Next

\* Appending keeps the queue in order, whether or not it has to drop an entry.
LEMMA AppendKeepsQueue ==
  ASSUME TypeInv, QueueInv, AppendStep PROVE QueueInv'
<1>1. PICK n \in Nodes, v \in Values : AppendUpdate(n, v) /\ UNCHANGED ackVars
  BY DEF AppendStep
<1>2. CASE last_values[n] = v /\ UNCHANGED <<queueVars, woken>>
  BY <1>1, <1>2 DEF QueueInv, QueueIsNewestRun, NoSilentLoss, DropsPrecedeQueue,
                    OverflowAccounted, LastValueIsNewestUpdate, queueVars, ackVars
<1>3. CASE last_values[n] # v
  <2> DEFINE new  == [seq |-> sequence_number + 1, node |-> n, value |-> v]
             full == Cardinality(updates) >= MaxUpdates
             old  == Oldest(updates)
             kept == IF full THEN updates \ {old} ELSE updates
  <2>1. /\ last_values' = [last_values EXCEPT ![n] = v]
        /\ sequence_number' = sequence_number + 1
        /\ updates' = kept \cup {new}
        /\ dropped' = NoteDrop(dropped, updates)
        /\ lost' = lost \cup (SeqsOf(updates) \ SeqsOf(updates'))
        /\ acked' = acked /\ told' = told /\ swallowed' = swallowed
    BY <1>1, <1>3 DEF AppendUpdate, Enqueue, ackVars
  <2>2. /\ updates \subseteq Update /\ sequence_number \in Nat
        /\ \A u \in updates : u.seq \in Nat /\ 1 <= u.seq /\ u.seq <= sequence_number
        /\ dropped \in [from : Nat, to : Nat]
        /\ last_values \in [Nodes -> Values \cup {NoValue}]
        /\ \A u \in updates : u.node \in Nodes
        /\ lost \subseteq Nat
    BY DEF TypeInv, TypeOK, Bounded, Update
  <2>3. /\ new.seq = sequence_number + 1 /\ new.node = n /\ new.value = v
        /\ new \notin updates
    BY <2>2
  <2>4. full => /\ old \in updates
                /\ \A w \in updates : old.seq <= w.seq
                /\ \A w \in updates : w # old => old.seq < w.seq
    <3>1. full => old \in updates /\ \A w \in updates : old.seq <= w.seq
      BY <2>2, FullIsNotEmpty, OldestIsLeast
    <3> QED BY <2>2, <3>1 DEF QueueInv, QueueIsNewestRun
  <2>5. \A w \in updates : w \notin kept => full /\ w = old
    OBVIOUS
  <2>6. kept \subseteq updates
    OBVIOUS
  <2>7. IsFiniteSet(updates') /\ Cardinality(updates') <= MaxUpdates
    <3>1. IsFiniteSet(updates) /\ Cardinality(updates) <= MaxUpdates
      BY DEF QueueInv, QueueIsNewestRun
    <3>2. IsFiniteSet(kept) /\ Cardinality(kept) \in Nat /\ Cardinality(kept) <= MaxUpdates - 1
      <4>1. CASE full
        <5>1. /\ IsFiniteSet(updates \ {old})
              /\ Cardinality(updates \ {old}) = Cardinality(updates) - 1
          BY <2>4, <3>1, <4>1, FS_RemoveElement
        <5>2. kept = updates \ {old}
          BY <4>1
        <5>3. Cardinality(kept) \in Nat
          BY <5>1, <5>2, FS_CardinalityType
        <5> HIDE DEF kept, old, full
        <5> QED BY <3>1, <5>1, <5>2, <5>3, FS_CardinalityType, MaxUpdatesAssumption
      <4>2. CASE ~full
        BY <3>1, <4>2, FS_CardinalityType, MaxUpdatesAssumption
      <4> QED BY <4>1, <4>2
    <3>3. new \notin kept
      BY <2>3, <2>6
    <3> HIDE DEF kept, new
    <3>4. IsFiniteSet(kept \cup {new}) /\ Cardinality(kept \cup {new}) = Cardinality(kept) + 1
      BY <3>2, <3>3, FS_AddElement
    <3> QED BY <2>1, <3>2, <3>4, MaxUpdatesAssumption
  <2> HIDE DEF kept, new, old, full
  <2>8. \A u, w \in updates' : u.seq = w.seq => u = w
    BY <2>1, <2>2, <2>3, <2>6 DEF QueueInv, QueueIsNewestRun
  <2>9. ASSUME NEW u \in updates', NEW k \in u.seq .. sequence_number'
        PROVE  k \in SeqsOf(updates')
    <3>1. CASE k = sequence_number + 1
      BY <2>1, <2>3, <3>1 DEF SeqsOf
    <3>2. CASE k # sequence_number + 1
      <4>1. u \in kept /\ k \in u.seq .. sequence_number
        BY <2>1, <2>2, <2>3, <2>6, <2>9, <3>2
      <4>2. PICK w \in updates : w.seq = k
        BY <2>6, <4>1 DEF QueueInv, QueueIsNewestRun, SeqsOf
      <4>3. w \in kept
        BY <2>2, <2>4, <2>5, <2>6, <4>1, <4>2
      <4> QED BY <2>1, <4>2, <4>3 DEF SeqsOf
    <3> QED BY <3>1, <3>2
  <2>10. NoSilentLoss'
    <3> SUFFICES ASSUME NEW k \in 1 .. sequence_number', k \notin SeqsOf(updates')
                 PROVE  k \in acked' \cup lost'
      BY DEF NoSilentLoss
    <3>1. k # sequence_number + 1
      BY <2>1, <2>3 DEF SeqsOf
    <3>2. k \in 1 .. sequence_number
      BY <2>1, <2>2, <3>1
    <3> QED BY <2>1, <3>2 DEF QueueInv, NoSilentLoss
  <2>11. \A k \in SeqsOf(updates) \ SeqsOf(updates') : full /\ k = old.seq
    BY <2>1, <2>5 DEF SeqsOf
  <2>12. full => dropped' = [from |-> IF dropped.from = 0 THEN old.seq ELSE dropped.from,
                             to   |-> old.seq]
    BY <2>1 DEF NoteDrop, full, old
  <2>13. ~full => dropped' = dropped
    BY <2>1 DEF NoteDrop, full
  <2>14. DropsPrecedeQueue'
    <3>1. CASE full
      <4>1. \A u \in updates' : old.seq < u.seq
        BY <2>1, <2>2, <2>3, <2>4, <3>1 DEF kept
      <4>2. dropped.from # 0 => dropped.from <= old.seq
        BY <2>2, <2>4, <3>1 DEF QueueInv, DropsPrecedeQueue
      <4> QED BY <2>1, <2>2, <2>4, <2>12, <3>1, <4>1, <4>2 DEF DropsPrecedeQueue
    <3>2. CASE ~full
      BY <2>1, <2>2, <2>3, <2>6, <2>13, <3>2 DEF QueueInv, DropsPrecedeQueue
    <3> QED BY <3>1, <3>2
  <2>15. OverflowAccounted'
    <3>1. Range0(dropped) \subseteq Range0(dropped)'
      <4>1. CASE full
        BY <2>2, <2>4, <2>12, <4>1 DEF Range0, QueueInv, DropsPrecedeQueue
      <4> QED BY <2>13, <4>1 DEF Range0
    <3>2. full => old.seq \in Range0(dropped)'
      BY <2>2, <2>4, <2>12 DEF Range0, QueueInv, DropsPrecedeQueue
    <3> QED BY <2>1, <2>11, <3>1, <3>2 DEF QueueInv, OverflowAccounted
  <2>16. LastValueIsNewestUpdate'
    <3> SUFFICES ASSUME NEW u \in updates'
                 PROVE  \/ last_values'[u.node] \in {NoValue, u.value}
                        \/ \E w \in updates' : w.node = u.node /\ w.seq > u.seq
      BY DEF LastValueIsNewestUpdate
    <3>1. CASE u = new
      BY <2>1, <2>2, <2>3, <3>1
    <3>2. CASE u # new /\ u.node = n
      BY <2>1, <2>2, <2>3, <2>6, <3>2
    <3>3. CASE u # new /\ u.node # n
      <4>1. u \in kept /\ last_values'[u.node] = last_values[u.node]
        BY <2>1, <2>2, <2>6, <3>3
      <4>2. \A w \in updates : w.seq > u.seq => w \in kept
        BY <2>2, <2>4, <2>5, <2>6, <4>1
      <4> QED BY <2>1, <2>6, <4>1, <4>2 DEF QueueInv, LastValueIsNewestUpdate
    <3> QED BY <3>1, <3>2, <3>3
  <2> QED BY <2>7, <2>8, <2>9, <2>10, <2>14, <2>15, <2>16 DEF QueueInv, QueueIsNewestRun
<1> QED BY <1>1, <1>2, <1>3 DEF AppendUpdate

\* An acknowledgement removes a prefix of the queue, all of it covered.
LEMMA AckKeepsQueue ==
  ASSUME TypeInv, QueueInv, NEW ack \in {NoAck} \cup Int, AckStep(ack) PROVE QueueInv'
<1>1. /\ updates \subseteq Update /\ sequence_number \in Nat
      /\ \A u \in updates : u.seq \in Nat /\ 1 <= u.seq /\ u.seq <= sequence_number
  BY DEF TypeInv, TypeOK, Bounded, Update
<1>2. \A u \in Acknowledged(ack) : u \in updates /\ u.seq \in Covered(ack)
  BY <1>1, NoneAssumption DEF Acknowledged, Covered
<1>3. \A u \in Acknowledged(ack), w \in updates \ Acknowledged(ack) : u.seq < w.seq
  BY <1>1, NoneAssumption DEF Acknowledged
<1>4. /\ updates' = updates \ Acknowledged(ack) /\ updates' \subseteq updates
      /\ acked' = acked \cup Covered(ack)
      /\ last_values' = last_values /\ sequence_number' = sequence_number
      /\ dropped' = dropped /\ lost' = lost /\ told' = told /\ swallowed' = swallowed
  BY DEF AckStep
<1>5. IsFiniteSet(updates') /\ Cardinality(updates') <= MaxUpdates
  <2>1. IsFiniteSet(updates) /\ Cardinality(updates) <= MaxUpdates
    BY DEF QueueInv, QueueIsNewestRun
  <2>2. IsFiniteSet(updates') /\ Cardinality(updates') <= Cardinality(updates)
    BY <1>4, <2>1, FS_Subset
  <2> QED BY <2>1, <2>2, FS_CardinalityType, MaxUpdatesAssumption
<1>6. \A u, w \in updates' : u.seq = w.seq => u = w
  BY <1>4 DEF QueueInv, QueueIsNewestRun
<1>7. ASSUME NEW u \in updates', NEW k \in u.seq .. sequence_number'
      PROVE  k \in SeqsOf(updates')
  <2>1. PICK w \in updates : w.seq = k
    BY <1>4, <1>7 DEF QueueInv, QueueIsNewestRun, SeqsOf
  <2>2. w \in updates'
    BY <1>1, <1>3, <1>4, <1>7, <2>1
  <2> QED BY <2>1, <2>2 DEF SeqsOf
<1>8. NoSilentLoss'
  <2> SUFFICES ASSUME NEW k \in 1 .. sequence_number, k \notin acked', k \notin lost
               PROVE  k \in SeqsOf(updates')
    BY <1>4 DEF NoSilentLoss
  <2>1. PICK w \in updates : w.seq = k
    BY <1>4 DEF QueueInv, NoSilentLoss, SeqsOf
  <2> QED BY <1>2, <1>4, <2>1 DEF SeqsOf
<1>9. DropsPrecedeQueue' /\ OverflowAccounted'
  BY <1>4 DEF QueueInv, DropsPrecedeQueue, OverflowAccounted, Range0
<1>10. LastValueIsNewestUpdate'
  <2> SUFFICES ASSUME NEW u \in updates'
               PROVE  \/ last_values[u.node] \in {NoValue, u.value}
                      \/ \E w \in updates' : w.node = u.node /\ w.seq > u.seq
    BY <1>4 DEF LastValueIsNewestUpdate
  <2>1. \A w \in updates : w.seq > u.seq => w \in updates'
    BY <1>1, <1>3, <1>4
  <2> QED BY <1>4, <2>1 DEF QueueInv, LastValueIsNewestUpdate
<1> QED BY <1>5, <1>6, <1>7, <1>8, <1>9, <1>10 DEF QueueInv, QueueIsNewestRun

\* The queue invariant holds initially and is kept by every step.
LEMMA InitQueueInv == Init => QueueInv
BY FS_EmptySet, MaxUpdatesAssumption
   DEF Init, QueueInv, QueueIsNewestRun, NoSilentLoss, DropsPrecedeQueue, OverflowAccounted,
       LastValueIsNewestUpdate, NoDrop, SeqsOf

\* Every step keeps the queue invariant, one case per way of touching the queue.
LEMMA NextQueueInv == TypeInv /\ QueueInv /\ [Next]_vars => QueueInv'
<1> SUFFICES ASSUME TypeInv, QueueInv, [Next]_vars PROVE QueueInv'
  OBVIOUS
<1>1. CASE UNCHANGED <<queueVars, ackVars>>
  BY <1>1 DEF QueueInv, QueueIsNewestRun, NoSilentLoss, DropsPrecedeQueue,
              OverflowAccounted, LastValueIsNewestUpdate, queueVars, ackVars
<1>2. CASE AppendStep
  BY <1>2, AppendKeepsQueue
<1>3. CASE ReportStep
  <2>1. Range0(dropped') = {} /\ dropped'.from = 0
    BY <1>3 DEF ReportStep, NoDrop, Range0
  <2>2. OverflowAccounted'
    BY <1>3, <2>1 DEF ReportStep, QueueInv, OverflowAccounted
  <2> QED BY <1>3, <2>1, <2>2 DEF ReportStep, QueueInv, QueueIsNewestRun, NoSilentLoss,
                                  DropsPrecedeQueue, LastValueIsNewestUpdate
<1>4. CASE ForgetStep
  <2>1. \A u \in updates : u.node \in Nodes
    BY DEF TypeInv, TypeOK, Update
  <2>2. LastValueIsNewestUpdate'
    BY <1>4, <2>1 DEF ForgetStep, QueueInv, LastValueIsNewestUpdate
  <2> QED BY <1>4, <2>2 DEF ForgetStep, QueueInv, QueueIsNewestRun, NoSilentLoss,
                            DropsPrecedeQueue, OverflowAccounted, ackVars
<1>5. ASSUME NEW ack \in {NoAck} \cup Int, AckStep(ack) PROVE QueueInv'
  BY <1>5, AckKeepsQueue
<1> QED BY <1>1, <1>2, <1>3, <1>4, <1>5, QueueStep DEF TypeInv

\* The invariants of the queue, together.
LEMMA QueueInvariant == Spec => [](TypeInv /\ QueueInv)
BY InitTypeInv, NextTypeInv, InitQueueInv, NextQueueInv, PTL DEF Spec

\* _append_update_locked, sync and the stream's internal sync keep the queue the
\* unbroken run of the newest numbers, never longer than its limit.
THEOREM QueueRunHolds == Spec => []QueueIsNewestRun
<1>1. TypeInv /\ QueueInv => QueueIsNewestRun
  BY DEF QueueInv
<1> QED BY <1>1, QueueInvariant, PTL

\* sync and _append_update lose no number without a trace: it is queued, acknowledged or
\* dropped by an overflow, and every drop is in a range that was reported, thrown away by a
\* stream's opening, or will be reported by the next sync.
THEOREM UpdatesAreAccounted == Spec => []UpdatesAccounted
<1>1. TypeInv /\ QueueInv => UpdatesAccounted
  BY DEF QueueInv, UpdatesAccounted
<1> QED BY <1>1, QueueInvariant, PTL

\* De-duplication compares with the value of the node's newest queued update.
THEOREM LastValueHolds == Spec => []LastValueIsNewestUpdate
<1>1. TypeInv /\ QueueInv => LastValueIsNewestUpdate
  BY DEF QueueInv
<1> QED BY <1>1, QueueInvariant, PTL

-----------------------------------------------------------------------------
(* The streams                                                              *)

\* The batch a stream was opened with stays complete while it waits to be yielded.
PreloadHasNoGap ==
    \A s \in Streams : \A u \in preload[s] :
       1 .. u.seq \subseteq SeqsOf(preload[s]) \cup lost \cup acked

\* A stream's position is the greatest number it has yielded.
SentIsBelow == \A s \in Streams : \A k \in sent[s] : k <= last_sequence[s]

\* Nothing has been yielded before the generator starts, nor during the refresh of
\* the internal sync.
NothingSentBefore ==
    \A s \in Streams :
       /\ pc[s] \in {"new", "sync", "collect", "opened"} => sent[s] = {}
       /\ ret[s] = "collect" => sent[s] = {} /\ pc[s] \in {"refresh", "reading", "appending"}

StreamInv == /\ StreamHasNoGap /\ PreloadHasNoGap
             /\ StreamInOrder /\ SentIsBelow /\ NothingSentBefore

\* A number that was lost or acknowledged remains so.
LEMMA HistoryGrows ==
  ASSUME TypeOK, [Next]_vars PROVE lost \subseteq lost' /\ acked \subseteq acked'
<1>1. CASE AppendStep
  BY <1>1 DEF AppendStep, AppendUpdate, queueVars, ackVars
<1>2. CASE ~AppendStep
  BY <1>2, QueueStep DEF ReportStep, ForgetStep, AckStep, queueVars, ackVars
<1> QED BY <1>1, <1>2

\* Yielding a batch that has no gap above the stream's position keeps the stream
\* complete and in order.
LEMMA YieldKeepsStream ==
  ASSUME TypeInv, StreamInv, NEW s \in Streams, NEW batch, batch \subseteq Update,
         \A u \in batch : u.seq \in 1 .. sequence_number,
         \A u \in batch : \A k \in 1 .. u.seq :
            k \in SeqsOf(batch) \cup sent[s] \cup lost \cup acked,
         \A u \in batch, k \in sent[s] : k < u.seq,
         lost \subseteq lost', acked \subseteq acked',
         Yield(s, batch)
  PROVE  /\ StreamHasNoGap' /\ StreamInOrder' /\ SentIsBelow'
         /\ \A r \in Streams : r # s => sent'[r] = sent[r]
<1>1. CASE batch = {}
  BY <1>1 DEF Yield, sendVars, StreamInv, StreamHasNoGap, StreamInOrder, SentIsBelow
<1>2. CASE batch # {}
  <2> DEFINE top == Newest(batch)
  <2>1. top \in batch /\ \A w \in batch : w.seq <= top.seq
    BY <1>2, NewestIsGreatest DEF TypeInv, TypeOK
  <2>2. /\ last_sequence' = [last_sequence EXCEPT ![s] = top.seq]
        /\ sent' = [sent EXCEPT ![s] = @ \cup SeqsOf(batch)]
    BY <1>2 DEF Yield
  <2>3. /\ last_sequence'[s] = top.seq /\ sent'[s] = sent[s] \cup SeqsOf(batch)
        /\ \A r \in Streams : r # s => /\ sent'[r] = sent[r]
                                       /\ last_sequence'[r] = last_sequence[r]
    BY <2>2 DEF TypeInv, TypeOK
  <2> HIDE DEF top
  <2>4. StreamHasNoGap'
    BY <2>1, <2>3 DEF StreamInv, StreamHasNoGap
  <2>5. SentIsBelow'
    <3>1. \A k \in sent[s] : k <= top.seq
      BY <2>1 DEF TypeInv, TypeOK, Update
    <3>2. \A k \in SeqsOf(batch) : k <= top.seq
      BY <2>1 DEF SeqsOf
    <3> QED BY <2>3, <3>1, <3>2 DEF StreamInv, SentIsBelow
  <2>6. StreamInOrder'
    <3>1. ~ \E u \in batch, k \in sent[s] : u.seq <= k
      BY DEF TypeInv, TypeOK, Update
    <3>2. repeated' = repeated
      BY <1>2, <3>1 DEF Yield
    <3> QED BY <3>2 DEF StreamInv, StreamInOrder
  <2> QED BY <2>3, <2>4, <2>5, <2>6
<1> QED BY <1>1, <1>2

\* What is pending for a stream has no gap above the stream's position.
LEMMA PendingHasNoGap ==
  ASSUME TypeInv, QueueInv, StreamInv, NEW s \in Streams
  PROVE  /\ Pending(s) \subseteq Update
         /\ \A u \in Pending(s) : u.seq \in 1 .. sequence_number
         /\ \A u \in Pending(s) : \A k \in 1 .. u.seq :
               k \in SeqsOf(Pending(s)) \cup sent[s] \cup lost \cup acked
         /\ \A u \in Pending(s), k \in sent[s] : k < u.seq
<1>1. /\ last_sequence[s] \in Nat /\ sent[s] \subseteq Nat
      /\ \A u \in updates : u.seq \in Nat /\ u.seq \in 1 .. sequence_number
      /\ sequence_number \in Nat
  BY DEF TypeInv, TypeOK, Bounded, Update
<1>2. /\ Pending(s) \subseteq Update
      /\ \A u \in Pending(s) : u.seq \in 1 .. sequence_number
  BY DEF Pending, TypeInv, TypeOK, Bounded
<1>3. \A u \in Pending(s), k \in sent[s] : k < u.seq
  BY <1>1 DEF Pending, StreamInv, SentIsBelow
<1>4. ASSUME NEW u \in Pending(s), NEW k \in 1 .. u.seq
      PROVE  k \in SeqsOf(Pending(s)) \cup sent[s] \cup lost \cup acked
  <2>1. CASE k <= last_sequence[s]
    BY <1>1, <2>1 DEF StreamInv, StreamHasNoGap
  <2>2. CASE k > last_sequence[s]
    <3>1. k \in 1 .. sequence_number
      BY <1>1, <1>2, <1>4
    <3>2. CASE k \in SeqsOf(updates)
      BY <2>2, <3>2 DEF Pending, SeqsOf
    <3> QED BY <3>1, <3>2 DEF QueueInv, NoSilentLoss
  <2> QED BY <1>1, <2>1, <2>2
<1> QED BY <1>2, <1>3, <1>4

\* Initially no stream has yielded anything.
LEMMA InitStreamInv == Init => StreamInv
BY DEF Init, StreamInv, StreamHasNoGap, PreloadHasNoGap, StreamInOrder, SentIsBelow,
       NothingSentBefore, Tasks

\* Every step keeps the stream invariant: most steps yield nothing, and a yield is
\* of the pending updates or of the preloaded ones.
LEMMA NextStreamInv == TypeInv /\ QueueInv /\ StreamInv /\ [Next]_vars => StreamInv'
<1> SUFFICES ASSUME TypeInv, QueueInv, StreamInv, [Next]_vars PROVE StreamInv'
  OBVIOUS
<1> USE TasksAssumption DEF Tasks
<1>1. lost \subseteq lost' /\ acked \subseteq acked'
  BY HistoryGrows DEF TypeInv
<1>2. /\ pc \in [Tasks -> CallerStates \cup StreamStates]
      /\ ret \in [Tasks -> {"idle", "collect", "late"}]
      /\ preload \in [Streams -> SUBSET Update]
      /\ sent \in [Streams -> SUBSET Nat]
  BY DEF TypeInv, TypeOK
<1>3. NothingSentBefore
  BY DEF StreamInv
<1>4. ASSUME \A s \in Streams : preload'[s] = preload[s] \/ preload'[s] = {}
      PROVE  PreloadHasNoGap'
  BY <1>1, <1>4 DEF StreamInv, PreloadHasNoGap
<1>5. ASSUME UNCHANGED sendVars, UNCHANGED preload, NothingSentBefore' PROVE StreamInv'
  BY <1>1, <1>4, <1>5 DEF sendVars, StreamInv, StreamHasNoGap, StreamInOrder, SentIsBelow
<1>6. CASE UNCHANGED <<sendVars, preload, pc, ret>>
  BY <1>3, <1>5, <1>6 DEF NothingSentBefore, sendVars
<1>7. ASSUME NEW c \in Callers,
             \/ \E S \in SUBSET Nodes : RegisterItems(c, S) \/ UnregisterItems(c, S)
             \/ \E ack \in {NoAck} \cup (-1 .. MaxSeq) : Sync(c, ack)
             \/ ApplyDiff(c) \/ SyncCollect(c)
      PROVE  StreamInv'
  <2>1. /\ \A s \in Streams : pc'[s] = pc[s] /\ ret'[s] = ret[s]
        /\ UNCHANGED sendVars /\ UNCHANGED preload
    BY <1>2, <1>7 DEF RegisterItems, UnregisterItems, SetMonitored, Sync, SyncAck, ApplyDiff,
                      SyncCollect, Goto
  <2> QED BY <1>3, <1>5, <2>1 DEF NothingSentBefore, sendVars
<1>8. ASSUME NEW t \in Tasks, Refresh(t) PROVE StreamInv'
  <2>1. UNCHANGED sendVars /\ UNCHANGED preload
    BY <1>8 DEF Refresh, RefreshBegin, RefreshLock, RefreshFail, RefreshAppend, RefreshDone
  <2>2. CASE pc' = [pc EXCEPT ![t] = ret[t]] /\ ret' = [ret EXCEPT ![t] = "idle"]
    BY <1>2, <1>3, <1>5, <2>1, <2>2 DEF NothingSentBefore, sendVars
  <2>3. CASE /\ \/ pc' = [pc EXCEPT ![t] = "reading"]
                \/ pc' = [pc EXCEPT ![t] = "appending"]
             /\ UNCHANGED ret
    BY <1>2, <1>3, <1>5, <2>1, <2>3 DEF NothingSentBefore, sendVars
  <2> QED BY <1>6, <1>8, <2>1, <2>2, <2>3
          DEF Refresh, RefreshBegin, RefreshLock, RefreshFail, RefreshAppend, RefreshDone,
              Goto, Return
<1>9. ASSUME NEW s \in Streams, StreamSync(s) PROVE StreamInv'
  <2>1. /\ pc[s] = "sync" /\ UNCHANGED sendVars /\ UNCHANGED preload
        /\ \/ /\ pc' = [pc EXCEPT ![s] = "refresh"]
              /\ ret' = [ret EXCEPT ![s] = "collect"]
           \/ /\ \/ pc' = [pc EXCEPT ![s] = "collect"]
                 \/ pc' = [pc EXCEPT ![s] = "closed"]
              /\ UNCHANGED ret
    BY <1>9 DEF StreamSync, SyncAck, Goto
  <2> QED BY <1>2, <1>3, <1>5, <2>1 DEF NothingSentBefore, sendVars
<1>10. ASSUME NEW s \in Streams, StreamCollect(s) PROVE StreamInv'
  <2>1. /\ pc[s] = "collect" /\ UNCHANGED sendVars /\ UNCHANGED ret
        /\ pc' = [pc EXCEPT ![s] = "opened"] \/ pc' = [pc EXCEPT ![s] = "closed"]
        /\ preload' = preload \/ preload' = [preload EXCEPT ![s] = updates]
        /\ UNCHANGED <<updates, sequence_number, lost, acked>>
    BY <1>10 DEF StreamCollect, Goto
  <2>2. NothingSentBefore'
    BY <1>2, <1>3, <2>1 DEF NothingSentBefore, sendVars
  <2>3. \A u \in updates : 1 .. u.seq \subseteq SeqsOf(updates) \cup lost \cup acked
    BY DEF QueueInv, NoSilentLoss, TypeInv, TypeOK, Bounded, Update
  <2>4. PreloadHasNoGap'
    <3>1. CASE preload' = preload
      BY <1>4, <3>1
    <3>2. CASE preload' = [preload EXCEPT ![s] = updates]
      <4>1. /\ preload'[s] = updates
            /\ \A r \in Streams : r # s => preload'[r] = preload[r]
        BY <1>2, <3>2
      <4> QED BY <2>1, <2>3, <4>1 DEF PreloadHasNoGap, StreamInv
    <3> QED BY <2>1, <3>1, <3>2
  <2> QED BY <2>1, <2>2, <2>4 DEF sendVars, StreamInv, StreamHasNoGap, StreamInOrder, SentIsBelow
<1>11. ASSUME NEW s \in Streams, StreamStart(s) PROVE StreamInv'
  <2>1. /\ pc[s] = "opened" /\ Yield(s, preload[s]) /\ UNCHANGED ret
        /\ preload' = [preload EXCEPT ![s] = {}]
        /\ pc' = [pc EXCEPT ![s] = "check"]
    BY <1>11 DEF StreamStart, Goto
  <2>2. sent[s] = {} /\ ret[s] # "collect"
    BY <1>3, <2>1 DEF NothingSentBefore
  <2>3. /\ preload[s] \subseteq Update
        /\ \A u \in preload[s] : u.seq \in 1 .. sequence_number
        /\ \A u \in preload[s] : \A k \in 1 .. u.seq :
              k \in SeqsOf(preload[s]) \cup sent[s] \cup lost \cup acked
    BY <1>2 DEF TypeInv, Bounded, StreamInv, PreloadHasNoGap
  <2>4. /\ StreamHasNoGap' /\ StreamInOrder' /\ SentIsBelow'
        /\ \A r \in Streams : r # s => sent'[r] = sent[r]
    BY <1>1, <2>1, <2>2, <2>3, YieldKeepsStream
  <2>5. NothingSentBefore'
    BY <1>2, <1>3, <2>1, <2>2, <2>4 DEF NothingSentBefore
  <2>6. PreloadHasNoGap'
    BY <1>2, <1>4, <2>1
  <2> QED BY <2>4, <2>5, <2>6 DEF StreamInv
<1>12. ASSUME NEW s \in Streams, Yield(s, Pending(s)), UNCHANGED preload, UNCHANGED ret,
              pc[s] \in {"wait", "waiting", "late"},
              \/ pc' = [pc EXCEPT ![s] = "check"]
              \/ pc' = [pc EXCEPT ![s] = "waiting"]
       PROVE  StreamInv'
  <2>1. /\ StreamHasNoGap' /\ StreamInOrder' /\ SentIsBelow'
        /\ \A r \in Streams : r # s => sent'[r] = sent[r]
    BY <1>1, <1>12, PendingHasNoGap, YieldKeepsStream
  <2>2. NothingSentBefore'
    BY <1>2, <1>3, <1>12, <2>1 DEF NothingSentBefore
  <2> QED BY <1>4, <1>12, <2>1, <2>2 DEF StreamInv
<1>13. ASSUME NEW s \in Streams, UNCHANGED sendVars,
              \A r \in Streams : preload'[r] = preload[r] \/ preload'[r] = {},
              \E l \in {"wait", "waiting", "due", "late", "closing", "closed", "abandoned"} :
                 pc' = [pc EXCEPT ![s] = l],
              \/ UNCHANGED ret /\ pc[s] \notin {"refresh", "reading", "appending"}
              \/ ret' = [ret EXCEPT ![s] = "idle"]
       PROVE  StreamInv'
  <2>1. NothingSentBefore'
    BY <1>2, <1>3, <1>13 DEF NothingSentBefore, sendVars
  <2> QED BY <1>1, <1>4, <1>13, <2>1 DEF sendVars, StreamInv, StreamHasNoGap, StreamInOrder,
                                         SentIsBelow
<1>14. ASSUME NEW s \in Streams, WaitBegin(s) \/ WaitWake(s) \/ WaitTimeoutResult(s)
       PROVE  StreamInv'
  <2>1. CASE InScope(s)
    BY <1>12, <1>14, <2>1 DEF WaitBegin, WaitWake, WaitTimeoutResult, WaitReturn, Goto
  <2>2. CASE ~InScope(s)
    BY <1>13, <1>14, <2>2 DEF WaitBegin, WaitWake, WaitTimeoutResult, WaitReturn, Goto
  <2> QED BY <2>1, <2>2
<1>15. ASSUME NEW s \in Streams, \/ IsStreamActive(s) \/ WaitAbort(s) \/ WaitTimeout(s)
                                 \/ DeactivateStream(s) \/ Abandon(s)
       PROVE  StreamInv'
  BY <1>13, <1>15 DEF IsStreamActive, WaitAbort, WaitTimeout, DeactivateStream, Abandon, Goto
<1>16. ASSUME NEW s \in Streams, WaitTimeoutReset(s) PROVE StreamInv'
  <2>1. /\ pc[s] = "due" /\ UNCHANGED sendVars /\ UNCHANGED preload
        /\ \/ /\ pc' = [pc EXCEPT ![s] = "refresh"]
              /\ ret' = [ret EXCEPT ![s] = "late"]
           \/ pc' = [pc EXCEPT ![s] = "closing"] /\ UNCHANGED ret
    BY <1>16 DEF WaitTimeoutReset, Goto
  <2> QED BY <1>2, <1>3, <1>5, <2>1 DEF NothingSentBefore, sendVars
<1>17. ASSUME NEW s \in Streams, ActivateStream(s) PROVE StreamInv'
  <2>1. /\ pc[s] = "new" /\ UNCHANGED sendVars /\ UNCHANGED preload /\ UNCHANGED ret
        /\ pc' = [pc EXCEPT ![s] = "sync"] \/ pc' = [pc EXCEPT ![s] = "closed"]
    BY <1>17 DEF ActivateStream, Goto
  <2> QED BY <1>2, <1>3, <1>5, <2>1 DEF NothingSentBefore, sendVars
<1>18. ASSUME NEW s \in Streams, Disconnect(s) PROVE StreamInv'
  BY <1>2, <1>13, <1>18 DEF Disconnect, Goto
<1>19. CASE \/ UNCHANGED vars \/ \E n \in Nodes, v \in Values : Notify(n, v)
            \/ ReconnectMode \/ Elapse \/ DeleteSubscription \/ ExpireSubscription
            \/ InitiateShutdown \/ CloseRelease \/ CloseClear
  BY <1>6, <1>19 DEF vars, taskVars, sendVars, Notify, ReconnectMode, Elapse,
                     DeleteSubscription, ExpireSubscription, Remove, InitiateShutdown,
                     CloseRelease, CloseClear
<1>20. ASSUME NEW s \in Streams, StreamStep(s) PROVE StreamInv'
  BY <1>8, <1>9, <1>10, <1>11, <1>14, <1>15, <1>16, <1>20 DEF StreamStep
<1>21. ASSUME NEW c \in Callers, CallerStep(c) PROVE StreamInv'
  BY <1>7, <1>8, <1>21 DEF CallerStep
<1> QED BY <1>7, <1>15, <1>17, <1>18, <1>19, <1>20, <1>21 DEF Next

\* All the invariants, together.
LEMMA StreamInvariant == Spec => [](TypeInv /\ QueueInv /\ StreamInv)
BY InitStreamInv, NextStreamInv, QueueInvariant, PTL DEF Spec

\* iter_stream_events never yields a number twice or out of order, and skips none that was
\* neither dropped nor acknowledged.
THEOREM StreamsAreFaithful == Spec => []StreamsFaithful
<1>1. TypeInv /\ QueueInv /\ StreamInv => StreamsFaithful
  BY DEF StreamInv, StreamsFaithful
<1> QED BY <1>1, StreamInvariant, PTL

-----------------------------------------------------------------------------
(* Stream generations                                                       *)

\* The request that holds the lock for its append loop is in that loop.
HolderAppends == \A s \in Streams : holder = s => pc[s] = "appending"

\* Generations are handed out once each, when a stream is activated.
GenerationsUnique ==
    /\ \A s \in Streams : gen[s] <= generation
    /\ \A s \in Streams : pc[s] = "new" => gen[s] = 0
    /\ \A s \in Streams : gen[s] = 0 => pc[s] \in {"new", "closed"}
    /\ \A s, r \in Streams : gen[s] = gen[r] /\ gen[s] # 0 => s = r

ConnectionInv == HolderAppends /\ GenerationsUnique /\ ConnectedIffCurrentStream

\* Initially there is no stream and the subscription is not connected.
LEMMA InitConnectionInv == Init => ConnectionInv
BY TasksAssumption DEF Init, ConnectionInv, HolderAppends, GenerationsUnique,
       ConnectedIffCurrentStream, Tasks

\* Every step keeps it: only activating and deactivating touch the flag.
LEMMA NextConnectionInv == TypeInv /\ ConnectionInv /\ [Next]_vars => ConnectionInv'
<1> SUFFICES ASSUME TypeInv, ConnectionInv, [Next]_vars PROVE ConnectionInv'
  OBVIOUS
<1> USE TasksAssumption DEF Tasks
<1>1. /\ pc \in [Tasks -> CallerStates \cup StreamStates]
      /\ ret \in [Tasks -> {"idle", "collect", "late"}]
      /\ gen \in [Streams -> Nat] /\ generation \in Nat
  BY DEF TypeInv, TypeOK
<1>2. ASSUME UNCHANGED genVars, exists' => exists, UNCHANGED holder,
             \A s \in Streams : \/ pc'[s] = pc[s]
                                \/ /\ pc[s] \notin {"new", "closed", "appending"}
                                   /\ pc'[s] \notin {"new", "closed"}
      PROVE  ConnectionInv'
  BY <1>2 DEF ConnectionInv, HolderAppends, GenerationsUnique, ConnectedIffCurrentStream, genVars
<1>3. ASSUME NEW s \in Streams, ~exists, UNCHANGED <<genVars, exists, holder>>,
             pc[s] # "appending", pc' = [pc EXCEPT ![s] = "closed"]
      PROVE  ConnectionInv'
  BY <1>1, <1>3 DEF ConnectionInv, HolderAppends, GenerationsUnique,
                    ConnectedIffCurrentStream, genVars
<1>4. CASE UNCHANGED <<genVars, exists, holder, pc>>
  BY <1>2, <1>4
<1>5. ASSUME NEW c \in Callers,
             \/ \E S \in SUBSET Nodes : RegisterItems(c, S) \/ UnregisterItems(c, S)
             \/ \E ack \in {NoAck} \cup (-1 .. MaxSeq) : Sync(c, ack)
             \/ ApplyDiff(c) \/ SyncCollect(c)
      PROVE  ConnectionInv'
  <2>1. /\ \A s \in Streams : pc'[s] = pc[s]
        /\ UNCHANGED <<genVars, exists, holder>>
    BY <1>1, <1>5 DEF RegisterItems, UnregisterItems, SetMonitored, Sync, SyncAck, ApplyDiff,
                      SyncCollect, Goto, subVars
  <2> QED BY <1>2, <2>1
<1>6. ASSUME NEW t \in Tasks, Refresh(t) PROVE ConnectionInv'
  <2>1. CASE RefreshBegin(t) \/ RefreshFail(t)
    <3>1. /\ pc[t] \in {"refresh", "reading"} /\ UNCHANGED <<genVars, exists, holder>>
          /\ \E l \in {"idle", "collect", "late", "reading"} : pc' = [pc EXCEPT ![t] = l]
      BY <1>1, <2>1 DEF RefreshBegin, RefreshFail, Goto, Return, subVars
    <3> QED BY <1>1, <1>2, <3>1
  <2>2. CASE RefreshLock(t)
    BY <1>1, <2>2 DEF RefreshLock, Goto, subVars, genVars, ConnectionInv, HolderAppends,
                      GenerationsUnique, ConnectedIffCurrentStream
  <2>3. ASSUME NEW n \in Nodes, NEW v \in Values, RefreshAppend(t, n, v) PROVE ConnectionInv'
    BY <1>4, <2>3 DEF RefreshAppend, subVars
  <2>4. CASE RefreshDone(t)
    <3>1. /\ holder = t /\ holder' = NoTask /\ UNCHANGED <<genVars, exists>>
          /\ \E l \in {"idle", "collect", "late"} : pc' = [pc EXCEPT ![t] = l]
      BY <1>1, <2>4 DEF RefreshDone, Goto, Return
    <3>2. t \in Streams => pc[t] = "appending"
      BY <3>1 DEF ConnectionInv, HolderAppends
    <3> QED BY <1>1, <3>1, <3>2 DEF genVars, ConnectionInv, HolderAppends,
                                    GenerationsUnique, ConnectedIffCurrentStream
  <2> QED BY <1>6, <2>1, <2>2, <2>3, <2>4 DEF Refresh
<1>7. ASSUME NEW s \in Streams, StreamSync(s) \/ StreamCollect(s) PROVE ConnectionInv'
  <2>1. CASE exists
    BY <1>1, <1>2, <1>7, <2>1 DEF StreamSync, SyncAck, StreamCollect, Goto
  <2>2. CASE ~exists
    BY <1>1, <1>3, <1>7, <2>2 DEF StreamSync, StreamCollect, Goto, subVars
  <2> QED BY <2>1, <2>2
<1>8. ASSUME NEW s \in Streams,
             \/ StreamStart(s) \/ IsStreamActive(s) \/ WaitBegin(s) \/ WaitWake(s)
             \/ WaitAbort(s) \/ WaitTimeout(s) \/ WaitTimeoutReset(s)
             \/ WaitTimeoutResult(s) \/ Disconnect(s) \/ Abandon(s)
      PROVE  ConnectionInv'
  <2>1. /\ pc[s] \in {"opened", "check", "wait", "waiting", "due", "late", "refresh", "reading"}
        /\ UNCHANGED <<genVars, exists, holder>>
        /\ \E l \in {"check", "wait", "waiting", "due", "late", "refresh", "closing",
                     "abandoned"} : pc' = [pc EXCEPT ![s] = l]
    BY <1>8 DEF StreamStart, IsStreamActive, WaitBegin, WaitWake, WaitReturn, WaitAbort,
                WaitTimeout, WaitTimeoutReset, WaitTimeoutResult, Disconnect, Abandon, Goto,
                subVars
  <2> QED BY <1>1, <1>2, <2>1
<1>9. ASSUME NEW s \in Streams, DeactivateStream(s) PROVE ConnectionInv'
  <2>1. /\ pc[s] = "closing" /\ pc' = [pc EXCEPT ![s] = "closed"]
        /\ UNCHANGED <<generation, gen, exists, holder>>
        /\ stream_connected' = IF exists /\ generation = gen[s] THEN FALSE ELSE stream_connected
    BY <1>9 DEF DeactivateStream, Goto
  <2>2. gen[s] # 0
    BY <2>1 DEF ConnectionInv, GenerationsUnique
  <2>3. HolderAppends' /\ GenerationsUnique'
    BY <1>1, <2>1 DEF ConnectionInv, HolderAppends, GenerationsUnique
  <2>4. ConnectedIffCurrentStream'
    <3>1. CASE generation = gen[s]
      BY <1>1, <2>1, <2>2, <3>1 DEF ConnectionInv, GenerationsUnique, ConnectedIffCurrentStream
    <3>2. CASE generation # gen[s]
      BY <1>1, <2>1, <3>2 DEF ConnectionInv, ConnectedIffCurrentStream
    <3> QED BY <3>1, <3>2
  <2> QED BY <2>3, <2>4 DEF ConnectionInv
<1>10. ASSUME NEW s \in Streams, ActivateStream(s) PROVE ConnectionInv'
  <2>1. CASE exists
    <3>1. /\ pc[s] = "new" /\ pc' = [pc EXCEPT ![s] = "sync"]
          /\ generation' = generation + 1 /\ gen' = [gen EXCEPT ![s] = generation + 1]
          /\ stream_connected' = TRUE /\ UNCHANGED <<exists, holder>>
      BY <1>10, <2>1 DEF ActivateStream, Goto
    <3>2. HolderAppends' /\ GenerationsUnique'
      BY <1>1, <3>1 DEF ConnectionInv, HolderAppends, GenerationsUnique
    <3>3. ConnectedIffCurrentStream'
      BY <1>1, <3>1 DEF ConnectedIffCurrentStream
    <3> QED BY <3>2, <3>3 DEF ConnectionInv
  <2>2. CASE ~exists
    BY <1>3, <1>10, <2>2 DEF ActivateStream, Goto
  <2> QED BY <2>1, <2>2
<1>11. CASE \/ UNCHANGED vars \/ \E n \in Nodes, v \in Values : Notify(n, v)
            \/ ReconnectMode \/ Elapse \/ DeleteSubscription \/ ExpireSubscription
            \/ InitiateShutdown \/ CloseRelease \/ CloseClear
  BY <1>2, <1>11 DEF vars, taskVars, subVars, Notify, ReconnectMode, Elapse,
                     DeleteSubscription, ExpireSubscription, Remove, InitiateShutdown,
                     CloseRelease, CloseClear
<1>12. ASSUME NEW s \in Streams, StreamStep(s) PROVE ConnectionInv'
  BY <1>6, <1>7, <1>8, <1>9, <1>12 DEF StreamStep
<1>13. ASSUME NEW c \in Callers, CallerStep(c) PROVE ConnectionInv'
  BY <1>5, <1>6, <1>13 DEF CallerStep
<1> QED BY <1>5, <1>8, <1>10, <1>11, <1>12, <1>13 DEF Next

\* activate_stream and deactivate_stream: sync is refused exactly while the stream
\* that activated the current generation is there.
THEOREM ConnectionHolds == Spec => []ConnectedIffCurrentStream
<1>1. TypeInv /\ ConnectionInv => ConnectedIffCurrentStream
  BY DEF ConnectionInv
<1> QED BY <1>1, InitTypeInv, NextTypeInv, InitConnectionInv, NextConnectionInv, PTL DEF Spec

-----------------------------------------------------------------------------
(* Old generations                                                          *)

\* A stream that has yielded a batch after losing its generation is on its way out: it
\* never comes back to a place where it could yield another.
LateInv ==
    \A s \in Streams :
       /\ overdue[s] <= 1
       /\ overdue[s] # 0 => gen[s] # generation /\ pc[s] \in {"check", "closing", "closed"}

\* Initially no stream has lost a generation.
LEMMA InitLateInv == Init => LateInv
BY DEF Init, LateInv

\* A yield counts a late batch only for a stream that had none, and the stream is then
\* at the check that will send it away.
LEMMA YieldKeepsLate ==
  ASSUME TypeInv, LateInv, NEW s \in Streams, NEW batch, Yield(s, batch),
         UNCHANGED <<gen, generation>>, pc[s] \notin {"check", "closing", "closed"},
         batch # {} => pc' = [pc EXCEPT ![s] = "check"],
         batch = {} => \E l \in {"check", "waiting"} : pc' = [pc EXCEPT ![s] = l]
  PROVE  LateInv'
<1>1. overdue[s] = 0
  BY DEF LateInv
<1>2. /\ overdue \in [Streams -> Nat] /\ s \in Tasks
      /\ pc \in [Tasks -> CallerStates \cup StreamStates] /\ Streams \subseteq Tasks
  BY DEF TypeInv, TypeOK, Tasks
<1>3. CASE batch = {}
  BY <1>1, <1>2, <1>3 DEF Yield, sendVars, LateInv
<1>4. CASE batch # {}
  <2>1. overdue' = [overdue EXCEPT ![s] = IF gen[s] = generation THEN 0 ELSE 1]
    BY <1>1, <1>2, <1>4 DEF Yield
  <2> QED BY <1>1, <1>2, <1>4, <2>1 DEF LateInv
<1> QED BY <1>3, <1>4

\* Every step keeps it: a stream without the current generation fails the check, and a
\* generation once lost never comes back.
LEMMA NextLateInv == TypeInv /\ ConnectionInv /\ LateInv /\ [Next]_vars => LateInv'
<1> SUFFICES ASSUME TypeInv, ConnectionInv, LateInv, [Next]_vars PROVE LateInv'
  OBVIOUS
<1> USE TasksAssumption DEF Tasks
<1>1. /\ pc \in [Tasks -> CallerStates \cup StreamStates]
      /\ gen \in [Streams -> Nat] /\ generation \in Nat
      /\ overdue \in [Streams -> Nat]
  BY DEF TypeInv, TypeOK
<1>2. ASSUME UNCHANGED <<overdue, gen, generation>>,
             \A s \in Streams : \/ pc'[s] = pc[s]
                                \/ pc[s] \notin {"check", "closing", "closed"}
                                \/ pc'[s] \in {"closing", "closed"}
      PROVE  LateInv'
  BY <1>2 DEF LateInv
<1>3. ASSUME NEW c \in Callers,
             \/ \E S \in SUBSET Nodes : RegisterItems(c, S) \/ UnregisterItems(c, S)
             \/ \E ack \in {NoAck} \cup (-1 .. MaxSeq) : Sync(c, ack)
             \/ ApplyDiff(c) \/ SyncCollect(c)
      PROVE  LateInv'
  <2>1. /\ \A s \in Streams : pc'[s] = pc[s]
        /\ UNCHANGED <<overdue, gen, generation>>
    BY <1>1, <1>3 DEF RegisterItems, UnregisterItems, SetMonitored, Sync, SyncAck, ApplyDiff,
                      SyncCollect, Goto, genVars, sendVars
  <2> QED BY <1>2, <2>1
<1>4. ASSUME NEW t \in Tasks, Refresh(t) PROVE LateInv'
  <2>1. UNCHANGED <<overdue, gen, generation>>
    BY <1>4 DEF Refresh, RefreshBegin, RefreshLock, RefreshFail, RefreshAppend, RefreshDone,
                sendVars, genVars
  <2>2. CASE RefreshBegin(t) \/ RefreshFail(t) \/ RefreshLock(t)
    <3>1. /\ pc[t] \in {"refresh", "reading"}
          /\ \A s \in Streams : s # t => pc'[s] = pc[s]
      BY <1>1, <2>2 DEF RefreshBegin, RefreshFail, RefreshLock, Goto, Return
    <3> QED BY <1>2, <2>1, <3>1
  <2>3. CASE RefreshDone(t)
    <3>1. /\ t \in Streams => pc[t] = "appending"
          /\ \A s \in Streams : s # t => pc'[s] = pc[s]
      BY <1>1, <2>3 DEF RefreshDone, Goto, Return, ConnectionInv, HolderAppends
    <3> QED BY <1>2, <2>1, <3>1
  <2>4. CASE \E n \in Nodes, v \in Values : RefreshAppend(t, n, v)
    BY <1>2, <2>1, <2>4 DEF RefreshAppend
  <2> QED BY <1>4, <2>2, <2>3, <2>4 DEF Refresh
<1>5. ASSUME NEW s \in Streams, ActivateStream(s) PROVE LateInv'
  <2>1. pc[s] = "new" /\ overdue[s] = 0 /\ UNCHANGED overdue
    BY <1>5 DEF ActivateStream, LateInv, sendVars
  <2>2. CASE exists
    <3>1. /\ pc' = [pc EXCEPT ![s] = "sync"]
          /\ generation' = generation + 1 /\ gen' = [gen EXCEPT ![s] = generation + 1]
      BY <1>5, <2>2 DEF ActivateStream, Goto
    <3>2. \A r \in Streams : gen[r] <= generation
      BY DEF ConnectionInv, GenerationsUnique
    <3> QED BY <1>1, <2>1, <3>1, <3>2 DEF LateInv
  <2>3. CASE ~exists
    BY <1>1, <1>2, <1>5, <2>1, <2>3 DEF ActivateStream, Goto, genVars
  <2> QED BY <2>2, <2>3
<1>6. ASSUME NEW s \in Streams,
             StreamStart(s) \/ WaitBegin(s) \/ WaitWake(s) \/ WaitTimeoutResult(s)
      PROVE  LateInv'
  <2>1. UNCHANGED <<gen, generation>> /\ pc[s] \notin {"check", "closing", "closed"}
    BY <1>6 DEF StreamStart, WaitBegin, WaitWake, WaitTimeoutResult, genVars
  <2>2. CASE StreamStart(s)
    BY <2>1, <2>2, YieldKeepsLate DEF StreamStart, Goto
  <2>3. CASE InScope(s) /\ ~StreamStart(s)
    <3>1. /\ Yield(s, Pending(s))
          /\ Pending(s) # {} => pc' = [pc EXCEPT ![s] = "check"]
          /\ Pending(s) = {} => \E l \in {"check", "waiting"} : pc' = [pc EXCEPT ![s] = l]
      BY <1>6, <2>3 DEF WaitBegin, WaitWake, WaitTimeoutResult, WaitReturn, Goto
    <3> QED BY <2>1, <3>1, YieldKeepsLate
  <2>4. CASE ~InScope(s) /\ ~StreamStart(s)
    BY <1>1, <1>2, <1>6, <2>1, <2>4
       DEF WaitBegin, WaitWake, WaitTimeoutResult, WaitReturn, Goto, sendVars
  <2> QED BY <2>2, <2>3, <2>4
<1>7. ASSUME NEW s \in Streams, IsStreamActive(s) PROVE LateInv'
  <2>1. /\ pc[s] = "check" /\ UNCHANGED <<overdue, gen, generation>>
        /\ pc' = [pc EXCEPT ![s] = IF exists /\ generation = gen[s] THEN "wait" ELSE "closing"]
    BY <1>7 DEF IsStreamActive, Goto, sendVars, genVars
  <2> QED BY <1>1, <2>1 DEF LateInv
<1>8. ASSUME NEW s \in Streams,
             \/ StreamSync(s) \/ StreamCollect(s) \/ WaitAbort(s) \/ WaitTimeout(s)
             \/ WaitTimeoutReset(s) \/ DeactivateStream(s) \/ Disconnect(s) \/ Abandon(s)
      PROVE  LateInv'
  <2>1. /\ UNCHANGED <<overdue, gen, generation>>
        /\ \E l : pc' = [pc EXCEPT ![s] = l] /\ \/ l \in {"closing", "closed"}
                                                \/ pc[s] \notin {"check", "closing", "closed"}
    BY <1>8 DEF StreamSync, SyncAck, StreamCollect, WaitAbort, WaitTimeout, WaitTimeoutReset,
                DeactivateStream, Disconnect, Abandon, Goto, sendVars, genVars
  <2> QED BY <1>1, <1>2, <2>1
<1>9. CASE \/ UNCHANGED vars \/ \E n \in Nodes, v \in Values : Notify(n, v)
           \/ ReconnectMode \/ Elapse \/ DeleteSubscription \/ ExpireSubscription
           \/ InitiateShutdown \/ CloseRelease \/ CloseClear
  BY <1>2, <1>9 DEF vars, taskVars, genVars, sendVars, Notify, ReconnectMode, Elapse,
                    DeleteSubscription, ExpireSubscription, Remove, InitiateShutdown,
                    CloseRelease, CloseClear
<1>10. ASSUME NEW s \in Streams, StreamStep(s) PROVE LateInv'
  BY <1>4, <1>6, <1>7, <1>8, <1>10 DEF StreamStep
<1>11. ASSUME NEW c \in Callers, CallerStep(c) PROVE LateInv'
  BY <1>3, <1>4, <1>11 DEF CallerStep
<1> QED BY <1>3, <1>5, <1>8, <1>9, <1>10, <1>11 DEF Next

\* is_stream_active between two batches: a stream that another one has replaced yields at
\* most the batch it was already waiting for.
THEOREM OldStreamsStop == Spec => []OldStreamYieldsOneBatch
<1>1. TypeInv /\ ConnectionInv /\ LateInv => OldStreamYieldsOneBatch
  BY DEF LateInv, OldStreamYieldsOneBatch
<1> QED BY <1>1, InitTypeInv, NextTypeInv, InitConnectionInv, NextConnectionInv,
           InitLateInv, NextLateInv, PTL DEF Spec

-----------------------------------------------------------------------------
(* The refinement of Delivery                                               *)

\* A stream that has yielded nothing is at the beginning.
StartsAtZero == \A s \in Streams : sent[s] = {} => last_sequence[s] = 0

\* What an action does to the streams: nothing, or one of them yields the batch it was
\* opened with or what is pending for it, and the queue stays as it is.
YieldStep ==
    \E s \in Streams : \/ pc[s] = "opened" /\ Yield(s, preload[s])
                       \/ Yield(s, Pending(s))

\* Every action leaves the streams alone or is such a yield.
LEMMA SendStep ==
  ASSUME [Next]_vars
  PROVE  UNCHANGED sendVars \/ (YieldStep /\ UNCHANGED <<queueVars, ackVars>>)
<1> DEFINE Goal == UNCHANGED sendVars \/ (YieldStep /\ UNCHANGED <<queueVars, ackVars>>)
<1> SUFFICES Goal
  OBVIOUS
<1>1. ASSUME NEW t, Refresh(t) PROVE Goal
  BY <1>1 DEF Refresh, RefreshBegin, RefreshLock, RefreshFail, RefreshAppend, RefreshDone
<1>2. ASSUME NEW c \in Callers,
             \/ \E S \in SUBSET Nodes : RegisterItems(c, S) \/ UnregisterItems(c, S)
             \/ \E ack \in {NoAck} \cup (-1 .. MaxSeq) : Sync(c, ack)
             \/ ApplyDiff(c) \/ SyncCollect(c)
      PROVE  Goal
  BY <1>2 DEF RegisterItems, UnregisterItems, SetMonitored, Sync, SyncAck, ApplyDiff,
              SyncCollect
<1>3. ASSUME NEW s \in Streams,
             \/ StreamSync(s) \/ StreamCollect(s) \/ IsStreamActive(s) \/ WaitAbort(s)
             \/ WaitTimeout(s) \/ WaitTimeoutReset(s) \/ DeactivateStream(s)
             \/ ActivateStream(s) \/ Disconnect(s) \/ Abandon(s)
      PROVE  Goal
  BY <1>3 DEF StreamSync, SyncAck, StreamCollect, IsStreamActive, WaitAbort, WaitTimeout,
              WaitTimeoutReset, DeactivateStream, ActivateStream, Disconnect, Abandon
<1>4. ASSUME NEW s \in Streams,
             StreamStart(s) \/ WaitBegin(s) \/ WaitWake(s) \/ WaitTimeoutResult(s)
      PROVE  Goal
  BY <1>4 DEF StreamStart, WaitBegin, WaitWake, WaitTimeoutResult, WaitReturn, YieldStep
<1>5. CASE \/ UNCHANGED vars \/ \E n \in Nodes, v \in Values : Notify(n, v)
           \/ ReconnectMode \/ Elapse \/ DeleteSubscription \/ ExpireSubscription
           \/ InitiateShutdown \/ CloseRelease \/ CloseClear
  BY <1>5 DEF vars, Notify, ReconnectMode, Elapse, DeleteSubscription, ExpireSubscription,
              Remove, InitiateShutdown, CloseRelease, CloseClear
<1> HIDE DEF Goal
<1> QED BY <1>1, <1>2, <1>3, <1>4, <1>5 DEF Next, StreamStep, CallerStep

\* A yield of a non-empty batch makes the history of the stream non-empty.
LEMMA NextStartsAtZero == TypeInv /\ StartsAtZero /\ [Next]_vars => StartsAtZero'
<1> SUFFICES ASSUME TypeInv, StartsAtZero, [Next]_vars PROVE StartsAtZero'
  OBVIOUS
<1>1. CASE UNCHANGED sendVars
  BY <1>1 DEF sendVars, StartsAtZero
<1>2. ASSUME NEW s \in Streams, NEW batch, Yield(s, batch) PROVE StartsAtZero'
  <2>1. CASE batch = {}
    BY <1>1, <1>2, <2>1 DEF Yield
  <2>2. CASE batch # {}
    <3>1. SeqsOf(batch) # {}
      BY <2>2 DEF SeqsOf
    <3>2. /\ sent' = [sent EXCEPT ![s] = @ \cup SeqsOf(batch)]
          /\ \A r \in Streams : r # s => last_sequence'[r] = last_sequence[r]
      BY <1>2, <2>2 DEF Yield, TypeInv, TypeOK
    <3> HIDE DEF SeqsOf
    <3> QED BY <3>1, <3>2 DEF StartsAtZero, TypeInv, TypeOK
  <2> QED BY <2>1, <2>2
<1> QED BY <1>1, <1>2, SendStep DEF YieldStep

\* The number of entries is the number of their sequence numbers.
LEMMA SeqsCount ==
  ASSUME QueueInv PROVE Cardinality(SeqsOf(updates)) = Cardinality(updates)
<1> DEFINE f == [u \in updates |-> u.seq]
<1>1. f \in Bijection(updates, SeqsOf(updates))
  <2>1. f \in [updates -> SeqsOf(updates)]
    BY DEF SeqsOf
  <2>2. \A u, w \in updates : f[u] = f[w] => u = w
    BY DEF QueueInv, QueueIsNewestRun
  <2>3. \A k \in SeqsOf(updates) : \E u \in updates : f[u] = k
    BY DEF SeqsOf
  <2> QED BY <2>1, <2>2, <2>3 DEF Bijection, Injection, Surjection, IsInjective
<1>2. ExistsBijection(updates, SeqsOf(updates))
  BY <1>1 DEF ExistsBijection
<1> QED BY <1>2, FS_Bijection DEF QueueInv

\* An append that changes the last value is a change of the abstract specification.
LEMMA AppendIsChange ==
  ASSUME TypeInv, QueueInv, AppendStep, UNCHANGED sendVars
  PROVE  Promise!Change \/ UNCHANGED Promise!vars
<1>1. PICK n \in Nodes, v \in Values : AppendUpdate(n, v) /\ UNCHANGED ackVars
  BY DEF AppendStep
<1>2. CASE UNCHANGED <<queueVars, woken>>
  BY <1>1, <1>2 DEF queueVars, ackVars, sendVars, Promise!vars, SeqsOf
<1>3. CASE ~UNCHANGED <<queueVars, woken>>
  <2> DEFINE new  == [seq |-> sequence_number + 1, node |-> n, value |-> v]
             full == Cardinality(updates) >= MaxUpdates
             old  == IF full THEN {Oldest(updates).seq} ELSE {}
             kept == SeqsOf(updates)
  <2>1. /\ sequence_number' = sequence_number + 1
        /\ updates' = (IF full THEN updates \ {Oldest(updates)} ELSE updates) \cup {new}
        /\ lost' = lost \cup (kept \ SeqsOf(updates'))
        /\ UNCHANGED <<acked, last_sequence, sent>>
    BY <1>1, <1>3 DEF AppendUpdate, Enqueue, ackVars, sendVars
  <2>2. /\ \A u \in updates : u.seq \in Nat /\ u.seq <= sequence_number
        /\ updates \subseteq Update /\ sequence_number \in Nat
    BY DEF TypeInv, TypeOK, Bounded, Update
  <2>3. full => Oldest(updates) \in updates /\ \A w \in updates : Oldest(updates).seq <= w.seq
    BY <2>2, FullIsNotEmpty, OldestIsLeast
  <2>4. SeqsOf(updates') = (kept \ old) \cup {sequence_number + 1}
    <3>1. \A u, w \in updates : u.seq = w.seq => u = w
      BY DEF QueueInv, QueueIsNewestRun
    <3>2. SeqsOf(updates') \subseteq (kept \ old) \cup {sequence_number + 1}
      <4> SUFFICES ASSUME NEW u \in updates'
                   PROVE  u.seq \in (kept \ old) \cup {sequence_number + 1}
        BY DEF SeqsOf
      <4>1. CASE u = new
        BY <4>1
      <4>2. CASE u # new
        <5>1. u \in updates /\ (full => u # Oldest(updates))
          BY <2>1, <4>2
        <5> QED BY <2>3, <3>1, <5>1 DEF SeqsOf
      <4> QED BY <4>1, <4>2
    <3>3. sequence_number + 1 \in SeqsOf(updates')
      <4>1. new \in updates' /\ new.seq = sequence_number + 1
        BY <2>1
      <4> QED BY <4>1 DEF SeqsOf
    <3>4. kept \ old \subseteq SeqsOf(updates')
      <4> SUFFICES ASSUME NEW u \in updates, u.seq \notin old PROVE u.seq \in SeqsOf(updates')
        BY DEF SeqsOf
      <4>1. u \in updates'
        BY <2>1
      <4> QED BY <4>1 DEF SeqsOf
    <3> QED BY <3>2, <3>3, <3>4
  <2>5. old \in SUBSET kept /\ sequence_number + 1 \notin kept
    BY <2>2, <2>3 DEF SeqsOf
  <2>6. lost' = lost \cup old
    BY <2>1, <2>2, <2>4, <2>5
  <2>7. IF Cardinality(kept) < MaxUpdates THEN old = {}
        ELSE \E o \in kept : old = {o} /\ \A k \in kept : o <= k
    <3>1. Cardinality(kept) = Cardinality(updates) /\ Cardinality(updates) \in Nat
      BY SeqsCount, FS_CardinalityType DEF QueueInv
    <3>2. CASE full
      BY <2>3, <3>1, <3>2, MaxUpdatesAssumption DEF SeqsOf
    <3>3. CASE ~full
      BY <3>1, <3>3, MaxUpdatesAssumption
    <3> QED BY <3>2, <3>3
  <2> HIDE DEF new, full, old
  <2>8. SeqsOf(updates)' = (kept \ old) \cup {sequence_number + 1}
    BY <2>4 DEF SeqsOf
  <2>9. Promise!Cardinality(kept) = Cardinality(kept)
    BY DEF Promise!Cardinality, Cardinality
  <2> QED BY <2>1, <2>5, <2>6, <2>7, <2>8, <2>9 DEF Promise!Change
<1> QED BY <1>2, <1>3

\* An acknowledgement is one of the abstract specification: of everything for -1, of a
\* prefix for an issued number, of nothing otherwise.
LEMMA AckIsAcknowledge ==
  ASSUME TypeInv, NEW ack \in {NoAck} \cup Int, AckStep(ack), UNCHANGED sendVars
  PROVE  (\E k \in 0 .. sequence_number : Promise!Acknowledge(k)) \/ UNCHANGED Promise!vars
<1>1. /\ sequence_number \in Nat
      /\ \A u \in updates : u.seq \in 1 .. sequence_number
  BY DEF TypeInv, TypeOK, Bounded
<1>2. /\ updates' = updates \ Acknowledged(ack) /\ acked' = acked \cup Covered(ack)
      /\ UNCHANGED <<sequence_number, lost, last_sequence, sent>>
  BY DEF AckStep, sendVars
<1>3. ASSUME NEW k \in 0 .. sequence_number,
             Acknowledged(ack) = {u \in updates : u.seq <= k}, Covered(ack) = 1 .. k
      PROVE  Promise!Acknowledge(k)
  <2>1. SeqsOf(updates)' = {i \in SeqsOf(updates) : i > k}
    BY <1>1, <1>2, <1>3 DEF SeqsOf
  <2> QED BY <1>2, <1>3, <2>1 DEF Promise!Acknowledge
<1>4. CASE Acknowledged(ack) = {} /\ Covered(ack) = {}
  BY <1>2, <1>4 DEF Promise!vars, SeqsOf
<1>5. CASE ack = NoAck
  BY <1>4, <1>5, NoneAssumption DEF Acknowledged, Covered
<1>6. CASE ack = -1
  <2>1. Acknowledged(ack) = updates /\ Covered(ack) = 1 .. sequence_number
    BY <1>6, NoneAssumption DEF Acknowledged, Covered
  <2>2. updates = {u \in updates : u.seq <= sequence_number}
    BY <1>1
  <2> QED BY <1>1, <1>3, <2>1, <2>2
<1>7. CASE ack \in Int /\ ack # -1
  <2>1. ack # NoAck
    BY <1>7, NoneAssumption
  <2>2. CASE 0 <= ack /\ ack <= sequence_number
    BY <1>1, <1>3, <1>7, <2>1, <2>2 DEF Acknowledged, Covered
  <2>3. CASE ~(0 <= ack /\ ack <= sequence_number)
    BY <1>1, <1>4, <1>7, <2>1, <2>3 DEF Acknowledged, Covered
  <2> QED BY <2>2, <2>3
<1> QED BY <1>5, <1>6, <1>7

\* A yield of a non-empty batch is the next batch of one reader.
LEMMA YieldIsGive ==
  ASSUME TypeInv, NEW s \in Streams, NEW batch, batch \subseteq Update, batch # {},
         \A u \in batch : u.seq \in last_sequence[s] + 1 .. sequence_number,
         \A u \in batch : \A k \in last_sequence[s] + 1 .. u.seq :
            k \in SeqsOf(batch) \cup lost \cup acked,
         Yield(s, batch), UNCHANGED <<queueVars, ackVars>>
  PROVE  \E k \in 1 .. sequence_number : Promise!Give(s, k)
<1> DEFINE top == Newest(batch)
<1>1. last_sequence[s] \in Nat /\ sequence_number \in Nat
  BY DEF TypeInv, TypeOK
<1>2. top \in batch /\ \A w \in batch : w.seq <= top.seq
  BY <1>1, NewestIsGreatest
<1>3. /\ last_sequence' = [last_sequence EXCEPT ![s] = top.seq]
      /\ sent' = [sent EXCEPT ![s] = @ \cup SeqsOf(batch)]
  BY DEF Yield
<1>4. UNCHANGED <<sequence_number, SeqsOf(updates), acked, lost>>
  BY DEF queueVars, ackVars, SeqsOf
<1> HIDE DEF top
<1>5. SeqsOf(batch) \in SUBSET (last_sequence[s] + 1 .. top.seq) /\ top.seq \in SeqsOf(batch)
  BY <1>1, <1>2 DEF SeqsOf
<1>6. (last_sequence[s] + 1 .. top.seq) \ SeqsOf(batch) \subseteq acked \cup lost
  BY <1>2
<1>7. top.seq \in 1 .. sequence_number /\ top.seq > last_sequence[s]
  BY <1>1, <1>2
<1> HIDE DEF SeqsOf
<1> QED BY <1>3, <1>4, <1>5, <1>6, <1>7 DEF Promise!Give

\* The invariants under which every step maps to a step of Delivery or to a stutter.
DeliveryInv == TypeInv /\ QueueInv /\ StreamInv /\ StartsAtZero

\* Every step of every task is a change, an acknowledgement, the next batch of one
\* reader, or none of these.
LEMMA StepImplements ==
  ASSUME DeliveryInv, [Next]_vars PROVE [Promise!Next]_(Promise!vars)
<1> USE DEF DeliveryInv
<1>1. ASSUME NEW s \in Streams, NEW batch, Yield(s, batch), batch \subseteq Update,
             \A u \in batch : u.seq \in last_sequence[s] + 1 .. sequence_number,
             \A u \in batch : \A k \in last_sequence[s] + 1 .. u.seq :
                k \in SeqsOf(batch) \cup lost \cup acked,
             UNCHANGED <<queueVars, ackVars>>
      PROVE  [Promise!Next]_(Promise!vars)
  <2>1. CASE batch = {}
    BY <1>1, <2>1 DEF Yield, sendVars, queueVars, ackVars, Promise!vars, SeqsOf
  <2>2. CASE batch # {}
    BY <1>1, <2>2, YieldIsGive DEF Promise!Next
  <2> QED BY <2>1, <2>2
<1>2. CASE YieldStep /\ UNCHANGED <<queueVars, ackVars>>
  <2>1. ASSUME NEW s \in Streams, pc[s] = "opened", Yield(s, preload[s])
        PROVE  [Promise!Next]_(Promise!vars)
    <3>1. last_sequence[s] = 0
      BY <2>1 DEF StreamInv, NothingSentBefore, StartsAtZero
    <3>2. /\ preload[s] \subseteq Update
          /\ \A u \in preload[s] : u.seq \in 1 .. sequence_number
          /\ \A u \in preload[s] : \A k \in 1 .. u.seq :
                k \in SeqsOf(preload[s]) \cup lost \cup acked
      BY DEF TypeInv, TypeOK, Bounded, StreamInv, PreloadHasNoGap
    <3> QED BY <1>1, <1>2, <2>1, <3>1, <3>2
  <2>2. ASSUME NEW s \in Streams, Yield(s, Pending(s))
        PROVE  [Promise!Next]_(Promise!vars)
    <3>1. /\ last_sequence[s] \in Nat /\ sequence_number \in Nat
          /\ \A k \in sent[s] : k <= last_sequence[s]
          /\ \A u \in updates : u.seq \in Nat
      BY DEF TypeInv, TypeOK, Update, StreamInv, SentIsBelow
    <3>2. /\ Pending(s) \subseteq Update
          /\ \A u \in Pending(s) : u.seq \in 1 .. sequence_number
          /\ \A u \in Pending(s) : \A k \in 1 .. u.seq :
                k \in SeqsOf(Pending(s)) \cup sent[s] \cup lost \cup acked
      BY PendingHasNoGap
    <3>3. \A u \in Pending(s) : u.seq \in last_sequence[s] + 1 .. sequence_number
      BY <3>1, <3>2 DEF Pending
    <3>4. \A u \in Pending(s) : \A k \in last_sequence[s] + 1 .. u.seq :
             k \in SeqsOf(Pending(s)) \cup lost \cup acked
      BY <3>1, <3>2, <3>3
    <3> QED BY <1>1, <1>2, <2>2, <3>2, <3>3, <3>4
  <2> QED BY <1>2, <2>1, <2>2 DEF YieldStep
<1>3. CASE UNCHANGED sendVars
  <2>1. CASE UNCHANGED <<queueVars, ackVars>> \/ ReportStep \/ ForgetStep
    BY <1>3, <2>1 DEF queueVars, ackVars, sendVars, ReportStep, ForgetStep, Promise!vars, SeqsOf
  <2>2. CASE AppendStep
    BY <1>3, <2>2, AppendIsChange DEF Promise!Next
  <2>3. ASSUME NEW ack \in {NoAck} \cup Int, AckStep(ack)
        PROVE  [Promise!Next]_(Promise!vars)
    BY <1>3, <2>3, AckIsAcknowledge DEF Promise!Next
  <2> QED BY <2>1, <2>2, <2>3, QueueStep DEF TypeInv
<1> QED BY <1>2, <1>3, SendStep

\* The service implements the promise of Delivery: whatever the requests, the refreshes
\* and the streams do, the numbers are changed, acknowledged and given as it says.
THEOREM QueueImplementsDelivery == Spec => ImplementsDelivery
<1>1. Init => Promise!Init /\ StartsAtZero
  BY DEF Init, Promise!Init, SeqsOf, StartsAtZero
<1>2. DeliveryInv /\ [Next]_vars => [Promise!Next]_(Promise!vars)
  BY StepImplements
<1>3. Spec => []DeliveryInv
  BY <1>1, NextStartsAtZero, StreamInvariant, PTL DEF Spec, DeliveryInv
<1> QED BY <1>1, <1>2, <1>3, PTL DEF Spec, ImplementsDelivery, Promise!Spec

=============================================================================
