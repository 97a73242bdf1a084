---------------------------- MODULE Session_proofs ----------------------------
(***************************************************************************)
(* Theorems about Session, for any tasks, tracked subscriptions and number  *)
(* of losses.                                                               *)
(***************************************************************************)
EXTENDS Session, TLAPS

-----------------------------------------------------------------------------
(* The inductive invariants                                                 *)

Requesting == {"write", "call"}

\* What the request r of a task says about how often the server has applied it, n: not at
\* all before it is sent and as long as it may still be processed, once after the write of
\* a write that reads its value back, and once when the task was told anything but a
\* plain error.  Only reads and browses wait for a reconnect.
Fits(r, n) ==
    /\ n \in 0 .. 1
    /\ r.kind \notin Requesting => n = 0
    /\ r.kind \in Requesting /\ r.stage = 1 /\ r.pc \in {"idle", "gate", "queue"} => n = 0
    /\ r.kind \in Requesting /\ r.stage = 1 /\ r.sent => n = 0
    /\ r.kind = "write" /\ r.stage = 2 => n = 1
    /\ r.kind = "call" => r.stage = 1
    /\ r.pc = "idle" => r = NoCall
    /\ r.pc \in {"gate", "queue", "await"} => ~r.sent
    /\ r.pc = "await" => r.kind \in {"read", "browse"}
    /\ r.kind \in Requesting /\ r.out \notin {"none", "error"} => n = 1
    /\ r.pc # "end" => r.out = "none"

CallInv == \A c \in Callers : Fits(call[c], applied[c])

\* Missing type definitions are being loaded, or the handler has still to be told.
DefinitionsInv ==
    boot = "up" /\ typedefs = "missing" => handler = "typedefs" \/ (event /\ recreated)

CallRecords == [pc : {"idle", "gate", "queue", "wire", "await", "end"},
                kind : {"none", "read", "browse", "write", "call"},
                stage : 1 .. 2, tries : 0 .. 2, sent : BOOLEAN,
                out : {"none", "ok", "error", "uncertain", "unsupported"}]

\* The types of the requests and of what the server has applied.
CallTypes ==
    /\ call \in [Callers -> CallRecords]
    /\ node \in Callers \cup {Plant} /\ applied \in [Callers -> Nat]

\* The types of the rest.
LinkTypes ==
    /\ link \in {"closed", "connected"} \cup Reconnecting
    /\ {valid, reused, event, recreated, unheard} \subseteq BOOLEAN
    /\ losses \in 0 .. MaxLoss /\ hung \subseteq Tracked /\ todo \subseteq Tracked
    /\ boot \in {"off", "typedefs", "up", "stopping", "down"}
    /\ snapshot \in {"Connected", "Reconnecting", "Disconnected"}
    /\ changes \in Seq({"connected", "lost"})
    /\ handler \in {"off", "wait", "typedefs", "listen"}
    /\ typedefs \in {"loaded", "missing", "failed"}

WriteInv == CallTypes /\ CallInv

\* The two halves of the type invariant.
LEMMA TypesSplit == LinkTypes /\ CallTypes => TypeOK
BY DEF LinkTypes, CallTypes, TypeOK, CallRecords

\* The request of an operation that goes on with its second stage.
SecondStage(r) == [r EXCEPT !.pc = "gate", !.stage = 2, !.tries = 1, !.sent = FALSE]

\* It is a request again, of the same kind.
LEMMA SecondStageRecord ==
  ASSUME NEW r \in CallRecords
  PROVE  /\ SecondStage(r) \in CallRecords /\ SecondStage(r).pc = "gate"
         /\ SecondStage(r).stage = 2 /\ SecondStage(r).sent = FALSE
         /\ SecondStage(r).kind = r.kind /\ SecondStage(r).out = r.out
<1> DEFINE s == 2
           n == 1
           no == FALSE
           d == [r EXCEPT !.pc = "gate", !.stage = s]
           e == [d EXCEPT !.tries = n, !.sent = no]
<1>0. s = 2 /\ s \in 1 .. 2 /\ n \in 0 .. 2 /\ no \in BOOLEAN /\ no = FALSE /\ SecondStage(r) = e
  BY DEF SecondStage
<1> HIDE DEF s, n, no
<1>1. d \in CallRecords
  BY <1>0 DEF CallRecords
<1>2. d.pc = "gate" /\ d.stage = s
  BY DEF CallRecords
<1>3. d.kind = r.kind /\ d.out = r.out
  BY DEF CallRecords
<1> HIDE DEF d
<1>5. e \in CallRecords
  BY <1>0, <1>1 DEF CallRecords
<1>6. e.pc = d.pc /\ e.stage = d.stage
  BY <1>1 DEF CallRecords
<1>7. e.kind = d.kind /\ e.out = d.out
  BY <1>1 DEF CallRecords
<1>8. e.sent = no
  BY <1>1 DEF CallRecords
<1> HIDE DEF e
<1> QED BY <1>0, <1>2, <1>3, <1>5, <1>6, <1>7, <1>8

\* The request of a task that is done.
Final(k, o, b) == [NoCall EXCEPT !.pc = "end", !.kind = k, !.out = o, !.sent = b]

\* It is a request record, with what it was given.
LEMMA FinalRecord ==
  ASSUME NEW k \in {"none", "read", "browse", "write", "call"}, NEW b \in BOOLEAN,
         NEW o \in {"ok", "error", "uncertain", "unsupported"}
  PROVE  /\ Final(k, o, b) \in CallRecords /\ Final(k, o, b).pc = "end"
         /\ Final(k, o, b).kind = k /\ Final(k, o, b).stage = 1
         /\ Final(k, o, b).out = o /\ Final(k, o, b).sent = b
<1> DEFINE d == [NoCall EXCEPT !.pc = "end", !.kind = k]
           e == [d EXCEPT !.out = o, !.sent = b]
<1>1. NoCall \in CallRecords /\ NoCall.stage = 1
  BY DEF NoCall, CallRecords
<1>2. d \in CallRecords
  BY <1>1 DEF CallRecords
<1>3. d.pc = "end" /\ d.kind = k /\ d.stage = 1
  BY <1>1 DEF CallRecords
<1>4. Final(k, o, b) = e
  BY DEF Final
<1> HIDE DEF d
<1>5. e \in CallRecords
  BY <1>2 DEF CallRecords
<1>6. e.pc = d.pc /\ e.kind = d.kind /\ e.stage = d.stage
  BY <1>2 DEF CallRecords
<1>7. e.out = o /\ e.sent = b
  BY <1>2 DEF CallRecords
<1> HIDE DEF e
<1> QED BY <1>3, <1>4, <1>5, <1>6, <1>7

-----------------------------------------------------------------------------
(* What becomes of a request                                                *)

\* A task that ends: with an error the request may still be processed, and then has not
\* been; any other end of a write or call comes after it was applied.
LEMMA EndedFits ==
  ASSUME NEW c \in Callers, call[c] \in CallRecords, NEW n \in Nat, Fits(call[c], n),
         NEW o \in {"ok", "error", "uncertain", "unsupported"}, call[c].pc # "idle",
         call[c].kind \in Requesting /\ o # "error" => n = 1
  PROVE  Ended(c, o) \in CallRecords /\ Fits(Ended(c, o), n)
<1> DEFINE b == (o = "error" /\ call[c].sent /\ Changes(c))
           e == Final(call[c].kind, o, b)
<1>1. Ended(c, o) = e
  BY DEF Ended, Final
<1>2. b \in BOOLEAN
  OBVIOUS
<1>3. b = TRUE => call[c].sent /\ call[c].kind \in Requesting /\ call[c].stage = 1
  BY DEF Changes, Requesting
<1> HIDE DEF b
<1>5. call[c].kind \in {"none", "read", "browse", "write", "call"}
  BY DEF CallRecords
<1>6. /\ e \in CallRecords /\ e.pc = "end" /\ e.kind = call[c].kind /\ e.stage = 1
      /\ e.out = o /\ e.sent = b
  BY <1>2, <1>5, FinalRecord
<1> HIDE DEF e
<1>7. Fits(e, n)
  BY <1>2, <1>3, <1>6 DEF Fits, Requesting
<1> QED BY <1>1, <1>6, <1>7

\* A request without an answer: a read or browse may wait for the reconnect, a write or
\* call is never repeated.
LEMMA UnansweredFits ==
  ASSUME NEW c \in Callers, call[c] \in CallRecords, NEW n \in Nat, Fits(call[c], n),
         NEW r \in {"lost", "closed", "timeout", "gate"}, call[c].pc \notin {"idle", "end"}
  PROVE  After(c, r) \in CallRecords /\ Fits(After(c, r), n)
<1>1. CASE ShouldRetry(c, r)
  <2>1. After(c, r) = [call[c] EXCEPT !.pc = "await", !.sent = FALSE]
    BY <1>1 DEF After
  <2>2. call[c].kind \in {"read", "browse"}
    BY <1>1 DEF ShouldRetry
  <2> QED BY <2>1, <2>2 DEF CallRecords, Fits, Requesting
<1>2. CASE ~ShouldRetry(c, r)
  <2>1. After(c, r) = Ended(c, Failure(c))
    BY <1>2 DEF After
  <2>2. /\ Failure(c) \in {"ok", "error", "uncertain", "unsupported"}
        /\ call[c].kind \in Requesting /\ Failure(c) # "error" => n = 1
    BY DEF Failure, Fits, Requesting
  <2> QED BY <2>1, <2>2, EndedFits
<1> QED BY <1>1, <1>2

\* An answer: the request has been applied once, and was not before.
LEMMA AnsweredFits ==
  ASSUME NEW c \in Callers, call[c] \in CallRecords, NEW n \in Nat, Fits(call[c], n),
         call[c].pc = "wire", call[c].sent
  PROVE  LET m == IF Changes(c) THEN n + 1 ELSE n
         IN  After(c, "ok") \in CallRecords /\ m \in Nat /\ Fits(After(c, "ok"), m)
<1> DEFINE m == IF Changes(c) THEN n + 1 ELSE n
<1>1. m \in Nat /\ m \in 0 .. 1 /\ (call[c].kind \in Requesting => m = 1)
      /\ (call[c].kind \notin Requesting => m = 0)
  BY DEF Changes, Fits, Requesting, CallRecords
<1> HIDE DEF m
<1>2. CASE call[c].stage = 1 /\ call[c].kind \in {"write", "browse"}
  <2> DEFINE e == SecondStage(call[c])
  <2>1. After(c, "ok") = e
    BY <1>2 DEF After, SecondStage
  <2>2. /\ e \in CallRecords /\ e.pc = "gate" /\ e.stage = 2 /\ e.sent = FALSE
        /\ e.kind = call[c].kind /\ e.out = call[c].out
    BY SecondStageRecord
  <2>3. call[c].out = "none"
    BY DEF Fits
  <2> HIDE DEF e
  <2>4. Fits(e, m)
    BY <1>1, <1>2, <2>2, <2>3 DEF Fits, Requesting
  <2> QED BY <1>1, <2>1, <2>2, <2>4 DEF m
<1>3. CASE ~(call[c].stage = 1 /\ call[c].kind \in {"write", "browse"})
  <2> DEFINE no == FALSE
             e == Final(call[c].kind, Verdict(c), no)
  <2>2. /\ Verdict(c) \in {"ok", "error", "uncertain", "unsupported"} /\ Verdict(c) # "error"
        /\ call[c].kind \in {"none", "read", "browse", "write", "call"} /\ FALSE \in BOOLEAN
    BY DEF Verdict, CallRecords
  <2>3. After(c, "ok") = e
    <3>1. (Verdict(c) = "error" /\ call[c].sent /\ Changes(c)) = FALSE
      BY <2>2
    <3> QED BY <1>3, <3>1 DEF After, Ended, Final
  <2>4. /\ e \in CallRecords /\ e.pc = "end" /\ e.kind = call[c].kind /\ e.stage = 1
        /\ e.out = Verdict(c) /\ e.sent = FALSE
    <3>1. no \in BOOLEAN /\ no = FALSE
      OBVIOUS
    <3> HIDE DEF no
    <3> QED BY <2>2, <3>1, FinalRecord
  <2> HIDE DEF e
  <2>5. Fits(e, m)
    BY <1>1, <2>2, <2>4 DEF Fits, Requesting
  <2> QED BY <1>1, <2>3, <2>4, <2>5 DEF m
<1> QED BY <1>2, <1>3

-----------------------------------------------------------------------------
(* The requests                                                             *)

\* One request moves on.
LEMMA MoveCall ==
  ASSUME WriteInv, NEW c \in Callers, NEW r \in CallRecords, NEW n \in Nat, Fits(r, n),
         call' = [call EXCEPT ![c] = r], applied' = [applied EXCEPT ![c] = n],
         node' \in Callers \cup {Plant}
  PROVE  WriteInv'
<1>1. call \in [Callers -> CallRecords] /\ applied \in [Callers -> Nat]
  BY DEF WriteInv, CallTypes
<1>2. CallTypes'
  BY <1>1 DEF CallTypes
<1>3. /\ call'[c] = r /\ applied'[c] = n
      /\ \A d \in Callers : d # c => call'[d] = call[d] /\ applied'[d] = applied[d]
  BY <1>1
<1>4. CallInv'
  BY <1>3 DEF CallInv, WriteInv
<1> QED BY <1>2, <1>4 DEF WriteInv

\* One request moves on and the server does nothing.
LEMMA MoveCallOnly ==
  ASSUME WriteInv, NEW c \in Callers, NEW r \in CallRecords, Fits(r, applied[c]),
         call' = [call EXCEPT ![c] = r], UNCHANGED <<node, applied>>
  PROVE  WriteInv'
<1>1. applied[c] \in Nat /\ applied' = [applied EXCEPT ![c] = applied[c]]
      /\ node' \in Callers \cup {Plant}
  BY DEF WriteInv, CallTypes
<1> QED BY <1>1, MoveCall

\* The request of a task fits what was applied.
LEMMA CallFacts ==
  ASSUME WriteInv, NEW c \in Callers
  PROVE  call[c] \in CallRecords /\ applied[c] \in Nat /\ Fits(call[c], applied[c])
BY DEF WriteInv, CallTypes, CallInv

\* All requests on the wire fail at once.
LEMMA FailOnWireKeeps ==
  ASSUME WriteInv, FailOnWire, UNCHANGED <<node, applied>>
  PROVE  WriteInv'
<1>1. \A c \in Callers : call'[c] = IF call[c].pc = "wire" THEN After(c, "closed") ELSE call[c]
  BY DEF FailOnWire
<1>2. ASSUME NEW c \in Callers
      PROVE  call'[c] \in CallRecords /\ Fits(call'[c], applied[c])
  <2>1. call[c] \in CallRecords /\ applied[c] \in Nat /\ Fits(call[c], applied[c])
    BY CallFacts
  <2>2. CASE call[c].pc = "wire"
    BY <1>1, <2>1, <2>2, UnansweredFits
  <2>3. CASE call[c].pc # "wire"
    BY <1>1, <2>1, <2>3
  <2> QED BY <2>2, <2>3
<1>3. call' \in [Callers -> CallRecords]
  <2>1. DOMAIN call' = Callers /\ call' = [c \in Callers |-> call'[c]]
    BY DEF FailOnWire
  <2> QED BY <1>2, <2>1
<1>4. CallTypes'
  BY <1>3 DEF WriteInv, CallTypes
<1>5. CallInv'
  BY <1>2 DEF CallInv
<1> QED BY <1>4, <1>5 DEF WriteInv

\* A task begins its operation.
LEMMA BeginKeeps ==
  ASSUME WriteInv, NEW c \in Callers, NEW k \in {"read", "browse", "write", "call"}, Begin(c, k)
  PROVE  WriteInv'
<1> DEFINE n == 1
           r == [call[c] EXCEPT !.pc = "gate", !.kind = k, !.tries = n]
<1>1. call[c] \in CallRecords /\ Fits(call[c], applied[c]) /\ n \in 0 .. 2
  BY CallFacts
<1>2. call' = [call EXCEPT ![c] = r] /\ call[c].pc = "idle" /\ UNCHANGED <<node, applied>>
  BY DEF Begin, dataVars
<1> HIDE DEF n
<1>3. /\ applied[c] = 0 /\ call[c].stage = 1 /\ call[c].sent = FALSE /\ call[c].out = "none"
  BY <1>1, <1>2 DEF Fits, NoCall, Requesting
<1>4. r \in CallRecords
  BY <1>1 DEF CallRecords
<1>5. r.pc = "gate" /\ r.kind = k
  BY <1>1 DEF CallRecords
<1>6. r.stage = call[c].stage /\ r.sent = call[c].sent /\ r.out = call[c].out
  BY <1>1 DEF CallRecords
<1> HIDE DEF r
<1>7. Fits(r, applied[c])
  BY <1>3, <1>5, <1>6 DEF Fits, Requesting
<1> QED BY <1>2, <1>4, <1>7, MoveCallOnly

\* A request that only goes on to its next step.
LEMMA AdvanceKeeps ==
  ASSUME WriteInv, NEW c \in Callers, NEW p \in {"gate", "queue", "wire"},
         NEW r \in CallRecords, r.pc = p, r.kind = call[c].kind, r.stage = call[c].stage,
         r.out = call[c].out, call[c].pc \notin {"idle", "end"},
         p = "gate" => call[c].kind \in {"read", "browse"},
         p = "wire" => call[c].pc = "queue",
         p # "wire" => call[c].pc \in {"gate", "await"} /\ r.sent = call[c].sent,
         p # "gate" => call[c].pc # "await",
         call' = [call EXCEPT ![c] = r], UNCHANGED <<node, applied>>
  PROVE  WriteInv'
<1>1. Fits(call[c], applied[c])
  BY CallFacts
<1>2. Fits(r, applied[c])
  BY <1>1 DEF Fits, Requesting
<1> QED BY <1>2, MoveCallOnly

\* A request that gets no answer.
LEMMA UnansweredKeeps ==
  ASSUME WriteInv, NEW c \in Callers, NEW o \in {"lost", "closed", "timeout", "gate"},
         call[c].pc \notin {"idle", "end"},
         call' = [call EXCEPT ![c] = After(c, o)], UNCHANGED <<node, applied>>
  PROVE  WriteInv'
<1>1. call[c] \in CallRecords /\ applied[c] \in Nat /\ Fits(call[c], applied[c])
  BY CallFacts
<1>2. After(c, o) \in CallRecords /\ Fits(After(c, o), applied[c])
  BY <1>1, UnansweredFits
<1> QED BY <1>2, MoveCallOnly

\* A request passes the gate, or does not.
LEMMA PassGateKeeps == ASSUME WriteInv, NEW c \in Callers, PassGate(c) PROVE WriteInv'
<1>1. call[c].pc = "gate" /\ UNCHANGED <<node, applied>> /\ call[c] \in CallRecords
  BY CallFacts DEF PassGate, dataVars
<1>2. CASE call' = [call EXCEPT ![c].pc = "queue"]
  <2> DEFINE r == [call[c] EXCEPT !.pc = "queue"]
  <2>1. call' = [call EXCEPT ![c] = r]
    BY <1>2
  <2>2. r \in CallRecords
    BY <1>1 DEF CallRecords
  <2>3. r.pc = "queue" /\ r.kind = call[c].kind /\ r.stage = call[c].stage /\ r.out = call[c].out
    BY <1>1 DEF CallRecords
  <2>4. r.sent = call[c].sent
    BY <1>1 DEF CallRecords
  <2> HIDE DEF r
  <2> QED BY <1>1, <2>1, <2>2, <2>3, <2>4, AdvanceKeeps
<1>3. CASE call' = [call EXCEPT ![c] = After(c, "gate")]
  BY <1>1, <1>3, UnansweredKeeps
<1> QED BY <1>2, <1>3 DEF PassGate

\* A request gets a slot and is sent, or fails before it is.
LEMMA SendRequestKeeps == ASSUME WriteInv, NEW c \in Callers, SendRequest(c) PROVE WriteInv'
<1>1. call[c].pc = "queue" /\ UNCHANGED <<node, applied>> /\ call[c] \in CallRecords
  BY CallFacts DEF SendRequest, dataVars
<1>2. CASE call' = [call EXCEPT ![c].pc = "wire", ![c].sent = TRUE]
  <2> DEFINE yes == TRUE
             r == [call[c] EXCEPT !.pc = "wire", !.sent = yes]
  <2>1. call' = [call EXCEPT ![c] = r] /\ yes \in BOOLEAN
    BY <1>1, <1>2 DEF WriteInv, CallTypes
  <2> HIDE DEF yes
  <2>2. r \in CallRecords
    BY <1>1, <2>1 DEF CallRecords
  <2>3. r.pc = "wire" /\ r.kind = call[c].kind /\ r.stage = call[c].stage /\ r.out = call[c].out
    BY <1>1 DEF CallRecords
  <2> HIDE DEF r
  <2> QED BY <1>1, <2>1, <2>2, <2>3, AdvanceKeeps
<1>3. CASE \E o \in {"closed", "timeout"} : call' = [call EXCEPT ![c] = After(c, o)]
  BY <1>1, <1>3, UnansweredKeeps
<1> QED BY <1>2, <1>3 DEF SendRequest

\* Only a read or a browse is sent once more after a reconnect.
LEMMA AwaitReconnectKeeps == ASSUME WriteInv, NEW c \in Callers, AwaitReconnect(c) PROVE WriteInv'
<1>1. /\ call[c].pc = "await" /\ UNCHANGED <<node, applied>> /\ call[c] \in CallRecords
      /\ applied[c] \in Nat /\ Fits(call[c], applied[c])
  BY CallFacts DEF AwaitReconnect, dataVars
<1>2. call[c].kind \in {"read", "browse"}
  BY <1>1 DEF Fits
<1>3. CASE call' = [call EXCEPT ![c].pc = "gate", ![c].tries = 2]
  <2> DEFINE n == 2
             r == [call[c] EXCEPT !.pc = "gate", !.tries = n]
  <2>0. call' = [call EXCEPT ![c] = r]
    BY <1>3
  <2>1. n \in 0 .. 2
    OBVIOUS
  <2> HIDE DEF n
  <2>2. r \in CallRecords
    BY <1>1, <2>1 DEF CallRecords
  <2>3. r.pc = "gate" /\ r.kind = call[c].kind /\ r.stage = call[c].stage /\ r.out = call[c].out
    BY <1>1 DEF CallRecords
  <2>4. r.sent = call[c].sent
    BY <1>1 DEF CallRecords
  <2> HIDE DEF r
  <2> QED BY <1>1, <1>2, <2>0, <2>1, <2>2, <2>3, <2>4, AdvanceKeeps
<1>4. CASE call' = [call EXCEPT ![c] = Ended(c, Failure(c))]
  <2>1. Failure(c) = "error"
    BY <1>2 DEF Failure
  <2>2. Ended(c, "error") \in CallRecords /\ Fits(Ended(c, "error"), applied[c])
    BY <1>1, EndedFits
  <2> QED BY <1>1, <1>4, <2>1, <2>2, MoveCallOnly
<1> QED BY <1>3, <1>4 DEF AwaitReconnect

\* The effect of a request on the server.
LEMMA ApplyEffect ==
  ASSUME WriteInv, NEW c \in Callers, Apply(c)
  PROVE  /\ applied' = [applied EXCEPT ![c] = IF Changes(c) THEN applied[c] + 1 ELSE applied[c]]
         /\ node' \in Callers \cup {Plant}
BY DEF WriteInv, CallTypes, Apply

\* The server processes a request and its answer arrives.
LEMMA ServeRequestKeeps == ASSUME WriteInv, NEW c \in Callers, ServeRequest(c) PROVE WriteInv'
<1> DEFINE m == IF Changes(c) THEN applied[c] + 1 ELSE applied[c]
<1>1. /\ call[c] \in CallRecords /\ applied[c] \in Nat /\ Fits(call[c], applied[c])
      /\ call[c].pc = "wire" /\ call[c].sent /\ call' = [call EXCEPT ![c] = After(c, "ok")]
  BY CallFacts DEF ServeRequest
<1>2. applied' = [applied EXCEPT ![c] = m] /\ node' \in Callers \cup {Plant}
  BY ApplyEffect DEF ServeRequest
<1>3. After(c, "ok") \in CallRecords /\ m \in Nat /\ Fits(After(c, "ok"), m)
  BY <1>1, AnsweredFits
<1> HIDE DEF m
<1> QED BY <1>1, <1>2, <1>3, MoveCall

\* The server processes a request and nobody hears of it.
LEMMA ServeUnheardKeeps == ASSUME WriteInv, NEW c \in Callers, ServeUnheard(c) PROVE WriteInv'
<1> DEFINE no == FALSE
           m == applied[c] + 1
           r == [call[c] EXCEPT !.sent = no]
<1>1. /\ call[c] \in CallRecords /\ applied[c] \in Nat /\ Fits(call[c], applied[c])
      /\ call[c].sent /\ Changes(c) /\ call' = [call EXCEPT ![c] = r] /\ no \in BOOLEAN /\ no = FALSE
  BY CallFacts DEF ServeUnheard
<1> HIDE DEF no
<1>2. applied[c] = 0 /\ call[c].kind \in Requesting /\ call[c].stage = 1
  BY <1>1 DEF Fits, Changes, Requesting
<1>3. applied' = [applied EXCEPT ![c] = m] /\ node' \in Callers \cup {Plant} /\ m = 1 /\ m \in Nat
  BY <1>1, <1>2, ApplyEffect DEF ServeUnheard
<1>4. r \in CallRecords
  BY <1>1 DEF CallRecords
<1>5. r.pc = call[c].pc /\ r.kind = call[c].kind /\ r.stage = call[c].stage
  BY <1>1 DEF CallRecords
<1>6. r.out = call[c].out /\ r.sent = no
  BY <1>1 DEF CallRecords
<1> HIDE DEF r, m
<1>7. call[c].pc \notin {"idle", "gate", "queue", "await"}
  BY <1>1, <1>2, <1>3 DEF Fits, NoCall, Requesting
<1>8. Fits(r, m)
  BY <1>1, <1>2, <1>3, <1>5, <1>6, <1>7 DEF Fits, Requesting
<1> QED BY <1>1, <1>3, <1>4, <1>8, MoveCall

\* No request has begun and nothing was applied.
LEMMA InitWriteInv == Init => WriteInv
<1> SUFFICES ASSUME Init PROVE WriteInv
  OBVIOUS
<1>1. NoCall \in CallRecords /\ Fits(NoCall, 0)
  BY DEF NoCall, CallRecords, Fits, Requesting
<1>2. /\ call = [c \in Callers |-> NoCall] /\ applied = [c \in Callers |-> 0] /\ node = Plant
  BY DEF Init
<1>3. CallTypes
  BY <1>1, <1>2 DEF CallTypes
<1>4. CallInv
  BY <1>1, <1>2 DEF CallInv
<1> QED BY <1>3, <1>4 DEF WriteInv

\* Every step of a task, of the server or of the link keeps requests and effects in step.
LEMMA NextWriteInv == WriteInv /\ [Next]_vars => WriteInv'
<1> SUFFICES ASSUME WriteInv, [Next]_vars PROVE WriteInv'
  OBVIOUS
<1>1. ASSUME UNCHANGED <<call, node, applied>> PROVE WriteInv'
  BY <1>1 DEF WriteInv, CallTypes, CallInv
<1>2. ASSUME FailOnWire, UNCHANGED dataVars PROVE WriteInv'
  BY <1>2, FailOnWireKeeps DEF dataVars
<1>3. ASSUME PlantChanges PROVE WriteInv'
  <2>1. UNCHANGED <<call, applied>> /\ node' = Plant
    BY <1>3 DEF PlantChanges
  <2> QED BY <2>1 DEF WriteInv, CallTypes, CallInv
<1>4. ASSUME NEW c \in Callers, CallerStep(c) PROVE WriteInv'
  <2>1. CASE WireTimesOut(c)
    <3>1. call[c].pc = "wire" /\ UNCHANGED <<node, applied>>
          /\ call' = [call EXCEPT ![c] = After(c, "timeout")]
      BY <2>1 DEF WireTimesOut, dataVars
    <3> QED BY <3>1, UnansweredKeeps
  <2> QED BY <1>4, <2>1, PassGateKeeps, SendRequestKeeps, AwaitReconnectKeeps DEF CallerStep
<1>5. ASSUME NEW c \in Callers, RefuseRequest(c) PROVE WriteInv'
  <2>1. call[c].pc = "wire" /\ UNCHANGED <<node, applied>>
        /\ call' = [call EXCEPT ![c] = After(c, "lost")]
    BY <1>5 DEF RefuseRequest, dataVars
  <2> QED BY <2>1, UnansweredKeeps
<1>6. \/ UNCHANGED <<call, node, applied>> \/ (FailOnWire /\ UNCHANGED dataVars) \/ PlantChanges
      \/ \E c \in Callers, k \in {"read", "browse", "write", "call"} : Begin(c, k)
      \/ \E c \in Callers : CallerStep(c) \/ ServeRequest(c) \/ ServeUnheard(c) \/ RefuseRequest(c)
  BY DEF Next, vars, dataVars, Connect, FinishConnect, StopConnectionTasks, Disconnect,
         LoseTransport, DropSession, ActivateTimesOut, Supervisor, Watchdog, Reopen, Activate,
         FinalizeReconnect, RestoreSubscription, WatchState, Handler, HandlerWakes,
         HandlerLoadsTypedefs, HandlerListens
<1> QED BY <1>1, <1>2, <1>3, <1>4, <1>5, <1>6, BeginKeeps, ServeRequestKeeps, ServeUnheardKeeps

\* "Do not replay a write after a connection loss": whatever is lost, and however often, the
\* server applies a write or call at most once, and has done so when the caller is told
\* anything but a plain error.
THEOREM WritesAreNotRepeated == Spec => []WritesNotRepeated
<1>1. WriteInv => WritesNotRepeated
  BY DEF WriteInv, CallTypes, CallInv, Fits, WritesNotRepeated, Requesting
<1> QED BY <1>1, InitWriteInv, NextWriteInv, PTL DEF Spec

-----------------------------------------------------------------------------
(* The link and the handler of its reconnects                               *)

LinkInv == LinkTypes /\ DefinitionsInv

Links == {"closed", "connected"} \cup Reconnecting

\* A new state of the link is queued for the watcher only when it begins or ends a
\* reconnect.
LEMMA LinkBecomesType ==
  ASSUME LinkTypes, NEW l \in Links, LinkBecomes(l),
         link = "connected" => l = "lost",
         l \in {"connected", "lost"} \/ link # "connected"
  PROVE  link' \in Links /\ changes' \in Seq({"connected", "lost"})
<1>1. changes \in Seq({"connected", "lost"}) /\ link' = l
  BY DEF LinkTypes, LinkBecomes
<1>2. CASE changes' = Append(changes, l) /\ {link, l} \cap {"connected"} # {}
  <2>1. l \in {"connected", "lost"}
    BY <1>2
  <2> QED BY <1>1, <1>2, <2>1
<1>3. CASE changes' = changes
  BY <1>1, <1>3
<1> QED BY <1>2, <1>3 DEF LinkBecomes

\* The client is not connected.
LEMMA InitLinkInv == Init => LinkInv
<1> SUFFICES ASSUME Init PROVE LinkInv
  OBVIOUS
<1>1. <<>> \in Seq({"connected", "lost"}) /\ 0 \in 0 .. MaxLoss
  BY SessionAssumption
<1> QED BY <1>1 DEF Init, LinkInv, LinkTypes, DefinitionsInv

\* The steps of the application: connect, disconnect, the watcher and the handler.
LEMMA ApplicationKeepsLink ==
  ASSUME LinkInv,
         Connect \/ FinishConnect \/ StopConnectionTasks \/ Disconnect \/ WatchState \/ Handler
  PROVE  LinkInv'
<1>1. LinkTypes /\ DefinitionsInv
  BY DEF LinkInv
<1>2. CASE Connect
  <2>1. LinkTypes'
    BY <1>1, <1>2 DEF Connect, LinkTypes
  <2> QED BY <1>2, <2>1 DEF Connect, LinkInv, DefinitionsInv
<1>3. CASE FinishConnect
  <2>1. LinkTypes'
    BY <1>1, <1>3 DEF FinishConnect, LoadTypedefs, linkVars, LinkTypes, Reconnecting
  <2> QED BY <1>3, <2>1 DEF FinishConnect, LoadTypedefs, LinkInv, DefinitionsInv
<1>4. CASE StopConnectionTasks
  <2>1. <<>> \in Seq({"connected", "lost"})
    OBVIOUS
  <2>2. LinkTypes'
    BY <1>1, <1>4, <2>1 DEF StopConnectionTasks, linkVars, LinkTypes, Reconnecting
  <2> QED BY <1>4, <2>2 DEF StopConnectionTasks, LinkInv, DefinitionsInv
<1>5. CASE Disconnect
  <2>1. LinkTypes'
    BY <1>1, <1>5 DEF Disconnect, handlerVars, LinkTypes
  <2> QED BY <1>5, <2>1 DEF Disconnect, LinkInv, DefinitionsInv
<1>6. CASE WatchState
  <2>1. Tail(changes) \in Seq({"connected", "lost"})
    BY <1>1, <1>6 DEF LinkTypes, WatchState
  <2>2. ApplyClientState(Head(changes)) \in {"Connected", "Reconnecting", "Disconnected"}
    BY DEF ApplyClientState
  <2>3. LinkTypes'
    BY <1>1, <1>6, <2>1, <2>2 DEF WatchState, linkVars, handlerVars, LinkTypes, Reconnecting
  <2> QED BY <1>1, <1>6, <2>3 DEF WatchState, handlerVars, LinkInv, DefinitionsInv
<1>7. CASE HandlerWakes
  <2>1. LinkTypes'
    BY <1>1, <1>7 DEF HandlerWakes, linkVars, LinkTypes, Reconnecting
  <2> QED BY <1>1, <1>7, <2>1 DEF HandlerWakes, LinkInv, DefinitionsInv
<1>8. CASE HandlerLoadsTypedefs
  <2>1. LinkTypes'
    BY <1>1, <1>8 DEF HandlerLoadsTypedefs, LoadTypedefs, linkVars, LinkTypes, Reconnecting
  <2> QED BY <1>8, <2>1 DEF HandlerLoadsTypedefs, LoadTypedefs, LinkInv, DefinitionsInv
<1>9. CASE HandlerListens
  <2>1. LinkTypes'
    BY <1>1, <1>9 DEF HandlerListens, linkVars, LinkTypes, Reconnecting
  <2> QED BY <1>1, <1>9, <2>1 DEF HandlerListens, LinkInv, DefinitionsInv
<1> QED BY <1>2, <1>3, <1>4, <1>5, <1>6, <1>7, <1>8, <1>9 DEF Handler

\* The steps of asyncua's supervisor and of the server.
LEMMA SupervisorKeepsLink ==
  ASSUME LinkInv, LoseTransport \/ DropSession \/ ActivateTimesOut \/ Supervisor
  PROVE  LinkInv'
<1>1. LinkTypes /\ DefinitionsInv
  BY DEF LinkInv
<1>2. CASE LoseTransport
  <2>1. link' \in Links /\ changes' \in Seq({"connected", "lost"}) /\ losses' \in 0 .. MaxLoss
    BY <1>1, <1>2, LinkBecomesType, SessionAssumption DEF LoseTransport, Links, Reconnecting, LinkTypes
  <2>2. LinkTypes'
    BY <1>1, <1>2, <2>1 DEF LoseTransport, handlerVars, LinkTypes, Links
  <2> QED BY <1>1, <1>2, <2>2 DEF LoseTransport, handlerVars, LinkInv, DefinitionsInv
<1>3. CASE DropSession
  <2>1. losses' \in 0 .. MaxLoss
    BY <1>1, <1>3, SessionAssumption DEF DropSession, LinkTypes
  <2>2. LinkTypes'
    BY <1>1, <1>3, <2>1 DEF DropSession, handlerVars, LinkTypes, Reconnecting
  <2> QED BY <1>1, <1>3, <2>2 DEF DropSession, handlerVars, LinkInv, DefinitionsInv
<1>4. CASE ActivateTimesOut
  <2>1. link' \in Links /\ changes' \in Seq({"connected", "lost"}) /\ losses' \in 0 .. MaxLoss
    BY <1>1, <1>4, LinkBecomesType, SessionAssumption DEF ActivateTimesOut, Links, Reconnecting, LinkTypes
  <2>2. LinkTypes'
    BY <1>1, <1>4, <2>1 DEF ActivateTimesOut, handlerVars, LinkTypes, Links
  <2> QED BY <1>1, <1>4, <2>2 DEF ActivateTimesOut, handlerVars, LinkInv, DefinitionsInv
<1>5. CASE Watchdog
  <2>1. link' \in Links /\ changes' \in Seq({"connected", "lost"})
    BY <1>1, <1>5, LinkBecomesType DEF Watchdog, Links, Reconnecting
  <2>2. LinkTypes'
    BY <1>1, <1>5, <2>1 DEF Watchdog, handlerVars, LinkTypes, Links
  <2> QED BY <1>1, <1>5, <2>2 DEF Watchdog, handlerVars, LinkInv, DefinitionsInv
<1>6. CASE Reopen
  <2>1. link' \in Links /\ changes' \in Seq({"connected", "lost"})
    BY <1>1, <1>6, LinkBecomesType DEF Reopen, Links, Reconnecting
  <2>2. LinkTypes'
    BY <1>1, <1>6, <2>1 DEF Reopen, handlerVars, LinkTypes, Links
  <2> QED BY <1>1, <1>6, <2>2 DEF Reopen, handlerVars, LinkInv, DefinitionsInv
<1>7. CASE Activate
  <2>1. link' \in Links /\ changes' \in Seq({"connected", "lost"})
    BY <1>1, <1>7, LinkBecomesType DEF Activate, Links, Reconnecting
  <2>2. valid' \in BOOLEAN /\ reused' \in BOOLEAN
    BY <1>1, <1>7 DEF Activate, LinkTypes
  <2>3. LinkTypes'
    BY <1>1, <1>7, <2>1, <2>2 DEF Activate, handlerVars, LinkTypes, Links
  <2> QED BY <1>1, <1>7, <2>3 DEF Activate, handlerVars, LinkInv, DefinitionsInv
<1>8. CASE FinalizeReconnect
  <2>1. link' \in Links /\ changes' \in Seq({"connected", "lost"})
    BY <1>1, <1>8, LinkBecomesType DEF FinalizeReconnect, Links
  <2>2. event' = TRUE /\ unheard' = TRUE /\ recreated' \in BOOLEAN /\ (recreated \/ ~reused => recreated')
    BY <1>8 DEF FinalizeReconnect, OnReconnected
  <2>3. LinkTypes'
    BY <1>1, <1>8, <2>1, <2>2 DEF FinalizeReconnect, OnReconnected, LinkTypes, Links
  <2>4. DefinitionsInv'
    BY <1>1, <1>8, <2>2 DEF FinalizeReconnect, DefinitionsInv, LinkTypes
  <2> QED BY <2>3, <2>4 DEF LinkInv
<1>9. ASSUME NEW s \in Tracked, RestoreSubscription(s) PROVE LinkInv'
  <2>1. LinkTypes'
    BY <1>1, <1>9 DEF RestoreSubscription, handlerVars, LinkTypes, Reconnecting
  <2> QED BY <1>1, <1>9, <2>1 DEF RestoreSubscription, handlerVars, LinkInv, DefinitionsInv
<1> QED BY <1>2, <1>3, <1>4, <1>5, <1>6, <1>7, <1>8, <1>9 DEF Supervisor

\* A request touches the link only when it is the first to notice the loss.
LEMMA RequestsKeepLink ==
  ASSUME LinkInv, NEW c \in Callers, RefuseRequest(c)
  PROVE  LinkInv'
<1>1. LinkTypes /\ DefinitionsInv
  BY DEF LinkInv
<1>2. /\ UNCHANGED <<valid, losses, hung, todo, reused, boot, snapshot, event, recreated, handler,
                     typedefs, unheard>>
      /\ (link = "connected" /\ LinkBecomes("lost")) \/ UNCHANGED <<link, changes>>
  BY DEF RefuseRequest, rest, handlerVars
<1>3. link' \in Links /\ changes' \in Seq({"connected", "lost"})
  BY <1>1, <1>2, LinkBecomesType DEF Links, Reconnecting, LinkTypes
<1>4. LinkTypes'
  BY <1>1, <1>2, <1>3 DEF LinkTypes, Links
<1> QED BY <1>1, <1>2, <1>4 DEF LinkInv, DefinitionsInv

\* Every step keeps the state of the link and its handler consistent.
LEMMA NextLinkInv == LinkInv /\ [Next]_vars => LinkInv'
<1> SUFFICES ASSUME LinkInv, [Next]_vars PROVE LinkInv'
  OBVIOUS
<1>1. ASSUME UNCHANGED <<linkVars, changes, rest>> PROVE LinkInv'
  <2>1. UNCHANGED <<link, valid, losses, hung, todo, reused, changes, boot, snapshot, event,
                    recreated, handler, typedefs, unheard>>
    BY <1>1 DEF linkVars, rest, handlerVars
  <2> QED BY <2>1 DEF LinkInv, LinkTypes, DefinitionsInv, Reconnecting
<1>2. \/ UNCHANGED <<linkVars, changes, rest>>
      \/ Connect \/ FinishConnect \/ StopConnectionTasks \/ Disconnect \/ WatchState \/ Handler
      \/ LoseTransport \/ DropSession \/ ActivateTimesOut \/ Supervisor
      \/ \E c \in Callers : RefuseRequest(c)
  BY DEF Next, vars, rest, Begin, CallerStep, PassGate, SendRequest, WireTimesOut, AwaitReconnect,
         ServeRequest, ServeUnheard, PlantChanges
<1> QED BY <1>1, <1>2, ApplicationKeepsLink, SupervisorKeepsLink, RequestsKeepLink

\* The client's state is consistent, and a session reported as recreated has its type
\* definitions loaded, or tried, before the handler waits again with nothing pending:
\* however many reconnects come before it gets to it, and whichever of them keep the session.
THEOREM SessionStaysConsistent == Spec => []SessionConsistent
<1>1. LinkInv /\ WriteInv => SessionConsistent
  BY TypesSplit DEF LinkInv, WriteInv, DefinitionsInv, SessionConsistent, TypedefsFollowSession
<1> QED BY <1>1, InitLinkInv, NextLinkInv, InitWriteInv, NextWriteInv, PTL DEF Spec

=============================================================================
