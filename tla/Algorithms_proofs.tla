-------------------------- MODULE Algorithms_proofs --------------------------
(***************************************************************************)
(* Proofs about the computations that need no recursion: the model and the  *)
(* objects shown of it, the MCP endpoint, and the writes.                   *)
(***************************************************************************)
EXTENDS ModelAlgorithms, McpAlgorithms, WriteAlgorithms, SequenceTheorems, Lemmas

-----------------------------------------------------------------------------
(* Writes                                                                   *)

Validators == [loaded : BOOLEAN, failed : BOOLEAN, tried : 0 .. 1, code : {200, 400, 502}]

\* The validator has tried to load the types once it is loaded or failed, and not before.
ValidatorOK(v, context) ==
    /\ v \in Validators
    /\ v.loaded => context
    /\ v.failed => ~context
    /\ v.tried = 1 <=> v.loaded \/ v.failed

\* A check of one update: it leaves the validator as it must be, and accepts only a value
\* that fits its schema, when the types are known.
LEMMA ValidateOK ==
  ASSUME NEW v, NEW context \in BOOLEAN, NEW u \in UpdateRecords, ValidatorOK(v, context)
  PROVE  /\ ValidatorOK(Validate(v, context, u), context)
         /\ Validate(v, context, u).code = 200 <=> context /\ u.schema = "accepts"
<1> USE DEF ValidatorOK, Validators, UpdateRecords
<1>1. CASE v.failed
  BY <1>1 DEF Validate
<1>2. CASE ~v.failed /\ v.loaded
  BY <1>2 DEF Validate
<1>3. CASE ~v.failed /\ ~v.loaded
  <2> DEFINE w == [v EXCEPT !.tried = @ + 1, !.loaded = context, !.failed = ~context]
             code == IF ~context \/ u.schema = "missing" THEN 502 ELSE IF u.schema = "rejects" THEN 400 ELSE 200
  <2>1. Validate(v, context, u) = [w EXCEPT !.code = code]
    BY <1>3 DEF Validate
  <2>2. w \in Validators /\ w.tried = 1 /\ w.loaded = context /\ w.failed = ~context
    <3>1. v.tried = 0 /\ v \in Validators
      BY <1>3
    <3>2. v.tried + 1 = 1
      BY <3>1
    <3>3. w = [v EXCEPT !.tried = 1, !.loaded = context, !.failed = ~context]
      BY <3>2
    <3>4. PICK failed \in BOOLEAN : failed = ~context
      OBVIOUS
    <3> HIDE DEF w
    <3>5. w \in Validators
      <4>1. w = [v EXCEPT !.tried = 1, !.loaded = context, !.failed = failed]
        BY <3>3, <3>4
      <4>2. v = [loaded |-> v.loaded, failed |-> v.failed, tried |-> v.tried, code |-> v.code]
        BY <3>1
      <4>3. w = [loaded |-> context, failed |-> failed, tried |-> 1, code |-> v.code]
        BY <4>1, <4>2
      <4>4. v.code \in {200, 400, 502}
        BY <3>1
      <4> QED BY <4>3, <4>4
    <3>6. w.tried = 1 /\ w.loaded = context
      BY <3>1, <3>3
    <3>7. w.failed = ~context
      BY <3>1, <3>3
    <3> QED BY <3>5, <3>6, <3>7
  <2>3. code \in {200, 400, 502} /\ (code = 200 <=> context /\ u.schema = "accepts")
    OBVIOUS
  <2> HIDE DEF w, code
  <2>4. [w EXCEPT !.code = code] \in Validators
    BY <2>2, <2>3
  <2>5. /\ [w EXCEPT !.code = code].code = code /\ [w EXCEPT !.code = code].tried = 1
        /\ [w EXCEPT !.code = code].loaded = context /\ [w EXCEPT !.code = code].failed = ~context
    BY <2>2
  <2> QED BY <2>1, <2>3, <2>4, <2>5
<1> QED BY <1>1, <1>2, <1>3

Results == Nat \X {"sent", "kept"}

\* What WritesGuarded says of the result r of the update u.
ValueResult(r, u, context) ==
    LET allowed == u.id = "ok" /\ u.node = "property" /\ context /\ u.schema = "accepts" /\ u.access = "ok" IN
    /\ r[2] = "sent" <=> allowed /\ u.variant = "ok"
    /\ r[1] = 200 => IF r[2] = "sent" THEN u.write = "ok" ELSE u.access = "denied" /\ u.same

\* What HistoryLatch asks for before the update u of a history is sent.
HistoryAllowed(u, context) == u.node = "property" /\ context /\ u.schema = "accepts" /\ u.access = "ok"
\* A success is reported only for what was sent and written.
TrueSuccess(r, u) == r[1] = 200 => r[2] = "sent" /\ u.write = "ok"

\* A result more.
LEMMA ResultAppended ==
  ASSUME NEW s \in Seq(Results), NEW r \in Results, NEW t, t = Append(s, r)
  PROVE  t \in Seq(Results) /\ Len(t) = Len(s) + 1
BY AppendProperties

\* What follows the schema sends what the type and the server allow.
LEMMA WriteOutcomeOK ==
  ASSUME NEW u \in UpdateRecords
  PROVE  LET r == WriteOutcome(u) IN
         /\ r \in Results
         /\ r[2] = "sent" <=> u.access = "ok" /\ u.variant = "ok"
         /\ r[1] = 200 => IF r[2] = "sent" THEN u.write = "ok" ELSE u.access = "denied" /\ u.same
BY DEF WriteOutcome, UpdateRecords, Results

\* An update of a history is sent when the server allows it.
LEMMA HistoryOutcomeOK ==
  ASSUME NEW u \in UpdateRecords
  PROVE  LET r == HistoryOutcome(u) IN
         /\ r \in Results
         /\ r[2] = "sent" <=> u.access = "ok"
         /\ r[1] = 200 => r[2] = "sent" /\ u.write = "ok"
BY DEF HistoryOutcome, UpdateRecords, Results

\* A round of update_object_values_v1 adds one result, which is as it must be.
LEMMA WriteValueOK ==
  ASSUME NEW w, NEW context \in BOOLEAN, NEW u \in UpdateRecords, ValidatorOK(w.validator, context)
  PROVE  /\ ValidatorOK(WriteValue(w, context, u).validator, context)
         /\ \E r \in Results : /\ WriteValue(w, context, u).results = Append(w.results, r)
                               /\ ValueResult(r, u, context)
<1> DEFINE checked == IF NeedsSchema(u) THEN Validate(w.validator, context, u) ELSE w.validator
           result == IF u.id = "bad" THEN <<400, "kept">>
                     ELSE IF u.node = "none" THEN <<404, "kept">>
                     ELSE IF u.node = "asset" THEN <<400, "kept">>
                     ELSE IF checked.code # 200 THEN <<checked.code, "kept">>
                     ELSE WriteOutcome(u)
<1>1. WriteValue(w, context, u) = [results |-> Append(w.results, result), validator |-> checked]
  BY DEF WriteValue
<1>2. ValidatorOK(checked, context)
  BY ValidateOK
<1>3. checked.code \in Nat /\ (NeedsSchema(u) => (checked.code = 200 <=> context /\ u.schema = "accepts"))
  <2>1. checked \in Validators
    BY <1>2 DEF ValidatorOK
  <2>2. checked.code \in Nat
    BY <2>1 DEF Validators
  <2>3. ASSUME NeedsSchema(u) PROVE checked.code = 200 <=> context /\ u.schema = "accepts"
    BY <2>3, ValidateOK
  <2> QED BY <2>2, <2>3
<1> HIDE DEF checked
<1>4. result \in Results
  BY <1>3, WriteOutcomeOK DEF Results
<1>5. ValueResult(result, u, context)
  BY <1>3, WriteOutcomeOK DEF ValueResult, NeedsSchema, UpdateRecords
<1> HIDE DEF result
<1> QED BY <1>1, <1>2, <1>4, <1>5

\* A round of update_historical_values_v1 does, and the service counts as missing once it
\* did or the update was sent and refused.
LEMMA WriteHistoryOK ==
  ASSUME NEW w, NEW context \in BOOLEAN, NEW u \in UpdateRecords, ValidatorOK(w.validator, context)
  PROVE  /\ ValidatorOK(WriteHistory(w, context, u).validator, context)
         /\ \E r \in Results : /\ WriteHistory(w, context, u).results = Append(w.results, r)
                               /\ r[2] = "sent" <=> HistoryAllowed(u, context) /\ w.support # "unsupported"
                               /\ TrueSuccess(r, u)
                               /\ WriteHistory(w, context, u).support = "unsupported" <=> w.support = "unsupported" \/ (r[2] = "sent" /\ u.write = "service")
<1> DEFINE checked == IF u.node = "property" THEN Validate(w.validator, context, u) ELSE w.validator
           sent == u.node = "property" /\ checked.code = 200 /\ w.support # "unsupported"
           result == IF u.node = "none" THEN <<404, "kept">>
                     ELSE IF u.node = "asset" THEN <<400, "kept">>
                     ELSE IF checked.code # 200 THEN <<checked.code, "kept">>
                     ELSE IF w.support = "unsupported" THEN <<501, "kept">>
                     ELSE HistoryOutcome(u)
           support == IF sent /\ Latches(u) THEN "unsupported" ELSE w.support
<1>1. WriteHistory(w, context, u) = [results |-> Append(w.results, result), validator |-> checked, support |-> support]
  BY DEF WriteHistory
<1>2. ValidatorOK(checked, context)
  BY ValidateOK
<1>3. checked.code \in Nat /\ (u.node = "property" => (checked.code = 200 <=> context /\ u.schema = "accepts"))
  <2>1. checked \in Validators
    BY <1>2 DEF ValidatorOK
  <2>2. checked.code \in Nat
    BY <2>1 DEF Validators
  <2>3. ASSUME u.node = "property" PROVE checked.code = 200 <=> context /\ u.schema = "accepts"
    BY <2>3, ValidateOK
  <2> QED BY <2>2, <2>3
<1> HIDE DEF checked
<1>4. result \in Results
  BY <1>3, HistoryOutcomeOK DEF Results
<1>5. (result[2] = "sent" <=> HistoryAllowed(u, context) /\ w.support # "unsupported") /\ TrueSuccess(result, u)
  BY <1>3, HistoryOutcomeOK DEF HistoryAllowed, TrueSuccess, UpdateRecords
<1>6. support = "unsupported" <=> w.support = "unsupported" \/ (result[2] = "sent" /\ u.write = "service")
  BY <1>3, HistoryOutcomeOK DEF Latches, UpdateRecords
<1> HIDE DEF result, support
<1> QED BY <1>1, <1>2, <1>4, <1>5, <1>6

\* The request of values as far as it is done.
ValuesDone(x) ==
    /\ x = [updates |-> x.updates, context |-> x.context, w |-> x.w]
    /\ x.updates \in Seq(UpdateRecords) /\ x.context \in BOOLEAN
    /\ x.w.results \in Seq(Results) /\ Len(x.w.results) <= Len(x.updates)
    /\ ValidatorOK(x.w.validator, x.context)
    /\ \A k \in 1 .. Len(x.w.results) : ValueResult(x.w.results[k], x.updates[k], x.context)

\* The request of histories as far as it is done: the service was given up before update k
\* when it was known to be missing or an earlier update was refused.
GivenUp(x, k) ==
    x.known = "unsupported" \/ \E j \in 1 .. k - 1 : x.w.results[j][2] = "sent" /\ x.updates[j].write = "service"
HistoriesDone(x) ==
    /\ x = [updates |-> x.updates, context |-> x.context, known |-> x.known, w |-> x.w]
    /\ x.updates \in Seq(UpdateRecords) /\ x.context \in BOOLEAN
    /\ x.w.results \in Seq(Results) /\ Len(x.w.results) <= Len(x.updates)
    /\ ValidatorOK(x.w.validator, x.context)
    /\ \A k \in 1 .. Len(x.w.results) :
         /\ x.w.results[k][2] = "sent" <=> HistoryAllowed(x.updates[k], x.context) /\ ~GivenUp(x, k)
         /\ TrueSuccess(x.w.results[k], x.updates[k])
    /\ x.w.support = "unsupported" <=> GivenUp(x, Len(x.w.results) + 1)

\* The inductive invariant of the writes.
WriteInv ==
    /\ Ran("write") => ValuesDone(input)
    /\ Ran("writeHistory") => HistoriesDone(input)

\* A new validator has not tried anything.
LEMMA NewValidatorOK ==
  ASSUME NEW context \in BOOLEAN
  PROVE  ValidatorOK(NewValidator, context)
BY DEF NewValidator, ValidatorOK, Validators

\* A round of a request of values leaves it done one update further.
LEMMA NextValueDone ==
  ASSUME NEW x, ValuesDone(x), Len(x.w.results) < Len(x.updates),
         NEW y, y = [x EXCEPT !.w = WriteValue(x.w, x.context, x.updates[Len(x.w.results) + 1])]
  PROVE  ValuesDone(y)
<1> DEFINE n == Len(x.w.results)
           u == x.updates[n + 1]
<1>0. y = [updates |-> x.updates, context |-> x.context, w |-> WriteValue(x.w, x.context, u)]
  BY DEF ValuesDone
<1>a. y.updates = x.updates /\ y.context = x.context /\ y.w = WriteValue(x.w, x.context, u)
  BY <1>0
<1>1. n \in Nat /\ n + 1 \in 1 .. Len(x.updates) /\ u \in UpdateRecords
  BY DEF ValuesDone
<1>2. /\ ValidatorOK(x.w.validator, x.context) /\ x.context \in BOOLEAN /\ x.w.results \in Seq(Results)
      /\ \A k \in 1 .. n : ValueResult(x.w.results[k], x.updates[k], x.context)
  BY DEF ValuesDone
<1> HIDE DEF u
<1>3. PICK r \in Results : y.w.results = Append(x.w.results, r) /\ ValueResult(r, u, x.context)
  BY <1>1, <1>2, <1>a, WriteValueOK
<1>4. ValidatorOK(y.w.validator, y.context)
  BY <1>1, <1>2, <1>a, WriteValueOK
<1>5. y.w.results \in Seq(Results) /\ Len(y.w.results) = n + 1
  <2>1. x.w.results \in Seq(Results) /\ y.w.results = Append(x.w.results, r)
    BY <1>2, <1>3
  <2> QED BY <2>1, ResultAppended
<1>6. ASSUME NEW k \in 1 .. n + 1 PROVE ValueResult(y.w.results[k], y.updates[k], y.context)
  <2>1. CASE k = n + 1
    BY <1>2, <1>3, <1>a, <2>1 DEF u
  <2>2. CASE k \in 1 .. n
    BY <1>2, <1>3, <1>a, <2>2
  <2> QED BY <1>1, <2>1, <2>2
<1>7. y = [updates |-> y.updates, context |-> y.context, w |-> y.w] /\ n + 1 <= Len(y.updates)
  <2>1. y = [updates |-> y.updates, context |-> y.context, w |-> y.w]
    BY <1>0, <1>a, Zenon
  <2> QED BY <1>1, <1>a, <2>1
<1>8. y.updates \in Seq(UpdateRecords) /\ y.context \in BOOLEAN
  BY <1>a DEF ValuesDone
<1> QED BY <1>4, <1>5, <1>6, <1>7, <1>8 DEF ValuesDone

\* So does a round of a request of histories.
LEMMA NextHistoryDone ==
  ASSUME NEW x, HistoriesDone(x), Len(x.w.results) < Len(x.updates),
         NEW y, y = [x EXCEPT !.w = WriteHistory(x.w, x.context, x.updates[Len(x.w.results) + 1])]
  PROVE  HistoriesDone(y)
<1> DEFINE n == Len(x.w.results)
           u == x.updates[n + 1]
<1>0. y = [updates |-> x.updates, context |-> x.context, known |-> x.known, w |-> WriteHistory(x.w, x.context, u)]
  BY DEF HistoriesDone
<1>a. y.updates = x.updates /\ y.context = x.context /\ y.known = x.known /\ y.w = WriteHistory(x.w, x.context, u)
  BY <1>0
<1>1. n \in Nat /\ n + 1 \in 1 .. Len(x.updates) /\ u \in UpdateRecords
  BY DEF HistoriesDone
<1>2. /\ ValidatorOK(x.w.validator, x.context) /\ x.context \in BOOLEAN /\ x.w.results \in Seq(Results)
      /\ (x.w.support = "unsupported" <=> GivenUp(x, n + 1))
      /\ \A k \in 1 .. n : /\ x.w.results[k][2] = "sent" <=> HistoryAllowed(x.updates[k], x.context) /\ ~GivenUp(x, k)
                          /\ TrueSuccess(x.w.results[k], x.updates[k])
  BY DEF HistoriesDone
<1> HIDE DEF u
<1>3. ValidatorOK(y.w.validator, y.context)
  <2>1. x.context \in BOOLEAN /\ u \in UpdateRecords /\ ValidatorOK(x.w.validator, x.context)
    BY <1>1, <1>2
  <2>2. ValidatorOK(WriteHistory(x.w, x.context, u).validator, x.context)
    BY <2>1, WriteHistoryOK
  <2> QED BY <1>a, <2>2
<1>4. PICK r \in Results : /\ y.w.results = Append(x.w.results, r)
                           /\ r[2] = "sent" <=> HistoryAllowed(u, x.context) /\ x.w.support # "unsupported"
                           /\ TrueSuccess(r, u)
                           /\ y.w.support = "unsupported" <=> x.w.support = "unsupported" \/ (r[2] = "sent" /\ u.write = "service")
  <2>1. x.context \in BOOLEAN /\ u \in UpdateRecords /\ ValidatorOK(x.w.validator, x.context)
    BY <1>1, <1>2
  <2>2. \E r \in Results : /\ WriteHistory(x.w, x.context, u).results = Append(x.w.results, r)
                           /\ r[2] = "sent" <=> HistoryAllowed(u, x.context) /\ x.w.support # "unsupported"
                           /\ TrueSuccess(r, u)
                           /\ WriteHistory(x.w, x.context, u).support = "unsupported" <=> x.w.support = "unsupported" \/ (r[2] = "sent" /\ u.write = "service")
    BY <2>1, WriteHistoryOK, ZenonT(60)
  <2> QED BY <1>a, <2>2
<1>5. y.w.results \in Seq(Results) /\ Len(y.w.results) = n + 1
  <2>1. x.w.results \in Seq(Results) /\ y.w.results = Append(x.w.results, r)
    BY <1>2, <1>4
  <2> QED BY <2>1, ResultAppended
<1>6. ASSUME NEW k \in 1 .. n + 1 PROVE GivenUp(y, k) <=> GivenUp(x, k)
  <2>1. \A j \in 1 .. k - 1 : y.w.results[j] = x.w.results[j]
    BY <1>1, <1>2, <1>4
  <2> QED BY <1>a, <2>1 DEF GivenUp
<1>7. y.w.support = "unsupported" <=> GivenUp(y, n + 2)
  <2>1. \A j \in 1 .. n : y.w.results[j] = x.w.results[j]
    BY <1>1, <1>2, <1>4
  <2>2. y.w.results[n + 1] = r /\ y.updates[n + 1] = u
    BY <1>1, <1>2, <1>4, <1>a DEF u
  <2>3. 1 .. (n + 2) - 1 = (1 .. n) \cup {n + 1} /\ 1 .. (n + 1) - 1 = 1 .. n
    BY <1>1
  <2> QED BY <1>2, <1>4, <1>a, <2>1, <2>2, <2>3 DEF GivenUp
<1>8. ASSUME NEW k \in 1 .. n + 1 
      PROVE  /\ y.w.results[k][2] = "sent" <=> HistoryAllowed(y.updates[k], y.context) /\ ~GivenUp(y, k)
             /\ TrueSuccess(y.w.results[k], y.updates[k])
  <2>1. CASE k = n + 1
    <3>1. GivenUp(y, k) <=> x.w.support = "unsupported"
      BY <1>2, <1>6, <2>1
    <3>2. y.w.results[k] = r /\ y.updates[k] = u
      BY <1>2, <1>4, <1>a, <2>1 DEF u
    <3> QED BY <1>4, <1>a, <3>1, <3>2
  <2>2. CASE k \in 1 .. n
    <3>1. GivenUp(y, k) <=> GivenUp(x, k)
      BY <1>6
    <3>2. y.w.results[k] = x.w.results[k]
      BY <1>2, <1>4, <2>2
    <3> QED BY <1>2, <1>a, <2>2, <3>1, <3>2
  <2> QED BY <1>1, <2>1, <2>2
<1>9. /\ y = [updates |-> y.updates, context |-> y.context, known |-> y.known, w |-> y.w]
      /\ (n + 1) + 1 = n + 2 /\ n + 1 <= Len(y.updates)
  <2>1. y = [updates |-> y.updates, context |-> y.context, known |-> y.known, w |-> y.w]
    BY <1>0, <1>a, Zenon
  <2> QED BY <1>1, <1>a, <2>1
<1>10. y.updates \in Seq(UpdateRecords) /\ y.context \in BOOLEAN
  BY <1>a DEF HistoriesDone
<1> QED BY <1>3, <1>5, <1>7, <1>8, <1>9, <1>10 DEF HistoriesDone

\* A finished or unfinished request of values is guarded.
LEMMA ValuesDoneGuarded == ASSUME Ran("write") => ValuesDone(input) PROVE WritesGuarded
<1> SUFFICES ASSUME Ran("write"), ValuesDone(input) PROVE WritesGuarded
  BY DEF WritesGuarded
<1>1. Len(input.w.results) <= Len(input.updates)
  BY DEF ValuesDone
<1>2. input.w.validator.tried <= 1
  <2>1. input.w.validator \in Validators
    BY DEF ValuesDone, ValidatorOK
  <2> QED BY <2>1 DEF Validators
<1>3. \A k \in 1 .. Len(input.w.results) : ValueResult(input.w.results[k], input.updates[k], input.context)
  BY DEF ValuesDone
<1> QED BY <1>1, <1>2, <1>3 DEF WritesGuarded, ValueResult

\* So is a request of histories.
LEMMA HistoriesDoneGuarded == ASSUME Ran("writeHistory") => HistoriesDone(input) PROVE HistoryLatch
<1> SUFFICES ASSUME Ran("writeHistory"), HistoriesDone(input) PROVE HistoryLatch
  BY DEF HistoryLatch
<1> DEFINE n == Len(input.w.results)
<1>1. \A k \in 1 .. n :
        /\ input.w.results[k][2] = "sent" <=> HistoryAllowed(input.updates[k], input.context) /\ ~GivenUp(input, k)
        /\ TrueSuccess(input.w.results[k], input.updates[k])
  BY DEF HistoriesDone
<1>2. n \in Nat /\ DOMAIN input.w.results = 1 .. n /\ (n + 1) - 1 = n
  BY DEF HistoriesDone
<1>3. input.w.support = "unsupported" <=> input.known = "unsupported"
                          \/ \E j \in 1 .. n : input.w.results[j][2] = "sent" /\ input.updates[j].write = "service"
  BY <1>2 DEF HistoriesDone, GivenUp
<1>4. ASSUME HistoryStatus(input.w) = 501
      PROVE  input.w.support = "unsupported" /\ \A k \in 1 .. n : input.w.results[k][1] # 200
  BY <1>2, <1>4 DEF HistoryStatus
<1>5. ASSUME NEW k \in 1 .. n
      PROVE  LET u == input.updates[k]
                 given == input.known = "unsupported"
                          \/ \E j \in 1 .. k - 1 : input.w.results[j][2] = "sent" /\ input.updates[j].write = "service"
                 allowed == u.node = "property" /\ input.context /\ u.schema = "accepts" /\ u.access = "ok"
             IN  /\ input.w.results[k][2] = "sent" <=> allowed /\ ~given
                 /\ input.w.results[k][1] = 200 => input.w.results[k][2] = "sent" /\ u.write = "ok"
  BY <1>1 DEF HistoryAllowed, TrueSuccess, GivenUp
<1> QED BY <1>3, <1>4, <1>5 DEF HistoryLatch

\* Whatever the updates of a request, and however the server answers each: nothing is sent
\* that is not allowed, success is reported only for what was written, no failure keeps
\* another update from being written, and the history service is given up only when it
\* said so.
THEOREM WritesAreGuarded == WriteSpec => []UpdatesGuarded
<1>1. WriteInit => WriteInv
  BY DEF WriteInit, WriteInv, Ran
<1>2. WriteInv /\ [WriteNext]_vars => WriteInv'
  <2> SUFFICES ASSUME WriteInv, [WriteNext]_vars PROVE WriteInv'
    OBVIOUS
  <2>1. ASSUME NEW updates, NEW context, StartWrite(updates, context) PROVE WriteInv'
    <3>1. /\ task' = "write" /\ updates \in Seq(UpdateRecords) /\ context \in BOOLEAN
          /\ input' = [updates |-> updates, context |-> context, w |-> NewWrites]
      BY <2>1 DEF StartWrite, Idle, Run
    <3>2. input'.w.results = <<>> /\ input'.w.validator = NewValidator
      BY <3>1 DEF NewWrites
    <3>3. ValuesDone(input')
      <4>1. input'.updates = updates /\ input'.context = context
        BY <3>1
      <4>2. Len(input'.w.results) = 0 /\ input'.w.results \in Seq(Results)
        BY <3>2
      <4>3. Len(updates) \in Nat
        BY <3>1, LenProperties
      <4>4. input' = [updates |-> input'.updates, context |-> input'.context, w |-> input'.w]
        BY <3>1
      <4> QED BY <3>1, <3>2, <4>1, <4>2, <4>3, <4>4, NewValidatorOK DEF ValuesDone
    <3> QED BY <3>1, <3>3 DEF WriteInv, Ran
  <2>2. ASSUME NEW updates, NEW context, NEW known, StartHistories(updates, context, known) PROVE WriteInv'
    <3>1. /\ task' = "writeHistory" /\ updates \in Seq(UpdateRecords) /\ context \in BOOLEAN
          /\ input' = [updates |-> updates, context |-> context, known |-> known, w |-> NewHistories(known)]
      BY <2>2 DEF StartHistories, Idle, Run
    <3>2. /\ input'.w.results = <<>> /\ input'.w.validator = NewValidator
          /\ input'.w.support = known
      BY <3>1 DEF NewHistories
    <3>3. HistoriesDone(input')
      <4>1. input'.updates = updates /\ input'.context = context /\ input'.known = known
        BY <3>1
      <4>2. Len(input'.w.results) = 0 /\ input'.w.results \in Seq(Results)
        BY <3>2
      <4>3. Len(updates) \in Nat
        BY <3>1, LenProperties
      <4>4. input' = [updates |-> input'.updates, context |-> input'.context, known |-> input'.known, w |-> input'.w]
        BY <3>1
      <4>5. (input'.w.support = "unsupported" <=> known = "unsupported")
        BY <3>2
      <4>6. GivenUp(input', 0 + 1) <=> known = "unsupported"
        <5>1. 1 .. (0 + 1) - 1 = {}
          OBVIOUS
        <5> QED BY <4>1, <5>1 DEF GivenUp
      <4> QED BY <3>1, <3>2, <4>1, <4>2, <4>3, <4>4, <4>5, <4>6, NewValidatorOK DEF HistoriesDone
    <3> QED BY <3>1, <3>3 DEF WriteInv, Ran
  <2>3. CASE NextValue
    <3>1. task = "write" /\ task' = task /\ ValuesDone(input) /\ Len(input.w.results) < Len(input.updates)
      BY <2>3 DEF NextValue, Ran, Run, Pending, WriteInv
    <3>2. input' = [input EXCEPT !.w = WriteValue(input.w, input.context, input.updates[Len(input.w.results) + 1])]
      BY <2>3 DEF NextValue, Run, Current
    <3>3. ValuesDone(input')
      BY <3>1, <3>2, NextValueDone
    <3> QED BY <3>1, <3>3 DEF WriteInv, Ran
  <2>4. CASE NextHistory
    <3>1. task = "writeHistory" /\ task' = task /\ HistoriesDone(input) /\ Len(input.w.results) < Len(input.updates)
      BY <2>4 DEF NextHistory, Ran, Run, Pending, WriteInv
    <3>2. input' = [input EXCEPT !.w = WriteHistory(input.w, input.context, input.updates[Len(input.w.results) + 1])]
      BY <2>4 DEF NextHistory, Run, Current
    <3>3. HistoriesDone(input')
      BY <3>1, <3>2, NextHistoryDone
    <3> QED BY <3>1, <3>3 DEF WriteInv, Ran
  <2>5. CASE UNCHANGED vars
    BY <2>5 DEF vars, WriteInv, Ran, ValuesDone, HistoriesDone, GivenUp
  <2> QED BY <2>1, <2>2, <2>3, <2>4, <2>5 DEF WriteNext
<1>3. WriteInv => UpdatesGuarded
  BY ValuesDoneGuarded, HistoriesDoneGuarded DEF WriteInv, UpdatesGuarded
<1> QED BY <1>1, <1>2, <1>3, PTL DEF WriteSpec

-----------------------------------------------------------------------------
(* The MCP endpoint                                                         *)

\* A modern request passes when its headers say what its body says.
LEMMA ModernErrorOK ==
  ASSUME NEW q \in Requests
  PROVE  ModernError(q) = "none" <=>
           /\ q.header = "new" /\ q.meta = "new" /\ q.caps /\ q.methodHeader /\ q.method # "bad"
           /\ q.nameHeader = "same" <=> q.method = "call"
           /\ q.nameHeader = "none" <=> q.method # "call"
BY DEF ModernError, Requests, Versions, Legacy

\* What the handler of a request replies.
LEMMA HandleOK ==
  ASSUME NEW q \in Requests
  PROVE  LET r == Handle(q) IN
         /\ r.kind \in {"none", "error", "result"}
         /\ r = NoReply <=> r.kind = "none"
         /\ r.kind = "none" => q.id = "absent" /\ q.rpc
         /\ r.id \in {q.id, "null"}
         /\ q.id \notin NoIds => r.id = q.id /\ r.kind # "none"
         /\ r.kind = "result" /\ q.method = "initialize" => r.code \in Legacy
BY DEF Handle, CallTool, RpcError, RpcResult, NoReply, NoIds, Requests, Versions, Legacy

\* Every request is answered as McpOneReply says.
LEMMA OneReply ==
  ASSUME NEW q \in Requests, NEW sessions \in Seq(Legacy)
  PROVE  LET r == McpPost(q, sessions)
             done == r.reply.kind = "result"
         IN  /\ r.status = 202 <=> r.reply.kind = "none"
             /\ r.status = 202 => q.id = "absent" /\ q.rpc
             /\ r.reply.id \in {q.id, "null"}
             /\ q.id \notin NoIds /\ r.status = 200 /\ q.body = "object" => r.reply.id = q.id
             /\ done \/ r.status = 202 =>
                  /\ q.origin
                  /\ IF q.header \in {"new", "odd"} \/ q.meta # "none"
                     THEN q.header = "new" /\ q.meta = "new" /\ q.caps /\ q.methodHeader
                          /\ (q.nameHeader = "same" <=> q.method = "call")
                     ELSE q.session # 0 => /\ q.session \in DOMAIN sessions
                                           /\ q.header \in {"none", sessions[q.session]}
             /\ r.created # "none" => done /\ r.reply.code = r.created /\ r.created \in Legacy
                                      /\ r.session \notin DOMAIN sessions /\ q.header \notin {"new", "odd"}
<1> DEFINE r == McpPost(q, sessions)
           h == Handle(q)
           opens == ~IsModern(q) /\ q.method = "initialize" /\ h.kind = "result"
           answer == [status  |-> IF h = NoReply THEN 202 ELSE 200, reply |-> h,
                      created |-> IF opens THEN h.code ELSE "none",
                      session |-> IF opens THEN Len(sessions) + 1
                                  ELSE IF ~IsModern(q) /\ q.method = "initialized" THEN q.session ELSE 0]
<1>1. CASE ~q.origin
  BY <1>1 DEF McpPost, Refused, RpcError, NoIds
<1>2. CASE q.origin /\ q.body # "object"
  BY <1>2 DEF McpPost, Refused, RpcError, NoIds
<1>3. CASE q.origin /\ q.body = "object" /\ IsModern(q) /\ (ModernError(q) # "none" \/ q.method = "initialize")
  BY <1>3 DEF McpPost, Refused, RpcError, NoIds
<1>4. CASE /\ q.origin /\ q.body = "object" /\ ~IsModern(q) /\ q.session # 0
           /\ q.session \notin DOMAIN sessions \/ q.header \notin {"none", sessions[q.session]}
  BY <1>4 DEF McpPost, Refused, RpcError, NoIds
<1>5. CASE /\ q.origin /\ q.body = "object"
           /\ IsModern(q) => ModernError(q) = "none" /\ q.method # "initialize"
           /\ ~IsModern(q) /\ q.session # 0 => /\ q.session \in DOMAIN sessions
                                               /\ q.header \in {"none", sessions[q.session]}
  <2>1. r = answer
    BY <1>5 DEF McpPost
  <2>2. /\ h.kind \in {"none", "error", "result"}
        /\ h = NoReply <=> h.kind = "none"
        /\ h.kind = "none" => q.id = "absent" /\ q.rpc
        /\ h.id \in {q.id, "null"}
        /\ q.id \notin NoIds => h.id = q.id /\ h.kind # "none"
        /\ h.kind = "result" /\ q.method = "initialize" => h.code \in Legacy
    BY HandleOK
  <2>3. Len(sessions) + 1 \notin DOMAIN sessions
    OBVIOUS
  <2>4. IsModern(q) => /\ q.header = "new" /\ q.meta = "new" /\ q.caps /\ q.methodHeader
                       /\ q.nameHeader = "same" <=> q.method = "call"
    BY <1>5, ModernErrorOK
  <2>5. ~IsModern(q) => q.header \notin {"new", "odd"} /\ q.meta = "none"
    BY DEF IsModern
  <2> HIDE DEF h, r
  <2>6. /\ r.reply = h /\ (r.status = 202 <=> h.kind = "none") /\ (r.status = 200 <=> h.kind # "none")
        /\ r.created # "none" => opens /\ r.created = h.code /\ r.session = Len(sessions) + 1
    BY <2>1, <2>2
  <2> QED BY <1>5, <2>2, <2>3, <2>4, <2>5, <2>6 DEF r
<1> QED BY <1>1, <1>2, <1>3, <1>4, <1>5

\* Every tool call is checked as ToolCallsChecked says.
LEMMA ToolCallChecked ==
  ASSUME NEW c \in ToolCalls, NEW app \in Apps
  PROVE  LET r == InvokeTool(c, app)
             wrong == c.given \ AllowedArguments(c) # {} \/ c.required \ c.given # {}
         IN  /\ wrong => r.asked = "nobody" /\ r.status = 400
             /\ r.asked = "nobody" => r.status \in {400, 500} /\ (r.status = 500 => ~c.path)
             /\ c.kind \in {"identity", "access"} => r.asked # "provider" /\ (r.status = 503 => ~app.cached)
             /\ c.kind \in {"list", "container"} /\ r.asked # "nobody" => c.page[1] > 0 /\ c.page[2] >= 0
                                                                         /\ c.page[1] <= IF c.kind = "list" THEN 500 ELSE 50
             /\ r.forwarded \subseteq (c.params \cap c.given) \ {"limit", "offset"}
<1> DEFINE r == InvokeTool(c, app)
           n == Refusal(c)
           wrong == c.given \ AllowedArguments(c) # {} \/ c.required \ c.given # {}
<1>1. /\ n \in {0, 400, 500}
      /\ wrong => n = 400
      /\ n = 500 => ~c.path
      /\ n = 0 /\ c.kind \in {"list", "container"} => PageOk(c.page, IF c.kind = "list" THEN 500 ELSE 50)
  BY DEF Refusal
<1> HIDE DEF n
<1>2. CASE n # 0
  <2>1. r = [status |-> n, asked |-> "nobody", forwarded |-> {}]
    BY <1>2 DEF InvokeTool, n
  <2> HIDE DEF r
  <2> QED BY <1>1, <1>2, <2>1 DEF r
<1>3. CASE n = 0
  <2>1. /\ c.kind \in {"identity", "access"} =>
             r = [status |-> IF app.cached THEN 200 ELSE 503, asked |-> "cache", forwarded |-> {}]
        /\ c.kind \in {"model", "container"} =>
             r = [status |-> IF app.provider THEN 200 ELSE 500, asked |-> "provider", forwarded |-> {}]
        /\ c.kind \notin {"identity", "access", "model", "container"} =>
             r = [status |-> IF app.upstream = "garbled" THEN 502 ELSE IF app.upstream = "fails" THEN 500 ELSE 200,
                  asked |-> "rest", forwarded |-> (c.given \cap c.params) \ PageNames]
    BY <1>3 DEF InvokeTool, n
  <2> HIDE DEF r
  <2>2. r.asked # "nobody" /\ ~wrong
    BY <1>1, <1>3, <2>1
  <2>3. c.kind \in {"identity", "access"} => r.asked # "provider" /\ (r.status = 503 => ~app.cached)
    BY <2>1
  <2>4. r.forwarded \subseteq (c.params \cap c.given) \ {"limit", "offset"}
    BY <2>1 DEF PageNames
  <2>5. c.kind \in {"list", "container"} =>
          c.page[1] > 0 /\ c.page[2] >= 0 /\ c.page[1] <= IF c.kind = "list" THEN 500 ELSE 50
    <3>1. c.page \in Int \X Int
      BY DEF ToolCalls
    <3> QED BY <1>1, <1>3, <3>1 DEF PageOk
  <2> HIDE DEF wrong
  <2> QED BY <2>2, <2>3, <2>4, <2>5 DEF r, wrong
<1> QED BY <1>1, <1>2, <1>3

\* What is listed can be read.
LEMMA ListedCanBeRead ==
  ASSUME NEW cache, NEW prompts, NEW file, NEW uri \in Catalog(cache, prompts)
  PROVE  ReadResource(cache, prompts, file, uri) \/ (uri = <<"fixed", "overrides">> /\ ~file)
<1>1. CASE \E x \in {"overview", "mapping", "identity", "openapi", "overrides"} : uri = <<"fixed", x>>
  BY <1>1 DEF ReadResource
<1>2. CASE cache # <<>> /\ \E r \in cache.roots \cap cache.nodes : uri = <<"root", r>>
  BY <1>2 DEF ReadResource
<1>3. CASE \E p \in prompts : uri = <<"prompt", p>>
  BY <1>3 DEF ReadResource
<1>4. \/ \E x \in {"overview", "mapping", "identity", "openapi", "overrides"} : uri = <<"fixed", x>>
      \/ cache # <<>> /\ \E r \in cache.roots \cap cache.nodes : uri = <<"root", r>>
      \/ \E p \in prompts : uri = <<"prompt", p>>
  <2>1. \/ uri \in {<<"fixed", x>> : x \in {"overview", "mapping", "identity", "openapi", "overrides"}}
        \/ uri \in IF cache = <<>> THEN {} ELSE {<<"root", r>> : r \in cache.roots \cap cache.nodes}
        \/ uri \in {<<"prompt", p>> : p \in prompts}
    BY DEF Catalog
  <2> QED BY <2>1
<1> QED BY <1>1, <1>2, <1>3, <1>4

\* How the expanded id names the namespace with index i: by its uri when it is known.
Tag(table, i)   == IF UriOf(table, i) = "none" THEN "ns" ELSE "nsu"
Space(table, i) == IF UriOf(table, i) = "none" THEN i ELSE UriOf(table, i)

\* The expanded id of a node, and its canonical id, which drops the form.
LEMMA NodeIdForms ==
  ASSUME NEW table, NEW i, NEW v, NEW f
  PROVE  /\ ExpandedNodeId(table, <<"ns", i, v, f>>) = <<Tag(table, i), Space(table, i), v, f>>
         /\ CanonicalNodeId(table, <<"ns", i, v, f>>) = <<Tag(table, i), Space(table, i), v, "plain">>
<1>1. ExpandedNodeId(table, <<"ns", i, v, f>>) = <<Tag(table, i), Space(table, i), v, f>>
  BY DEF ExpandedNodeId, Tag, Space
<1>2. ASSUME NEW a, NEW b PROVE [<<a, b, v, f>> EXCEPT ![4] = "plain"] = <<a, b, v, "plain">>
  OBVIOUS
<1> QED BY <1>1, <1>2 DEF CanonicalNodeId

\* An id that names the uri itself.
LEMMA UriIdForms ==
  ASSUME NEW table, NEW u, NEW v, NEW f
  PROVE  CanonicalNodeId(table, <<"nsu", u, v, f>>) = <<"nsu", u, v, "plain">>
<1>1. ExpandedNodeId(table, <<"nsu", u, v, f>>) = <<"nsu", u, v, f>>
  BY DEF ExpandedNodeId
<1>2. [<<"nsu", u, v, f>> EXCEPT ![4] = "plain"] = <<"nsu", u, v, "plain">>
  OBVIOUS
<1> QED BY <1>1, <1>2 DEF CanonicalNodeId

\* A known uri has one index, so an expanded id says which index it was made from.
LEMMA OneIndex ==
  ASSUME NEW table, IsTable(table), NEW i \in Nat, NEW j \in Nat,
         Tag(table, i) = Tag(table, j), Space(table, i) = Space(table, j)
  PROVE  i = j
<1>1. ASSUME NEW k \in Nat, UriOf(table, k) # "none" PROVE k \in 0 .. Len(table)
  BY <1>1 DEF UriOf, IsTable
<1>2. CASE UriOf(table, i) = "none"
  BY <1>2 DEF Tag, Space
<1>3. CASE UriOf(table, i) # "none"
  <2>1. UriOf(table, j) # "none" /\ UriOf(table, i) = UriOf(table, j)
    BY <1>3 DEF Tag, Space
  <2>2. i \in 0 .. Len(table) /\ j \in 0 .. Len(table)
    BY <1>1, <1>3, <2>1
  <2> QED BY <1>3, <2>1, <2>2 DEF IsTable
<1> QED BY <1>2, <1>3

\* A node id of the model in its four parts.
LEMMA NodeIdParts ==
  ASSUME NEW n \in NodeIds
  PROVE  n = <<"ns", n[2], n[3], n[4]>> /\ n[2] \in Nat /\ n[3] \in Nat /\ n[4] \in Forms
BY DEF NodeIds

\* The nodes of a model that go by an expanded or canonical id are one node.
LEMMA FoundByUri ==
  ASSUME NEW table, IsTable(table), NEW nodes \in Seq(NodeIds),
         \A j, k \in DOMAIN nodes : nodes[j][2] = nodes[k][2] /\ nodes[j][3] = nodes[k][3] => j = k,
         NEW k \in DOMAIN nodes
  PROVE  LET n == nodes[k] IN
         ByExpanded(table, nodes, <<Tag(table, n[2]), Space(table, n[2]), n[3], "plain">>) = {k}
<1> DEFINE n == nodes[k]
           key == <<Tag(table, n[2]), Space(table, n[2]), n[3], "plain">>
<1>1. ASSUME NEW j \in DOMAIN nodes
      PROVE  LET x == nodes[j] IN
             /\ x \in NodeIds
             /\ ExpandedNodeId(table, x) = <<Tag(table, x[2]), Space(table, x[2]), x[3], x[4]>>
             /\ CanonicalNodeId(table, x) = <<Tag(table, x[2]), Space(table, x[2]), x[3], "plain">>
             /\ CanonicalNodeId(table, ExpandedNodeId(table, x)) = <<Tag(table, x[2]), Space(table, x[2]), x[3], "plain">>
  <2>1. nodes[j] \in NodeIds
    OBVIOUS
  <2> DEFINE x == nodes[j]
  <2>2. x = <<"ns", x[2], x[3], x[4]>> /\ x[2] \in Nat /\ x[3] \in Nat
    BY <2>1, NodeIdParts
  <2>3. ExpandedNodeId(table, x) = <<Tag(table, x[2]), Space(table, x[2]), x[3], x[4]>>
    BY <2>2, NodeIdForms
  <2>4. CanonicalNodeId(table, x) = <<Tag(table, x[2]), Space(table, x[2]), x[3], "plain">>
    BY <2>2, NodeIdForms
  <2>5. ExpandedNodeId(table, ExpandedNodeId(table, x)) = ExpandedNodeId(table, x)
    BY <2>2, <2>3 DEF Tag, Space, ExpandedNodeId
  <2>6. CanonicalNodeId(table, ExpandedNodeId(table, x)) = CanonicalNodeId(table, x)
    BY <2>5 DEF CanonicalNodeId
  <2> QED BY <2>1, <2>3, <2>4, <2>6
<1>2. k \in ByExpanded(table, nodes, key)
  BY <1>1 DEF ByExpanded
<1>3. ASSUME NEW j \in ByExpanded(table, nodes, key) PROVE j = k
  <2>1. /\ j \in DOMAIN nodes
        /\ key \in {CanonicalNodeId(table, nodes[j]), ExpandedNodeId(table, nodes[j]),
                    CanonicalNodeId(table, ExpandedNodeId(table, nodes[j]))}
    BY DEF ByExpanded
  <2>2. key[1] = Tag(table, nodes[j][2]) /\ key[2] = Space(table, nodes[j][2]) /\ key[3] = nodes[j][3]
    BY <1>1, <2>1
  <2>3. Tag(table, n[2]) = Tag(table, nodes[j][2]) /\ Space(table, n[2]) = Space(table, nodes[j][2]) /\ n[3] = nodes[j][3]
    BY <2>2
  <2>4. n[2] \in Nat /\ nodes[j][2] \in Nat
    BY <1>1, <2>1, NodeIdParts
  <2>5. n[2] = nodes[j][2]
    BY <2>3, <2>4, OneIndex
  <2> QED BY <2>1, <2>3, <2>5
<1> QED BY <1>2, <1>3

\* The least element of a set of naturals.
LEMMA MinIsLeast ==
  ASSUME NEW S \in SUBSET Nat, S # {}
  PROVE  Min(S) \in S /\ \A x \in S : Min(S) <= x
<1>1. \E m \in S : \A x \in S : m <= x
  BY MinExists
<1> QED BY <1>1 DEF Min

\* Every way to write a node's id is translated to its element id and to no other, as
\* IdentityRoundTrip says.
LEMMA IdentityOfNode ==
  ASSUME NEW table, IsTable(table), NEW moved, IsTable(moved), NEW nodes \in Seq(NodeIds),
         \A j, k \in DOMAIN nodes : nodes[j][2] = nodes[k][2] /\ nodes[j][3] = nodes[k][3] => j = k,
         NEW k \in DOMAIN nodes
  PROVE  LET n == nodes[k]
             resolve(x) == ResolveNodeId(table, nodes, x)
             known == UriOf(table, n[2]) # "none"
         IN  /\ known => \A f \in Forms :
                  /\ resolve(<<"ns", n[2], n[3], f>>) = ElementId(table, n)
                  /\ resolve(<<"nsu", UriOf(table, n[2]), n[3], f>>) = ElementId(table, n)
             /\ ~known => resolve(n) = ElementId(table, n)
             /\ \A j \in DOMAIN nodes : j # k => ElementId(table, n) # ElementId(table, nodes[j])
             /\ \A f \in Forms, i \in 0 .. Len(table) + 1, j \in DOMAIN nodes :
                  LET v == nodes[j][3] IN
                  resolve(<<"ns", i, v, f>>) = ElementId(table, n) => i = n[2] /\ v = n[3]
             /\ \A i \in 0 .. Len(moved) : known /\ UriOf(moved, i) = UriOf(table, n[2]) =>
                  ElementId(moved, [n EXCEPT ![2] = i]) = ElementId(table, n)
<1> DEFINE n == nodes[k]
           known == UriOf(table, n[2]) # "none"
           key == <<Tag(table, n[2]), Space(table, n[2]), n[3], "plain">>
<1>1. /\ n \in NodeIds /\ n = <<"ns", n[2], n[3], n[4]>> /\ n[2] \in Nat /\ n[3] \in Nat
      /\ ExpandedNodeId(table, n) = <<Tag(table, n[2]), Space(table, n[2]), n[3], n[4]>>
      /\ CanonicalNodeId(table, n) = key
  <2>1. n \in NodeIds
    OBVIOUS
  <2>2. n = <<"ns", n[2], n[3], n[4]>> /\ n[2] \in Nat /\ n[3] \in Nat
    BY <2>1, NodeIdParts
  <2>3. ExpandedNodeId(table, n) = <<Tag(table, n[2]), Space(table, n[2]), n[3], n[4]>>
    BY <2>2, NodeIdForms
  <2>4. CanonicalNodeId(table, n) = key
    BY <2>2, NodeIdForms
  <2> QED BY <2>1, <2>2, <2>3, <2>4
<1>2. ASSUME NEW x, CanonicalNodeId(table, x) = key PROVE ResolveNodeId(table, nodes, x) = ElementId(table, n)
  <2>1. ByExpanded(table, nodes, CanonicalNodeId(table, x)) = {k}
    BY <1>2, FoundByUri
  <2>2. k \in Nat
    OBVIOUS
  <2>3. Min({k}) = k
    BY <2>2, MinIsLeast
  <2> QED BY <2>1, <2>3 DEF ResolveNodeId
<1>3. ASSUME known, NEW f \in Forms
      PROVE  /\ ResolveNodeId(table, nodes, <<"ns", n[2], n[3], f>>) = ElementId(table, n)
             /\ ResolveNodeId(table, nodes, <<"nsu", UriOf(table, n[2]), n[3], f>>) = ElementId(table, n)
  <2>1. CanonicalNodeId(table, <<"ns", n[2], n[3], f>>) = key
    BY NodeIdForms
  <2>2. CanonicalNodeId(table, <<"nsu", UriOf(table, n[2]), n[3], f>>) = key
    BY <1>3, UriIdForms DEF Tag, Space
  <2> QED BY <1>2, <2>1, <2>2
<1>4. ResolveNodeId(table, nodes, n) = ElementId(table, n)
  BY <1>1, <1>2
<1>5. ASSUME NEW j \in DOMAIN nodes, ElementId(table, n) = ElementId(table, nodes[j]) PROVE j = k
  <2> DEFINE x == nodes[j]
  <2>1. x \in NodeIds
    OBVIOUS
  <2>2. x = <<"ns", x[2], x[3], x[4]>> /\ x[2] \in Nat /\ x[3] \in Nat
    BY <2>1, NodeIdParts
  <2>3. ExpandedNodeId(table, x) = <<Tag(table, x[2]), Space(table, x[2]), x[3], x[4]>>
    BY <2>2, NodeIdForms
  <2>4. ExpandedNodeId(table, n) = ExpandedNodeId(table, x)
    BY <1>5 DEF ElementId
  <2>5. Tag(table, n[2]) = Tag(table, x[2]) /\ Space(table, n[2]) = Space(table, x[2]) /\ n[3] = x[3]
    BY <1>1, <2>3, <2>4
  <2>6. n[2] = x[2]
    BY <1>1, <2>2, <2>5, OneIndex
  <2> QED BY <2>5, <2>6
<1>6. ASSUME NEW f \in Forms, NEW i \in 0 .. Len(table) + 1, NEW j \in DOMAIN nodes,
             ResolveNodeId(table, nodes, <<"ns", i, nodes[j][3], f>>) = ElementId(table, n)
      PROVE  i = n[2] /\ nodes[j][3] = n[3]
  <2> DEFINE v == nodes[j][3]
             x == <<"ns", i, v, f>>
             byUri == ByExpanded(table, nodes, CanonicalNodeId(table, x))
             found == IF byUri # {} THEN byUri ELSE ByNodeId(table, nodes, x)
  <2>1. found \in SUBSET Nat /\ found \subseteq DOMAIN nodes
    BY DEF ByExpanded, ByNodeId
  <2>2. found # {}
    <3>1. <<"none">> # ElementId(table, n)
      BY DEF ElementId
    <3> QED BY <1>6, <3>1 DEF ResolveNodeId
  <2>3. Min(found) \in found /\ ResolveNodeId(table, nodes, x) = ElementId(table, nodes[Min(found)])
    <3>1. Min(found) \in found
      BY <2>1, <2>2, MinIsLeast
    <3> QED BY <2>2, <3>1 DEF ResolveNodeId
  <2>4. k \in found
    <3> HIDE DEF found
    <3>1. Min(found) \in DOMAIN nodes
      BY <2>1, <2>3
    <3> QED BY <1>5, <1>6, <2>3, <3>1
  <2>5. CanonicalNodeId(table, x) = <<Tag(table, i), Space(table, i), v, "plain">>
    BY NodeIdForms
  <2>6. i \in Nat
    OBVIOUS
  <2>7. CASE k \in byUri
    <3>1. CanonicalNodeId(table, x) \in {CanonicalNodeId(table, n), ExpandedNodeId(table, n),
                                         CanonicalNodeId(table, ExpandedNodeId(table, n))}
      BY <2>7 DEF ByExpanded
    <3>2. CanonicalNodeId(table, ExpandedNodeId(table, n)) = key
      <4>1. ExpandedNodeId(table, ExpandedNodeId(table, n)) = ExpandedNodeId(table, n)
        BY <1>1 DEF Tag, Space, ExpandedNodeId
      <4> QED BY <1>1, <4>1 DEF CanonicalNodeId
    <3>3. Tag(table, n[2]) = Tag(table, i) /\ Space(table, n[2]) = Space(table, i) /\ n[3] = v
      BY <1>1, <2>5, <3>1, <3>2
    <3> QED BY <1>1, <2>6, <3>3, OneIndex
  <2>8. CASE k \in ByNodeId(table, nodes, x)
    <3>1. x = n \/ (x = CanonicalNodeId(table, n) /\ x[1] = "ns")
      BY <2>8 DEF ByNodeId
    <3>2. CASE x = n
      BY <1>1, <3>2
    <3>3. CASE x = CanonicalNodeId(table, n) /\ x[1] = "ns"
      <4>1. Tag(table, n[2]) = "ns"
        BY <1>1, <3>3
      <4>2. Space(table, n[2]) = n[2]
        BY <4>1 DEF Tag, Space
      <4> QED BY <1>1, <3>3, <4>1, <4>2
    <3> QED BY <3>1, <3>2, <3>3
  <2> QED BY <2>4, <2>7, <2>8
<1>7. ASSUME NEW i \in 0 .. Len(moved), known, UriOf(moved, i) = UriOf(table, n[2])
      PROVE  ElementId(moved, [n EXCEPT ![2] = i]) = ElementId(table, n)
  <2>1. [n EXCEPT ![2] = i] = <<"ns", i, n[3], n[4]>>
    BY <1>1
  <2>2. ExpandedNodeId(moved, <<"ns", i, n[3], n[4]>>) = <<Tag(moved, i), Space(moved, i), n[3], n[4]>>
    BY NodeIdForms
  <2>3. Tag(moved, i) = Tag(table, n[2]) /\ Space(moved, i) = Space(table, n[2])
    BY <1>7 DEF Tag, Space
  <2> QED BY <1>1, <2>1, <2>2, <2>3 DEF ElementId
<1> QED BY <1>3, <1>4, <1>5, <1>6, <1>7

-----------------------------------------------------------------------------
(* MCP streams                                                              *)

\* A message more in a queue is a message more after what was got.
LEMMA AppendLater ==
  ASSUME NEW T, NEW s \in Seq(T), NEW q \in Seq(T), NEW x \in T
  PROVE  s \o Append(q, x) = Append(s \o q, x)
<1>1. Append(q, x) \in Seq(T) /\ Len(Append(q, x)) = Len(q) + 1 /\ s \o q \in Seq(T)
  BY AppendProperties, ConcatProperties
<1>2. s \o Append(q, x) \in Seq(T) /\ Append(s \o q, x) \in Seq(T)
  BY <1>1, AppendProperties, ConcatProperties
<1>3. Len(s \o Append(q, x)) = Len(s) + Len(q) + 1 /\ Len(Append(s \o q, x)) = Len(s) + Len(q) + 1
  BY <1>1, AppendProperties, ConcatProperties
<1>4. ASSUME NEW i \in 1 .. Len(s) + Len(q) + 1 PROVE (s \o Append(q, x))[i] = Append(s \o q, x)[i]
  BY <1>1
<1> QED BY <1>2, <1>3, <1>4, SeqEqual

\* Taking the first message of a queue changes nothing of what was got and is still to come.
LEMMA HeadMoves ==
  ASSUME NEW T, NEW s \in Seq(T), NEW q \in Seq(T), q # <<>>
  PROVE  Append(s, Head(q)) \o Tail(q) = s \o q
<1>1. Head(q) \in T /\ Tail(q) \in Seq(T) /\ Len(Tail(q)) = Len(q) - 1 /\ Len(q) > 0
  BY HeadTailProperties, EmptySeq
<1>2. Append(s, Head(q)) \in Seq(T) /\ Len(Append(s, Head(q))) = Len(s) + 1
  BY <1>1, AppendProperties
<1>3. Append(s, Head(q)) \o Tail(q) \in Seq(T) /\ s \o q \in Seq(T)
  BY <1>1, <1>2, ConcatProperties
<1>4. Len(Append(s, Head(q)) \o Tail(q)) = Len(s) + Len(q) /\ Len(s \o q) = Len(s) + Len(q)
  BY <1>1, <1>2, ConcatProperties
<1>5. ASSUME NEW i \in 1 .. Len(s) + Len(q) PROVE (Append(s, Head(q)) \o Tail(q))[i] = (s \o q)[i]
  BY <1>1, <1>2
<1> QED BY <1>3, <1>4, <1>5, SeqEqual

\* A message more in a log is one more since any earlier place.
LEMMA LaterGrows ==
  ASSUME NEW T, NEW l \in Seq(T), NEW from \in 0 .. Len(l), NEW x \in T
  PROVE  SubSeq(Append(l, x), from + 1, Len(Append(l, x))) = Append(SubSeq(l, from + 1, Len(l)), x)
<1> DEFINE m == Append(l, x)
           a == SubSeq(m, from + 1, Len(m))
           b == SubSeq(l, from + 1, Len(l))
<1>1. m \in Seq(T) /\ Len(m) = Len(l) + 1 /\ Len(l) \in Nat /\ \A i \in 1 .. Len(l) : m[i] = l[i]
  BY AppendProperties
<1>2. m[Len(l) + 1] = x
  BY AppendProperties
<1> HIDE DEF m
<1>3. /\ a \in Seq(T) /\ Len(a) = Len(l) + 1 - from
      /\ \A i \in 1 .. Len(l) + 1 - from : a[i] = m[from + i]
  <2>1. \A i \in from + 1 .. Len(m) : m[i] \in T
    BY <1>1, ElementOfSeq
  <2> QED BY <1>1, <2>1, SubSeqProperties
<1>4. /\ b \in Seq(T) /\ Len(b) = Len(l) - from
      /\ \A i \in 1 .. Len(l) - from : b[i] = l[from + i]
  <2>1. \A i \in from + 1 .. Len(l) : l[i] \in T
    BY ElementOfSeq
  <2> QED BY <1>1, <2>1, SubSeqProperties
<1> HIDE DEF a, b
<1>5. /\ Append(b, x) \in Seq(T) /\ Len(Append(b, x)) = Len(l) - from + 1
      /\ \A i \in 1 .. Len(l) - from : Append(b, x)[i] = b[i]
      /\ Append(b, x)[Len(l) - from + 1] = x
  BY <1>4, AppendProperties
<1>6. ASSUME NEW i \in 1 .. Len(l) + 1 - from PROVE a[i] = Append(b, x)[i]
  <2>1. CASE i = Len(l) + 1 - from
    <3>1. from + i = Len(l) + 1
      BY <1>1, <2>1
    <3> QED BY <1>1, <1>2, <1>3, <1>5, <2>1, <3>1
  <2>2. CASE i \in 1 .. Len(l) - from
    BY <1>1, <1>3, <1>4, <1>5, <2>2
  <2>3. i = Len(l) + 1 - from \/ i \in 1 .. Len(l) - from
    BY LenProperties
  <2> QED BY <2>1, <2>2, <2>3
<1>7. a = Append(b, x)
  BY <1>1, <1>3, <1>5, <1>6, SeqEqual
<1> QED BY <1>7 DEF a, b, m

\* The end comes after everything else: who takes it has got all.
LEMMA EndIsLast ==
  ASSUME NEW T, NEW e, e \notin T, NEW s \in Seq(T), NEW q \in Seq(T \cup {e}), q # <<>>, Head(q) = e,
         NEW all \in Seq(T), s \o q = Append(all, e)
  PROVE  s = all
<1>1. s \in Seq(T \cup {e}) /\ all \in Seq(T \cup {e})
  BY SeqMonotonic
<1>2. Len(q) \in Nat \ {0} /\ q[1] = e /\ Len(s) \in Nat /\ Len(all) \in Nat
  BY EmptySeq, LenProperties
<1>3. /\ Len(s) + Len(q) = Len(all) + 1
      /\ \A i \in 1 .. Len(s) : s[i] = Append(all, e)[i]
      /\ Append(all, e)[Len(s) + 1] = e
  <2>1. /\ Len(s \o q) = Len(s) + Len(q)
        /\ \A i \in 1 .. Len(s) + Len(q) : (s \o q)[i] = IF i <= Len(s) THEN s[i] ELSE q[i - Len(s)]
    BY <1>1, ConcatProperties
  <2>2. Len(Append(all, e)) = Len(all) + 1
    BY <1>1, AppendProperties
  <2> QED BY <1>2, <2>1, <2>2
<1>4. \A i \in 1 .. Len(all) : Append(all, e)[i] = all[i] /\ all[i] \in T
  BY <1>1, AppendProperties, ElementOfSeq
<1>5. Len(s) = Len(all)
  <2>1. Len(s) + 1 \notin 1 .. Len(all)
    BY <1>3, <1>4
  <2> QED BY <1>2, <1>3, <2>1
<1> QED BY <1>1, <1>3, <1>4, <1>5, SeqEqual

\* What is still to come when all that is to come are messages is a message.
LEMMA HeadIsOfAll ==
  ASSUME NEW T, NEW e, e \notin T, NEW s \in Seq(T), NEW q \in Seq(T \cup {e}), q # <<>>, NEW all \in Seq(T), s \o q = all
  PROVE  Head(q) \in T
<1>1. s \in Seq(T \cup {e})
  BY SeqMonotonic
<1>2. Len(q) \in Nat \ {0} /\ Head(q) = q[1] /\ Len(s) \in Nat
  BY EmptySeq, LenProperties
<1>3. Len(all) = Len(s) + Len(q) /\ all[Len(s) + 1] = q[1]
  BY <1>1, <1>2, ConcatProperties
<1> QED BY <1>2, <1>3, ElementOfSeq

Marks   == Messages \cup {End}
Streams == [session : Nat, from : Nat, queue : Seq(Marks), got : Seq(Messages), open : BOOLEAN]

\* The stream x has a session and joined it somewhere.
Placed(log, x) == x.session \in 1 .. Len(log) /\ x.from \in 0 .. Len(log[x.session])

\* What the session of x was sent since x joined.
Since(log, x) == SubSeq(log[x.session], x.from + 1, Len(log[x.session]))

\* What StreamsInStep says of the stream x.
InStep(live, log, x) ==
    IF x.session \in live THEN x.open /\ x.got \o x.queue = Since(log, x)
    ELSE IF x.open THEN x.got \o x.queue = Append(Since(log, x), End)
    ELSE x.got = Since(log, x)

\* The transport as its steps leave it.
StreamsOK(live, log, streams, left) ==
    /\ log \in Seq(Seq(Messages)) /\ live \subseteq 1 .. Len(log) /\ streams \in Seq(Streams)
    /\ \A k \in 1 .. Len(streams) : Placed(log, streams[k]) /\ (k \notin left => InStep(live, log, streams[k]))

\* No message is the end.
LEMMA EndIsNone ==
  End \notin Messages
BY DEF End, Messages

\* What a session was sent since a stream joined is a sequence of messages.
LEMMA SinceType ==
  ASSUME NEW log \in Seq(Seq(Messages)), NEW x, Placed(log, x)
  PROVE  log[x.session] \in Seq(Messages) /\ Since(log, x) \in Seq(Messages)
<1>1. log[x.session] \in Seq(Messages) /\ x.from \in Nat
  BY ElementOfSeq DEF Placed
<1>2. \A i \in x.from + 1 .. Len(log[x.session]) : log[x.session][i] \in Messages
  BY <1>1, ElementOfSeq
<1> QED BY <1>1, <1>2, SubSeqProperties DEF Since

\* A new session changes no stream.
LEMMA ConnectOK ==
  ASSUME NEW live, NEW log, NEW streams, NEW left, StreamsOK(live, log, streams, left)
  PROVE  StreamsOK(live \cup {Len(log) + 1}, Append(log, <<>>), streams, left)
<1> DEFINE n == Len(log)
           m == Append(log, <<>>)
<1>1. log \in Seq(Seq(Messages)) /\ live \subseteq 1 .. n /\ streams \in Seq(Streams)
  BY DEF StreamsOK
<1>2. <<>> \in Seq(Messages) /\ n \in Nat
  BY <1>1, EmptySeq, LenProperties
<1>3. /\ m \in Seq(Seq(Messages)) /\ Len(m) = n + 1
      /\ \A s \in 1 .. n : m[s] = log[s]
  BY <1>1, <1>2, AppendProperties
<1> HIDE DEF m
<1>4. live \cup {n + 1} \subseteq 1 .. Len(m)
  <2> HIDE DEF n
  <2> QED BY <1>1, <1>2, <1>3
<1>5. ASSUME NEW k \in 1 .. Len(streams)
      PROVE  Placed(m, streams[k]) /\ (k \notin left => InStep(live \cup {n + 1}, m, streams[k]))
  <2>1. Placed(log, streams[k]) /\ (k \notin left => InStep(live, log, streams[k]))
    BY DEF StreamsOK
  <2> DEFINE s == streams[k].session
  <2>2. s \in 1 .. n
    BY <2>1 DEF Placed
  <2>3. s \in 1 .. Len(m) /\ m[s] = log[s]
    BY <1>2, <1>3, <2>2
  <2>4. Placed(m, streams[k]) /\ Since(m, streams[k]) = Since(log, streams[k])
    BY <2>1, <2>3 DEF Placed, Since
  <2>5. s \in live \cup {n + 1} <=> s \in live
    BY <1>2, <2>2
  <2> QED BY <2>1, <2>4, <2>5 DEF InStep
<1> QED BY <1>1, <1>3, <1>4, <1>5 DEF StreamsOK, m

\* A new stream has got nothing and nothing was sent since now.
LEMMA ListenOK ==
  ASSUME NEW live, NEW log, NEW streams, NEW left, StreamsOK(live, log, streams, left), NEW s \in live
  PROVE  StreamsOK(live, log,
                   Append(streams, [session |-> s, from |-> Len(log[s]), queue |-> <<>>, got |-> <<>>, open |-> TRUE]), left)
<1> DEFINE x == [session |-> s, from |-> Len(log[s]), queue |-> <<>>, got |-> <<>>, open |-> TRUE]
           m == Append(streams, x)
<1>1. log \in Seq(Seq(Messages)) /\ live \subseteq 1 .. Len(log) /\ streams \in Seq(Streams) /\ s \in 1 .. Len(log)
  BY DEF StreamsOK
<1>2. log[s] \in Seq(Messages) /\ Len(log[s]) \in Nat /\ <<>> \in Seq(Messages) /\ <<>> \in Seq(Marks)
  BY <1>1, ElementOfSeq, EmptySeq, LenProperties
<1>3. x \in Streams
  BY <1>1, <1>2 DEF Streams
<1>4. /\ x.session = s /\ x.from = Len(log[s]) /\ x.queue = <<>> /\ x.got = <<>> /\ x.open
  OBVIOUS
<1> HIDE DEF x
<1>5. m \in Seq(Streams) /\ Len(m) = Len(streams) + 1 /\ m[Len(streams) + 1] = x /\ \A k \in 1 .. Len(streams) : m[k] = streams[k]
  BY <1>1, <1>3, AppendProperties
<1> HIDE DEF m
<1>6. Placed(log, x)
  BY <1>1, <1>2, <1>4 DEF Placed
<1>7. InStep(live, log, x)
  <2>1. Since(log, x) = <<>>
    BY <1>2, <1>4, SubSeqEmpty DEF Since
  <2>2. <<>> \o <<>> = <<>>
    BY <1>2, ConcatEmptySeq
  <2> QED BY <1>4, <2>1, <2>2 DEF InStep
<1>8. ASSUME NEW k \in 1 .. Len(m)
      PROVE  Placed(log, m[k]) /\ (k \notin left => InStep(live, log, m[k]))
  <2>1. CASE k = Len(streams) + 1
    BY <1>5, <1>6, <1>7, <2>1
  <2>2. CASE k \in 1 .. Len(streams)
    BY <1>5, <2>2 DEF StreamsOK
  <2> QED BY <1>1, <1>5, <2>1, <2>2, LenProperties
<1> QED BY <1>1, <1>5, <1>8 DEF StreamsOK, m, x

\* The stream x after a mark more was put in its queue.
LEMMA Queued ==
  ASSUME NEW x \in Streams, NEW mark \in Marks
  PROVE  LET y == [x EXCEPT !.queue = Append(@, mark)] IN
         /\ y \in Streams /\ y.session = x.session /\ y.from = x.from /\ y.got = x.got /\ y.open = x.open
         /\ y.queue = Append(x.queue, mark) /\ y.got \o y.queue = Append(x.got \o x.queue, mark)
<1> DEFINE y == [x EXCEPT !.queue = Append(@, mark)]
<1>1. x.queue \in Seq(Marks) /\ x.got \in Seq(Messages)
  BY DEF Streams
<1>2. x.got \in Seq(Marks)
  BY <1>1, SeqMonotonic DEF Marks
<1>3. Append(x.queue, mark) \in Seq(Marks)
  BY <1>1
<1>4. /\ y \in Streams /\ y.session = x.session /\ y.from = x.from /\ y.got = x.got /\ y.open = x.open
      /\ y.queue = Append(x.queue, mark)
  BY <1>3 DEF Streams
<1> HIDE DEF y
<1>5. y.got \o y.queue = Append(x.got \o x.queue, mark)
  <2>1. x.got \o Append(x.queue, mark) = Append(x.got \o x.queue, mark)
    <3>1. ASSUME NEW g \in Seq(Marks), NEW q \in Seq(Marks) PROVE g \o Append(q, mark) = Append(g \o q, mark)
      BY AppendLater
    <3> QED BY <1>1, <1>2, <3>1
  <2> QED BY <1>4, <2>1
<1> QED BY <1>4, <1>5 DEF y

\* What is put into queues leaves streams.
LEMMA PutAllType ==
  ASSUME NEW streams \in Seq(Streams), NEW S, NEW mark \in Marks
  PROVE  /\ PutAll(streams, S, mark) \in Seq(Streams) /\ Len(PutAll(streams, S, mark)) = Len(streams)
         /\ \A k \in 1 .. Len(streams) :
              PutAll(streams, S, mark)[k] = IF streams[k].session \in S /\ streams[k].open
                                       THEN [streams[k] EXCEPT !.queue = Append(@, mark)] ELSE streams[k]
<1> DEFINE n == Len(streams)
           f(k) == IF streams[k].session \in S /\ streams[k].open
                   THEN [streams[k] EXCEPT !.queue = Append(@, mark)] ELSE streams[k]
           m == [k \in 1 .. n |-> f(k)]
<1>1. PutAll(streams, S, mark) = m /\ n \in Nat
  BY LenProperties DEF PutAll
<1>2. ASSUME NEW k \in 1 .. n PROVE f(k) \in Streams
  <2>1. streams[k] \in Streams
    BY ElementOfSeq
  <2>2. [streams[k] EXCEPT !.queue = Append(@, mark)] \in Streams
    BY <2>1, Queued
  <2> QED BY <2>1, <2>2
<1>3. \A k \in 1 .. n : m[k] = f(k)
  OBVIOUS
<1> HIDE DEF f
<1>4. m \in [1 .. n -> Streams]
  BY <1>2
<1> HIDE DEF m
<1>5. m \in Seq(Streams) /\ Len(m) = n
  <2>1. m \in Seq(Streams)
    BY <1>1, <1>4, SeqDef
  <2> QED BY <1>1, <1>4, <2>1, LenProperties
<1> HIDE DEF n
<1>6. \A k \in 1 .. n : PutAll(streams, S, mark)[k] = f(k)
  BY <1>1, <1>3
<1> QED BY <1>1, <1>5, <1>6 DEF f, n

\* A message is added to its session's log and put into the session's open streams.
LEMMA PublishOK ==
  ASSUME NEW live, NEW log, NEW streams, NEW left, StreamsOK(live, log, streams, left), NEW s \in live,
         NEW x \in Messages
  PROVE  StreamsOK(live, [log EXCEPT ![s] = Append(log[s], x)], PutAll(streams, {s}, x), left)
<1> DEFINE l == [log EXCEPT ![s] = Append(log[s], x)]
           m == PutAll(streams, {s}, x)
<1>1. log \in Seq(Seq(Messages)) /\ live \subseteq 1 .. Len(log) /\ streams \in Seq(Streams) /\ s \in 1 .. Len(log)
  BY DEF StreamsOK
<1>2. log[s] \in Seq(Messages) /\ Append(log[s], x) \in Seq(Messages) /\ Len(Append(log[s], x)) = Len(log[s]) + 1 /\ Len(log[s]) \in Nat
  BY <1>1, ElementOfSeq, AppendProperties
<1>3. /\ l \in Seq(Seq(Messages)) /\ Len(l) = Len(log)
      /\ \A t \in 1 .. Len(log) : l[t] = IF t = s THEN Append(log[s], x) ELSE log[t]
  BY <1>1, <1>2, ExceptSeq
<1>4. /\ m \in Seq(Streams) /\ Len(m) = Len(streams)
      /\ \A k \in 1 .. Len(streams) :
           m[k] = IF streams[k].session = s /\ streams[k].open THEN [streams[k] EXCEPT !.queue = Append(@, x)] ELSE streams[k]
  <2>1. x \in Marks
    BY DEF Marks
  <2>2. /\ m \in Seq(Streams) /\ Len(m) = Len(streams)
        /\ \A k \in 1 .. Len(streams) :
             m[k] = IF streams[k].session \in {s} /\ streams[k].open
                    THEN [streams[k] EXCEPT !.queue = Append(@, x)] ELSE streams[k]
    BY <1>1, <2>1, PutAllType
  <2> QED BY <2>2
<1> HIDE DEF l, m
<1>5. ASSUME NEW k \in 1 .. Len(m)
      PROVE  Placed(l, m[k]) /\ (k \notin left => InStep(live, l, m[k]))
  <2> DEFINE a == streams[k]
             b == m[k]
  <2>1. a \in Streams /\ Placed(log, a) /\ (k \notin left => InStep(live, log, a))
    BY <1>1, <1>4, ElementOfSeq DEF StreamsOK
  <2>2. b = IF a.session = s /\ a.open THEN [a EXCEPT !.queue = Append(@, x)] ELSE a
    BY <1>4
  <2>3. b.session = a.session /\ b.from = a.from /\ b.got = a.got /\ b.open = a.open
    BY <2>1, <2>2, Queued DEF Marks
  <2> HIDE DEF a, b
  <2>4. CASE a.session = s
    <3>1. Placed(l, b)
      <4>1. s \in 1 .. Len(l) /\ Len(l[s]) = Len(log[s]) + 1 /\ Len(log[s]) \in Nat
        BY <1>1, <1>2, <1>3
      <4>2. a.from \in 0 .. Len(log[s])
        BY <2>1, <2>4 DEF Placed
      <4>3. a.from \in 0 .. Len(l[s])
        BY <4>1, <4>2
      <4> QED BY <2>3, <2>4, <4>1, <4>3 DEF Placed
    <3>2. Since(l, b) = Append(Since(log, a), x)
      <4>1. l[s] = Append(log[s], x) /\ a.from \in 0 .. Len(log[s])
        BY <1>1, <1>3, <2>1, <2>4 DEF Placed
      <4>2. SubSeq(Append(log[s], x), a.from + 1, Len(Append(log[s], x))) = Append(SubSeq(log[s], a.from + 1, Len(log[s])), x)
        BY <1>2, <4>1, LaterGrows
      <4> QED BY <2>3, <2>4, <4>1, <4>2 DEF Since
    <3>3. ASSUME InStep(live, log, a) PROVE InStep(live, l, b)
      <4>1. a.open /\ a.got \o a.queue = Since(log, a)
        BY <2>4, <3>3 DEF InStep
      <4>2. b = [a EXCEPT !.queue = Append(@, x)]
        BY <2>2, <2>4, <4>1
      <4>3. b.got \o b.queue = Append(a.got \o a.queue, x)
        BY <2>1, <4>2, Queued DEF Marks
      <4> QED BY <2>3, <2>4, <3>2, <4>1, <4>3 DEF InStep
    <3> QED BY <2>1, <3>1, <3>3 DEF b
  <2>5. CASE a.session # s
    <3>1. b = a
      BY <2>2, <2>5
    <3>2. a.session \in 1 .. Len(log) /\ l[a.session] = log[a.session]
      BY <1>3, <2>1, <2>5 DEF Placed
    <3>3. Placed(l, a) /\ Since(l, a) = Since(log, a)
      BY <1>3, <2>1, <3>2 DEF Placed, Since
    <3>4. InStep(live, log, a) => InStep(live, l, a)
      BY <3>3 DEF InStep
    <3> QED BY <2>1, <3>1, <3>3, <3>4 DEF b
  <2> QED BY <2>4, <2>5
<1>6. live \subseteq 1 .. Len(l)
  BY <1>1, <1>3
<1> QED BY <1>3, <1>4, <1>5, <1>6 DEF StreamsOK, l, m

\* The open streams of the sessions that go are told so, and no other.
LEMMA CloseOK ==
  ASSUME NEW live, NEW log, NEW streams, NEW left, StreamsOK(live, log, streams, left), NEW S \in SUBSET live
  PROVE  StreamsOK(live \ S, log, PutAll(streams, S, End), left)
<1> DEFINE m == PutAll(streams, S, End)
<1>1. log \in Seq(Seq(Messages)) /\ live \subseteq 1 .. Len(log) /\ streams \in Seq(Streams)
  BY DEF StreamsOK
<1>2. /\ m \in Seq(Streams) /\ Len(m) = Len(streams)
      /\ \A k \in 1 .. Len(streams) :
           m[k] = IF streams[k].session \in S /\ streams[k].open THEN [streams[k] EXCEPT !.queue = Append(@, End)] ELSE streams[k]
  <2>1. End \in Marks
    BY DEF Marks
  <2> QED BY <1>1, <2>1, PutAllType
<1> HIDE DEF m
<1>3. ASSUME NEW k \in 1 .. Len(m)
      PROVE  Placed(log, m[k]) /\ (k \notin left => InStep(live \ S, log, m[k]))
  <2> DEFINE a == streams[k]
             b == m[k]
  <2>1. a \in Streams /\ Placed(log, a) /\ (k \notin left => InStep(live, log, a))
    BY <1>1, <1>2, ElementOfSeq DEF StreamsOK
  <2>2. b = IF a.session \in S /\ a.open THEN [a EXCEPT !.queue = Append(@, End)] ELSE a
    BY <1>2
  <2>3. b.session = a.session /\ b.from = a.from /\ b.got = a.got /\ b.open = a.open
    BY <2>1, <2>2, Queued DEF Marks
  <2> HIDE DEF a, b
  <2>4. Placed(log, b) /\ Since(log, b) = Since(log, a)
    BY <2>1, <2>3 DEF Placed, Since
  <2>5. ASSUME InStep(live, log, a), a.session \in S PROVE InStep(live \ S, log, b)
    <3>1. a.open /\ a.got \o a.queue = Since(log, a)
      BY <2>5 DEF InStep
    <3>2. b.got \o b.queue = Append(a.got \o a.queue, End)
      <4>1. b = [a EXCEPT !.queue = Append(@, End)]
        BY <2>2, <2>5, <3>1
      <4> QED BY <2>1, <4>1, Queued DEF Marks
    <3> QED BY <2>3, <2>4, <2>5, <3>1, <3>2 DEF InStep
  <2>6. ASSUME InStep(live, log, a), a.session \notin S PROVE InStep(live \ S, log, b)
    <3>1. b = a /\ (a.session \in live \ S <=> a.session \in live)
      BY <2>2, <2>6
    <3> QED BY <2>6, <3>1 DEF InStep
  <2> QED BY <2>1, <2>4, <2>5, <2>6 DEF b
<1> QED BY <1>1, <1>2, <1>3 DEF StreamsOK, m

\* A stream takes the next of its queue.
LEMMA DeliverOK ==
  ASSUME NEW live, NEW log, NEW streams, NEW left, StreamsOK(live, log, streams, left),
         NEW k \in 1 .. Len(streams), streams[k].open, streams[k].queue # <<>>,
         NEW b, b = [session |-> streams[k].session, from |-> streams[k].from, queue |-> Tail(streams[k].queue),
                     got |-> IF Head(streams[k].queue) = End THEN streams[k].got ELSE Append(streams[k].got, Head(streams[k].queue)),
                     open |-> Head(streams[k].queue) # End]
  PROVE  StreamsOK(live, log, [streams EXCEPT ![k] = b], left)
<1> DEFINE a == streams[k]
           x == Head(a.queue)
<1>1. log \in Seq(Seq(Messages)) /\ live \subseteq 1 .. Len(log) /\ streams \in Seq(Streams)
  BY DEF StreamsOK
<1>2. a \in Streams /\ Placed(log, a) /\ (k \notin left => InStep(live, log, a))
  BY <1>1, ElementOfSeq DEF StreamsOK
<1> HIDE DEF a
<1>3. a.queue \in Seq(Marks) /\ a.got \in Seq(Messages) /\ a.got \in Seq(Marks) /\ a.queue # <<>> /\ a.open
      /\ a.session \in Nat /\ a.from \in Nat
  <2>1. a.queue \in Seq(Marks) /\ a.got \in Seq(Messages) /\ a.session \in Nat /\ a.from \in Nat
    BY <1>2 DEF Streams
  <2> QED BY <2>1, SeqMonotonic DEF Marks, a
<1>4. x \in Marks /\ Tail(a.queue) \in Seq(Marks)
  BY <1>3, HeadTailProperties
<1>5. /\ b.session = a.session /\ b.from = a.from /\ b.queue = Tail(a.queue) /\ (b.open <=> x # End)
      /\ b.got = IF x = End THEN a.got ELSE Append(a.got, x)
  BY DEF a
<1>6. b \in Streams
  <2>1. b.got \in Seq(Messages)
    BY <1>3, <1>4, <1>5, AppendProperties DEF Marks
  <2>2. PICK open \in BOOLEAN : open = (x # End)
    OBVIOUS
  <2>3. b = [session |-> a.session, from |-> a.from, queue |-> Tail(a.queue), got |-> b.got, open |-> open]
    BY <2>2 DEF a
  <2> QED BY <1>3, <1>4, <2>1, <2>3 DEF Streams
<1>7. Placed(log, b) /\ Since(log, b) = Since(log, a)
  BY <1>2, <1>5 DEF Placed, Since
<1>8. Since(log, a) \in Seq(Messages)
  BY <1>1, <1>2, SinceType
<1>9. ASSUME k \notin left PROVE InStep(live, log, b)
  <2>1. CASE x = End
    <3>1. a.session \notin live
      <4>1. ASSUME a.got \o a.queue = Since(log, a) PROVE FALSE
        <5>1. x \in Messages
          BY <1>3, <1>8, <4>1, HeadIsOfAll, EndIsNone DEF Marks
        <5> QED BY <2>1, <5>1, EndIsNone
      <4> QED BY <1>2, <1>9, <4>1 DEF InStep
    <3>2. a.got \o a.queue = Append(Since(log, a), End)
      BY <1>2, <1>3, <1>9, <3>1 DEF InStep
    <3>3. a.got = Since(log, a)
      BY <1>3, <1>8, <2>1, <3>2, EndIsLast, EndIsNone DEF Marks
    <3> QED BY <1>5, <1>7, <2>1, <3>1, <3>3 DEF InStep
  <2>2. CASE x # End
    <3>1. b.got \o b.queue = a.got \o a.queue
      <4>1. b.got = Append(a.got, Head(a.queue)) /\ b.queue = Tail(a.queue)
        BY <1>5, <2>2
      <4>2. ASSUME NEW g \in Seq(Marks), NEW q \in Seq(Marks), q # <<>> PROVE Append(g, Head(q)) \o Tail(q) = g \o q
        BY <4>2, HeadMoves
      <4>3. Append(a.got, Head(a.queue)) \o Tail(a.queue) = a.got \o a.queue
        BY <1>3, <4>2
      <4> QED BY <4>1, <4>3
    <3> QED BY <1>2, <1>3, <1>5, <1>7, <1>9, <2>2, <3>1 DEF InStep
  <2> QED BY <2>1, <2>2
<1>10. /\ [streams EXCEPT ![k] = b] \in Seq(Streams) /\ Len([streams EXCEPT ![k] = b]) = Len(streams)
       /\ \A j \in 1 .. Len(streams) : [streams EXCEPT ![k] = b][j] = IF j = k THEN b ELSE streams[j]
  BY <1>1, <1>6, ExceptSeq
<1> QED BY <1>1, <1>7, <1>9, <1>10 DEF StreamsOK

\* A stream whose client left counts no more.
LEMMA LeaveOK ==
  ASSUME NEW live, NEW log, NEW streams, NEW left, StreamsOK(live, log, streams, left), NEW k \in 1 .. Len(streams)
  PROVE  StreamsOK(live, log, [streams EXCEPT ![k] = [streams[k] EXCEPT !.open = FALSE, !.queue = <<>>]], left \cup {k})
<1> DEFINE b == [streams[k] EXCEPT !.open = FALSE, !.queue = <<>>]
           m == [streams EXCEPT ![k] = b]
<1>1. log \in Seq(Seq(Messages)) /\ live \subseteq 1 .. Len(log) /\ streams \in Seq(Streams)
  BY DEF StreamsOK
<1>2. b \in Streams /\ b.session = streams[k].session /\ b.from = streams[k].from
  <2>1. streams[k] \in Streams /\ <<>> \in Seq(Marks)
    BY <1>1, EmptySeq, ElementOfSeq
  <2> QED BY <2>1 DEF Streams
<1> HIDE DEF b
<1>3. /\ m \in Seq(Streams) /\ Len(m) = Len(streams)
      /\ \A j \in 1 .. Len(streams) : m[j] = IF j = k THEN b ELSE streams[j]
  BY <1>1, <1>2, ExceptSeq
<1>4. Placed(log, b)
  BY <1>2 DEF Placed, StreamsOK
<1> HIDE DEF m
<1>5. ASSUME NEW j \in 1 .. Len(m)
      PROVE  Placed(log, m[j]) /\ (j \notin left \cup {k} => InStep(live, log, m[j]))
  BY <1>3, <1>4 DEF StreamsOK
<1> QED BY <1>1, <1>3, <1>5 DEF StreamsOK, m, b
\* The state of a run of the transport.
TransportOK(x) ==
    /\ x = [st |-> x.st, steps |-> x.steps, left |-> x.left]
    /\ x.st = [live |-> x.st.live, log |-> x.st.log, streams |-> x.st.streams]
    /\ StreamsOK(x.st.live, x.st.log, x.st.streams, x.left)

\* The state after a step that makes it of parts that are as they must be.
LEMMA TransportMade ==
  ASSUME NEW live, NEW log, NEW streams, NEW left, StreamsOK(live, log, streams, left),
         NEW st, st = [live |-> live, log |-> log, streams |-> streams], NEW gone, left = input.left \cup gone, Step(st, gone)
  PROVE  TransportOK(input')
<1>1. input' = [st |-> st, steps |-> input.steps + 1, left |-> left]
  BY DEF Step, Run
<1>2. PICK y : y = input'
  OBVIOUS
<1>3. y.st = st /\ y.left = left /\ y = [st |-> y.st, steps |-> y.steps, left |-> y.left]
  BY <1>1, <1>2
<1>4. st.live = live /\ st.log = log /\ st.streams = streams
  OBVIOUS
<1>5. TransportOK(y)
  BY <1>3, <1>4 DEF TransportOK
<1> QED BY <1>2, <1>5

\* Each step of the transport leaves it so.
LEMMA TransportStep ==
  ASSUME Ran("mcp"), TransportOK(input),
         \/ Connect \/ (\E s : Listen(s)) \/ (\E s, x : Notify(s, x)) \/ (\E S : Disconnect(S))
         \/ (\E k : Deliver(k)) \/ (\E k : Leave(k))
  PROVE  TransportOK(input')
<1> PICK st, live, log, streams, left :
      st = input.st /\ live = st.live /\ log = st.log /\ streams = st.streams /\ left = input.left
  OBVIOUS
<1>1. st = [live |-> live, log |-> log, streams |-> streams] /\ StreamsOK(live, log, streams, left)
  BY DEF TransportOK
<1>2. left = input.left \cup {}
  OBVIOUS
<1>3. CASE Connect
  <2>1. Step(OpenSession(st), {})
    BY <1>3 DEF Connect
  <2>2. OpenSession(st) = [live |-> live \cup {Len(log) + 1}, log |-> Append(log, <<>>), streams |-> streams]
    BY DEF OpenSession
  <2>3. StreamsOK(live \cup {Len(log) + 1}, Append(log, <<>>), streams, left)
    BY <1>1, ConnectOK
  <2> QED BY <1>2, <2>1, <2>2, <2>3, TransportMade
<1>4. ASSUME NEW s, Listen(s) PROVE TransportOK(input')
  <2>1. Step(OpenStream(st, s), {})
    BY <1>4 DEF Listen
  <2>2. s \in live
    BY <2>1 DEF Step, OpenStream
  <2> DEFINE c == Append(streams, [session |-> s, from |-> Len(log[s]), queue |-> <<>>, got |-> <<>>, open |-> TRUE])
  <2>3. OpenStream(st, s) = [live |-> live, log |-> log, streams |-> c]
    BY <2>2 DEF OpenStream
  <2>4. StreamsOK(live, log, c, left)
    BY <1>1, <2>2, ListenOK
  <2> HIDE DEF c
  <2> QED BY <1>2, <2>1, <2>3, <2>4, TransportMade
<1>5. ASSUME NEW s, NEW x, Notify(s, x) PROVE TransportOK(input')
  <2>1. Step(Publish(st, s, x), {}) /\ x \in Messages
    BY <1>5 DEF Notify
  <2>2. s \in live
    BY <2>1 DEF Step, Publish
  <2> DEFINE b == [log EXCEPT ![s] = Append(log[s], x)]
             c == PutAll(streams, {s}, x)
  <2>3. Publish(st, s, x) = [live |-> live, log |-> b, streams |-> c]
    BY <2>2 DEF Publish
  <2>4. StreamsOK(live, b, c, left)
    BY <1>1, <2>1, <2>2, PublishOK
  <2> HIDE DEF b, c
  <2> QED BY <1>2, <2>1, <2>3, <2>4, TransportMade
<1>6. ASSUME NEW S, Disconnect(S) PROVE TransportOK(input')
  <2>1. Step(CloseSessions(st, S), {}) /\ S \in SUBSET live
    BY <1>6 DEF Disconnect
  <2> DEFINE a == live \ S
             c == PutAll(streams, S, End)
  <2>a. S \cap live = S
    BY <2>1
  <2>2. CloseSessions(st, S) = [live |-> a, log |-> log, streams |-> c]
    BY <2>1, <2>a DEF CloseSessions
  <2>3. StreamsOK(a, log, c, left)
    BY <1>1, <2>1, CloseOK
  <2> HIDE DEF a, c
  <2> QED BY <1>2, <2>1, <2>2, <2>3, TransportMade
<1>7. ASSUME NEW k, Deliver(k) PROVE TransportOK(input')
  <2>1. Step(NextEvent(st, k), {}) /\ k \in 1 .. Len(streams) /\ streams[k].open /\ streams[k].queue # <<>>
    BY <1>7 DEF Deliver, Listening
  <2> DEFINE a == streams[k]
             x == Head(a.queue)
             b == [session |-> a.session, from |-> a.from, queue |-> Tail(a.queue),
                   got |-> IF x = End THEN a.got ELSE Append(a.got, x), open |-> (x # End)]
             c == [streams EXCEPT ![k] = b]
  <2>2. NextEvent(st, k) = [live |-> live, log |-> log, streams |-> c]
    BY DEF NextEvent, PutStream
  <2>3. StreamsOK(live, log, c, left)
    BY <1>1, <2>1, DeliverOK
  <2> HIDE DEF c
  <2> QED BY <1>2, <2>1, <2>2, <2>3, TransportMade
<1>8. ASSUME NEW k, Leave(k) PROVE TransportOK(input')
  <2>1. Step(Abandon(st, k), {k}) /\ k \in 1 .. Len(streams)
    BY <1>8 DEF Leave, Listening
  <2> DEFINE c == [streams EXCEPT ![k] = [streams[k] EXCEPT !.open = FALSE, !.queue = <<>>]]
  <2>2. Abandon(st, k) = [live |-> live, log |-> log, streams |-> c]
    BY DEF Abandon, PutStream
  <2>3. StreamsOK(live, log, c, left \cup {k})
    BY <1>1, <2>1, LeaveOK
  <2> HIDE DEF c
  <2> QED BY <2>1, <2>2, <2>3, TransportMade
<1> QED BY <1>3, <1>4, <1>5, <1>6, <1>7, <1>8
-----------------------------------------------------------------------------
(* The MCP endpoint                                                         *)

\* The inductive invariant of the MCP endpoint: each computation has an input of its kind.
McpInv ==
    /\ Ran("post") => /\ input = [q |-> input.q, sessions |-> input.sessions]
                      /\ input.q \in Requests /\ input.sessions \in Seq(Legacy)
    /\ Ran("mcp") => TransportOK(input)
    /\ Ran("invoke") => input.c \in ToolCalls /\ input.app \in Apps
    /\ Ran("identity") => /\ IsTable(input.table) /\ IsTable(input.moved) /\ input.nodes \in Seq(NodeIds)
                          /\ \A j, k \in DOMAIN input.nodes :
                               input.nodes[j][2] = input.nodes[k][2] /\ input.nodes[j][3] = input.nodes[k][3] => j = k
\* Each start of a computation gives it an input of its kind, and so do the steps.
LEMMA McpStep ==
  ASSUME McpInv, McpNext
  PROVE  McpInv'
<1>1. ASSUME NEW q, NEW sessions, PostRequest(q, sessions) PROVE McpInv'
  <2>1. task' = "post" /\ q \in Requests /\ sessions \in Seq(Legacy) /\ input' = [q |-> q, sessions |-> sessions]
    BY <1>1 DEF PostRequest, Idle, Run
  <2>2. input'.q = q /\ input'.sessions = sessions
    BY <2>1
  <2> QED BY <2>1, <2>2 DEF McpInv, Ran
<1>2. ASSUME NEW c, NEW app, CallOf(c, app) PROVE McpInv'
  <2>1. task' = "invoke" /\ c \in ToolCalls /\ app \in Apps /\ input' = [c |-> c, app |-> app]
    BY <1>2 DEF CallOf, Idle, Run
  <2>2. input'.c = c /\ input'.app = app
    BY <2>1
  <2> QED BY <2>1, <2>2 DEF McpInv, Ran
<1>3. ASSUME NEW table, NEW nodes, NEW moved, Translate(table, nodes, moved) PROVE McpInv'
  <2>1. /\ task' = "identity" /\ IsTable(table) /\ IsTable(moved) /\ nodes \in Seq(NodeIds)
        /\ \A j, k \in DOMAIN nodes : nodes[j][2] = nodes[k][2] /\ nodes[j][3] = nodes[k][3] => j = k
        /\ input' = [table |-> table, nodes |-> nodes, moved |-> moved]
    BY <1>3 DEF Translate, Idle, Run
  <2>2. input'.table = table /\ input'.nodes = nodes /\ input'.moved = moved
    BY <2>1
  <2> QED BY <2>1, <2>2 DEF McpInv, Ran
<1>4. ASSUME NEW cache, NEW prompts, NEW file, Catalogue(cache, prompts, file) PROVE McpInv'
  BY <1>4 DEF Catalogue, Idle, Run, McpInv, Ran
<1>5. CASE StartTransport
  <2>1. task' = "mcp" /\ input' = [st |-> OpenSession(NoTransport), steps |-> 0, left |-> {}]
    BY <1>5 DEF StartTransport, Idle, Run
  <2>2. OpenSession(NoTransport) = [live |-> {1}, log |-> << <<>> >>, streams |-> <<>>]
    <3>1. NoTransport.live = {} /\ NoTransport.log = <<>> /\ NoTransport.streams = <<>>
      BY DEF NoTransport
    <3>2. Append(<<>>, <<>>) = << <<>> >> /\ {} \cup {Len(<<>>) + 1} = {1}
      OBVIOUS
    <3> QED BY <3>1, <3>2 DEF OpenSession
  <2>3. StreamsOK({1}, << <<>> >>, <<>>, {})
    <3>1. <<>> \in Seq(Messages) /\ <<>> \in Seq(Streams) /\ Len(<<>>) = 0
      BY EmptySeq
    <3>2. << <<>> >> \in Seq(Seq(Messages)) /\ Len(<< <<>> >>) = 1
      BY <3>1
    <3> QED BY <3>1, <3>2 DEF StreamsOK
  <2>4. TransportOK(input')
    <3>1. input'.st = [live |-> {1}, log |-> << <<>> >>, streams |-> <<>>] /\ input'.left = {}
      BY <2>1, <2>2
    <3>2. input'.st.live = {1} /\ input'.st.log = << <<>> >> /\ input'.st.streams = <<>>
      BY <3>1
    <3>3. input' = [st |-> input'.st, steps |-> input'.steps, left |-> input'.left]
      BY <2>1
    <3> QED BY <2>3, <3>1, <3>2, <3>3 DEF TransportOK
  <2> QED BY <2>1, <2>4 DEF McpInv, Ran
<1>6. CASE \/ Connect \/ (\E s : Listen(s)) \/ (\E s, x : Notify(s, x)) \/ (\E S : Disconnect(S))
           \/ (\E k : Deliver(k)) \/ (\E k : Leave(k))
  <2>1. Ran("mcp") /\ task' = "mcp"
    BY <1>6 DEF Connect, Listen, Notify, Disconnect, Deliver, Leave, Step, Run, Ran
  <2>2. TransportOK(input)
    BY <2>1 DEF McpInv
  <2>3. TransportOK(input')
    BY <1>6, <2>1, <2>2, TransportStep
  <2> QED BY <2>1, <2>3 DEF McpInv, Ran
<1> QED BY <1>1, <1>2, <1>3, <1>4, <1>5, <1>6 DEF McpNext

\* Whatever is posted, published, called or translated, and whoever leaves or is closed
\* when: one answer to each request, streams in step with their sessions, checked tool
\* calls, ids that are translated to one element id, and resources that can be read.
THEOREM McpIsConformant == McpSpec => []McpConforms
<1>1. McpInit => McpInv
  BY DEF McpInit, McpInv, Ran
<1>2. McpInv /\ [McpNext]_vars => McpInv'
  <2> SUFFICES ASSUME McpInv, [McpNext]_vars PROVE McpInv'
    OBVIOUS
  <2>1. CASE UNCHANGED vars
    BY <2>1 DEF vars, McpInv, Ran
  <2> QED BY <2>1, McpStep
<1>3. McpInv => McpConforms
  <2> SUFFICES ASSUME McpInv PROVE McpConforms
    OBVIOUS
  <2>1. McpOneReply
    <3> SUFFICES ASSUME Ran("post") PROVE McpOneReply
      BY DEF McpOneReply
    <3> PICK q, sessions : q = input.q /\ sessions = input.sessions
      OBVIOUS
    <3>1. q \in Requests /\ sessions \in Seq(Legacy)
      BY DEF McpInv
    <3> QED BY <3>1, OneReply DEF McpOneReply
  <2>2. StreamsInStep
    <3> SUFFICES ASSUME Ran("mcp") PROVE StreamsInStep
      BY DEF StreamsInStep
    <3>1. StreamsOK(input.st.live, input.st.log, input.st.streams, input.left)
      BY DEF McpInv, TransportOK
    <3>2. \A k \in (1 .. Len(input.st.streams)) \ input.left : InStep(input.st.live, input.st.log, input.st.streams[k])
      BY <3>1 DEF StreamsOK
    <3> QED BY <3>2 DEF StreamsInStep, InStep, Since
  <2>3. ToolCallsChecked
    <3> SUFFICES ASSUME Ran("invoke") PROVE ToolCallsChecked
      BY DEF ToolCallsChecked
    <3> PICK c, app : c = input.c /\ app = input.app
      OBVIOUS
    <3>1. c \in ToolCalls /\ app \in Apps
      BY DEF McpInv
    <3> QED BY <3>1, ToolCallChecked DEF ToolCallsChecked
  <2>4. IdentityRoundTrip
    <3> SUFFICES ASSUME Ran("identity") PROVE IdentityRoundTrip
      BY DEF IdentityRoundTrip
    <3> PICK table, nodes, moved : table = input.table /\ nodes = input.nodes /\ moved = input.moved
      OBVIOUS
    <3>1. /\ IsTable(table) /\ IsTable(moved) /\ nodes \in Seq(NodeIds)
          /\ \A j, k \in DOMAIN nodes : nodes[j][2] = nodes[k][2] /\ nodes[j][3] = nodes[k][3] => j = k
      BY DEF McpInv
    <3> QED BY <3>1, IdentityOfNode DEF IdentityRoundTrip
  <2>5. ResourcesReadable
    BY ListedCanBeRead DEF ResourcesReadable
  <2> QED BY <2>1, <2>2, <2>3, <2>4, <2>5 DEF McpConforms
<1> QED BY <1>1, <1>2, <1>3, PTL DEF McpSpec

-----------------------------------------------------------------------------
(* The model                                                                *)

\* What the edges of a model are.
EdgesOK(edges, nodes) ==
    /\ nodes \subseteq Nat \ {0}
    /\ \A e \in edges : /\ e.from \in nodes /\ e.to \in nodes /\ e.priority \in {0, 1, 2, 99}
                        /\ e.name \in Names /\ e.ns \in Namespaces

\* A text of one part.
LEMMA OnePart ==
  ASSUME NEW T, NEW s \in T
  PROVE  <<s>> \in Seq(T) /\ <<s>> # <<>> /\ Len(<<s>>) = 1 /\ <<s>>[1] = s
OBVIOUS

\* What is in a sequence.
LEMMA InSequence ==
  ASSUME NEW T, NEW s \in Seq(T), NEW x \in ToSet(s)
  PROVE  x \in T
BY LenProperties, ElementOfSeq DEF ToSet

\* The names and the namespace the builder writes itself.
LEMMA OwnNames ==
  /\ <<"Organizes">> \in Names /\ <<"HasProperty">> \in Names /\ <<"OrganizedBy">> \in Names
  /\ I3xNamespace \in Namespaces /\ I3xNamespace # <<>>
<1>1. "i3x" \in Texts /\ "Organizes" \in Texts /\ "HasProperty" \in Texts /\ "OrganizedBy" \in Texts /\ "i3x" # "inverseOf"
  BY DEF Texts
<1>2. ASSUME NEW x \in Texts PROVE <<x>> \in Names /\ (x # "inverseOf" => <<x>> \in Namespaces) /\ <<x>> # <<>>
  BY DEF Names, Namespaces
<1> QED BY <1>1, <1>2 DEF I3xNamespace

\* The references of a node lead to nodes of the model.
LEMMA ReferencesOK ==
  ASSUME NEW m, IsBrowsed(m), NEW n \in ToSet(m.nodes), NEW r \in References(m, n)
  PROVE  r.to \in ToSet(m.nodes) /\ r.type.name \in Names /\ r.type.ns \in Namespaces
<1>1. CASE m.refs[n] = <<>>
  <2>1. PICK c \in ChildSources(m, n) :
          r = [to |-> c, type |-> IF m.class[c] = "Variable" THEN HasPropertyType ELSE OrganizesType]
    BY <1>1 DEF References
  <2>2. c \in ToSet(m.nodes)
    BY DEF ChildSources
  <2> QED BY <2>1, <2>2, OwnNames DEF OrganizesType, HasPropertyType
<1>2. CASE m.refs[n] # <<>>
  <2>1. r \in ToSet(m.refs[n]) /\ r.to \in ToSet(m.nodes)
    BY <1>2 DEF References
  <2>2. m.refs[n] \in Seq([to : Nat \ {0}, type : RefTypes])
    BY DEF IsBrowsed
  <2>4. r \in [to : Nat \ {0}, type : RefTypes]
    BY <2>1, <2>2, InSequence
  <2> QED BY <2>1, <2>4 DEF RefTypes
<1> QED BY <1>1, <1>2

\* An edge is a reference of a node of the model to another.
LEMMA EdgeOfReference ==
  ASSUME NEW m, NEW e \in Edges(m)
  PROVE  \E n \in ToSet(m.nodes) : \E r \in References(m, n) :
           /\ e.from = n /\ e.to = r.to /\ e.name = r.type.name /\ e.ns = r.type.ns
           /\ e.class = ReferenceClass(m, n, r) /\ e.priority = Priority(r)
<1>1. PICK x \in UNION {{n} \X References(m, n) : n \in ToSet(m.nodes)} :
        e = [from |-> x[1], to |-> x[2].to, name |-> x[2].type.name, ns |-> x[2].type.ns,
             class |-> ReferenceClass(m, x[1], x[2]), priority |-> Priority(x[2])]
  BY DEF Edges
<1>2. PICK n \in ToSet(m.nodes) : x \in {n} \X References(m, n)
  OBVIOUS
<1>3. x[1] = n /\ x[2] \in References(m, n)
  BY <1>2
<1>4. PICK r \in References(m, n) : r = x[2]
  BY <1>3
<1> WITNESS n \in ToSet(m.nodes)
<1> WITNESS r \in References(m, n)
<1> QED BY <1>1, <1>3, <1>4

\* The edges of a browsed model are as they must be.
LEMMA EdgesTyped ==
  ASSUME NEW m, IsBrowsed(m)
  PROVE  EdgesOK(Edges(m), ToSet(m.nodes))
<1>1. ToSet(m.nodes) \subseteq Nat \ {0}
  <2>1. m.nodes \in Seq(Nat \ {0})
    BY DEF IsBrowsed
  <2> QED BY <2>1, InSequence
<1>2. ASSUME NEW e \in Edges(m)
      PROVE  /\ e.from \in ToSet(m.nodes) /\ e.to \in ToSet(m.nodes) /\ e.priority \in {0, 1, 2, 99}
             /\ e.name \in Names /\ e.ns \in Namespaces
  <2>1. PICK n \in ToSet(m.nodes) : \E r \in References(m, n) :
          /\ e.from = n /\ e.to = r.to /\ e.name = r.type.name /\ e.ns = r.type.ns /\ e.priority = Priority(r)
    BY EdgeOfReference
  <2>a. PICK r \in References(m, n) :
          /\ e.from = n /\ e.to = r.to /\ e.name = r.type.name /\ e.ns = r.type.ns /\ e.priority = Priority(r)
    BY <2>1
  <2>2. r.to \in ToSet(m.nodes) /\ r.type.name \in Names /\ r.type.ns \in Namespaces
    BY ReferencesOK
  <2>4. Priority(r) \in {0, 1, 2, 99}
    BY DEF Priority
  <2> QED BY <2>a, <2>2, <2>4
<1> QED BY <1>1, <1>2 DEF EdgesOK

\* The candidates for a parent.
LEMMA CandidatesOK ==
  ASSUME NEW edges, NEW nodes, EdgesOK(edges, nodes), NEW c, NEW k
  PROVE  /\ \A d \in Candidates(edges, c, k) :
              /\ d.priority \in {0, 1, 2, 99} /\ d.parent \in nodes
              /\ d = [priority |-> d.priority, parent |-> d.parent]
              /\ \E e \in edges : e.to = c /\ e.class = k /\ e.from = d.parent
         /\ \A e \in edges : e.to = c /\ e.class = k =>
              [priority |-> e.priority, parent |-> e.from] \in Candidates(edges, c, k)
<1>1. ASSUME NEW d \in Candidates(edges, c, k)
      PROVE  /\ d.priority \in {0, 1, 2, 99} /\ d.parent \in nodes
             /\ d = [priority |-> d.priority, parent |-> d.parent]
             /\ \E e \in edges : e.to = c /\ e.class = k /\ e.from = d.parent
  <2>1. PICK e \in edges : e.to = c /\ e.class = k /\ d = [priority |-> e.priority, parent |-> e.from]
    BY DEF Candidates
  <2> QED BY <2>1 DEF EdgesOK
<1>2. ASSUME NEW e \in edges, e.to = c, e.class = k
      PROVE  [priority |-> e.priority, parent |-> e.from] \in Candidates(edges, c, k)
  BY <1>2 DEF Candidates
<1> QED BY <1>1, <1>2

\* One of several candidates is selected.
LEMMA SelectedIsOne ==
  ASSUME NEW edges, NEW nodes, EdgesOK(edges, nodes), NEW c, NEW k, Candidates(edges, c, k) # {}
  PROVE  Selected(Candidates(edges, c, k)) \in Candidates(edges, c, k)
<1> DEFINE C == Candidates(edges, c, k)
<1>1. \A d \in C : d.priority \in Nat /\ d.parent \in Nat
  BY CandidatesOK DEF EdgesOK
<1> HIDE DEF C
<1> DEFINE P == {d.priority : d \in C}
<1>2. P \in SUBSET Nat /\ P # {}
  BY <1>1 DEF C
<1>3. PICK p \in P : \A q \in P : p <= q
  <2> HIDE DEF P
  <2> QED BY <1>2, MinExists
<1> DEFINE Q == {d.parent : d \in {d \in C : d.priority = p}}
<1>4. Q \in SUBSET Nat /\ Q # {}
  BY <1>1, <1>3
<1>5. PICK q \in Q : \A x \in Q : q <= x
  <2> HIDE DEF Q
  <2> QED BY <1>4, MinExists
<1>6. PICK d \in C : d.priority = p /\ d.parent = q
  BY <1>5
<1>7. ASSUME NEW x \in C PROVE d.priority < x.priority \/ (d.priority = x.priority /\ d.parent <= x.parent)
  <2>1. CASE x.priority = p
    <3>1. x.parent \in Q
      BY <2>1
    <3> QED BY <1>5, <1>6, <2>1, <3>1
  <2>2. CASE x.priority # p
    <3>1. x.priority \in P /\ x.priority \in Nat /\ p \in Nat
      BY <1>1, <1>6
    <3>2. p <= x.priority
      BY <1>3, <3>1
    <3> HIDE DEF P
    <3> QED BY <1>6, <2>2, <3>1, <3>2
  <2> QED BY <2>1, <2>2
<1>8. \E y \in C : \A x \in C : y.priority < x.priority \/ (y.priority = x.priority /\ y.parent <= x.parent)
  BY <1>7
<1>9. Selected(C) \in C
  BY <1>8 DEF Selected
<1> QED BY <1>9 DEF C

\* A node has a parent in a plane when something refers to it there, and it is one of them.
LEMMA ParentSelected ==
  ASSUME NEW edges, NEW nodes, EdgesOK(edges, nodes), NEW c, NEW k
  PROVE  LET p == SelectedParent(edges, c, k) IN
         /\ p # 0 => p \in nodes /\ \E e \in edges : e.to = c /\ e.class = k /\ e.from = p
         /\ (\E e \in edges : e.to = c /\ e.class = k) => p # 0
         /\ p \in Nat
<1> DEFINE p == SelectedParent(edges, c, k)
           C == Candidates(edges, c, k)
<1>1. CASE C = {}
  <2>1. p = 0
    BY <1>1 DEF SelectedParent
  <2>2. ~ \E e \in edges : e.to = c /\ e.class = k
    <3>1. \A e \in edges : e.to = c /\ e.class = k => [priority |-> e.priority, parent |-> e.from] \in C
      BY CandidatesOK
    <3> QED BY <1>1, <3>1
  <2> QED BY <2>1, <2>2
<1>2. CASE C # {}
  <2>1. p = Selected(C).parent
    BY <1>2 DEF SelectedParent
  <2>2. Selected(C) \in C
    BY <1>2, SelectedIsOne
  <2>3. p \in nodes /\ \E e \in edges : e.to = c /\ e.class = k /\ e.from = p
    <3> HIDE DEF p, C
    <3>1. \A d \in C : d.parent \in nodes /\ \E e \in edges : e.to = c /\ e.class = k /\ e.from = d.parent
      BY CandidatesOK DEF C
    <3> QED BY <2>1, <2>2, <3>1
  <2>4. p \in Nat /\ p # 0
    BY <2>3 DEF EdgesOK
  <2> QED BY <2>3, <2>4
<1> QED BY <1>1, <1>2

\* What the entries of the graph are.
EntriesOK(entries) ==
    \A e \in entries : e = [from |-> e.from, name |-> e.name, ns |-> e.ns, to |-> e.to] /\ e.name \in Names /\ e.ns \in Namespaces

\* An entry is a reference that is not of hierarchy or composition, or a parent not selected.
LEMMA EntryOfEdge ==
  ASSUME NEW edges, NEW nodes, EdgesOK(edges, nodes), NEW g
  PROVE  g \in GraphEntries(edges, nodes) <=>
           \/ \E e \in edges : /\ e.class \notin {"hierarchy", "composition"}
                               /\ g = [from |-> e.from, name |-> e.name, ns |-> e.ns, to |-> e.to]
           \/ \E c \in nodes : LET C == Candidates(edges, c, "hierarchy") IN
                /\ C # {}
                /\ \E d \in C \ {Selected(C)} : g = [from |-> c, name |-> <<"OrganizedBy">>, ns |-> I3xNamespace, to |-> d.parent]
BY DEF GraphEntries, OrganizedBy

\* The entries of a browsed model are as they must be.
LEMMA EntriesTyped ==
  ASSUME NEW edges, NEW nodes, EdgesOK(edges, nodes)
  PROVE  EntriesOK(GraphEntries(edges, nodes))
<1> SUFFICES ASSUME NEW g \in GraphEntries(edges, nodes)
             PROVE  g = [from |-> g.from, name |-> g.name, ns |-> g.ns, to |-> g.to] /\ g.name \in Names /\ g.ns \in Namespaces
  BY DEF EntriesOK
<1>1. CASE \E e \in edges : g = [from |-> e.from, name |-> e.name, ns |-> e.ns, to |-> e.to]
  BY <1>1 DEF EdgesOK
<1>2. CASE \E a, d : g = [from |-> a, name |-> <<"OrganizedBy">>, ns |-> I3xNamespace, to |-> d]
  BY <1>2, OwnNames
<1> QED BY <1>1, <1>2, EntryOfEdge

\* The ids of relations of the address space are none of the model's own relations, and
\* none of them is the inverse of a relation.
LEMMA GraphIds ==
  ASSUME NEW entries, EntriesOK(entries), NEW e \in entries, e.ns # <<>>
  PROVE  LET id == RelationshipId(entries, e.name, e.ns) IN
         id \in Seq(Texts) /\ id # <<>> /\ id \notin Reserved /\ id[1] # "inverseOf"
<1> DEFINE id == RelationshipId(entries, e.name, e.ns)
<1>1. e.name \in Seq(Texts) /\ e.name # <<>> /\ e.ns \in Seq(Texts) /\ e.ns[1] # "inverseOf"
  BY DEF EntriesOK, Names, Namespaces
<1>2. CASE Qualified(entries, e.name)
  <2>1. id = e.ns \o e.name
    BY <1>2 DEF RelationshipId
  <2>2. Len(e.ns) > 0 /\ Len(e.name) > 0 /\ Len(e.ns) \in Nat /\ Len(e.name) \in Nat
    BY <1>1, EmptySeq
  <2>3. id \in Seq(Texts) /\ Len(id) > 1 /\ id[1] = e.ns[1]
    <3>1. ASSUME NEW s \in Seq(Texts), NEW t \in Seq(Texts), Len(s) > 0, Len(t) > 0
          PROVE  s \o t \in Seq(Texts) /\ Len(s \o t) > 1 /\ (s \o t)[1] = s[1]
      BY <3>1, ConcatProperties
    <3> QED BY <1>1, <2>1, <2>2, <3>1
  <2> HIDE DEF id
  <2>4. id # <<>> /\ id \notin Reserved
    <3>1. ASSUME id \in Reserved PROVE Len(id) = 1
      BY <3>1 DEF Reserved
    <3>2. Len(<<>>) = 0
      OBVIOUS
    <3>3. ~(1 > 1) /\ ~(0 > 1)
      OBVIOUS
    <3> QED BY <2>3, <3>1, <3>2, <3>3
  <2> QED BY <1>1, <2>3, <2>4 DEF id
<1>3. CASE ~Qualified(entries, e.name)
  BY <1>1, <1>3 DEF RelationshipId, Qualified
<1> QED BY <1>2, <1>3

\* The inverse of an id begins as no id does, and leads back to it.
LEMMA InverseIds ==
  ASSUME NEW id \in Seq(Texts)
  PROVE  InverseOf(id)[1] = "inverseOf" /\ Tail(InverseOf(id)) = id /\ InverseOf(id) \notin Reserved
<1> DEFINE s == <<"inverseOf">> \o id
<1>1. <<"inverseOf">> \in Seq(Texts) /\ Len(<<"inverseOf">>) = 1 /\ <<"inverseOf">>[1] = "inverseOf" /\ Len(id) \in Nat
  <2>1. "inverseOf" \in Texts
    BY DEF Texts
  <2> QED BY <2>1, LenProperties
<1>2. s \in Seq(Texts) /\ Len(s) = 1 + Len(id) /\ s[1] = "inverseOf" /\ \A i \in 1 .. Len(id) : s[i + 1] = id[i]
  <2>1. s \in Seq(Texts) /\ Len(s) = 1 + Len(id) /\ \A i \in 1 .. 1 + Len(id) : s[i] = IF i <= 1 THEN <<"inverseOf">>[i] ELSE id[i - 1]
    BY <1>1, ConcatProperties
  <2> HIDE DEF s
  <2> QED BY <1>1, <2>1
<1> HIDE DEF s
<1>3. s # <<>>
  BY <1>1, <1>2, EmptySeq
<1>4. Tail(s) \in Seq(Texts) /\ Len(Tail(s)) = Len(id) /\ \A i \in 1 .. Len(id) : Tail(s)[i] = id[i]
  BY <1>1, <1>2, <1>3, HeadTailProperties
<1>5. Tail(s) = id
  BY <1>4, SeqEqual
<1>6. s \notin Reserved
  BY <1>2 DEF Reserved
<1> QED BY <1>2, <1>5, <1>6 DEF InverseOf, s

\* The relations of a model: those of the two planes, those of the graph, and their inverses.
Plane(nodes, f, down, up, t) == \E c \in nodes : f[c] # 0 /\ (t = <<f[c], down, c>> \/ t = <<c, up, f[c]>>)
OfGraph(entries, t) == \E e \in entries : t = <<e.from, RelationshipId(entries, e.name, e.ns), e.to>>
OfInverse(entries, t) == \E e \in entries : t = <<e.to, InverseOf(RelationshipId(entries, e.name, e.ns)), e.from>>

\* There are no others.
LEMMA RelationKinds ==
  ASSUME NEW nodes, NEW hier, NEW comp, NEW entries, NEW t
  PROVE  t \in Relations(nodes, hier, comp, entries) <=>
           \/ Plane(nodes, hier, <<"HasChildren">>, <<"HasParent">>, t)
           \/ Plane(nodes, comp, <<"HasComponent">>, <<"ComponentOf">>, t)
           \/ OfGraph(entries, t) \/ OfInverse(entries, t)
<1> DEFINE both(f, down, up) == UNION {{<<f[c], down, c>>, <<c, up, f[c]>>} : c \in {n \in nodes : f[n] # 0}}
           graph == {<<e.from, RelationshipId(entries, e.name, e.ns), e.to>> : e \in entries}
           back == {<<g[3], InverseOf(g[2]), g[1]>> : g \in graph}
<1>1. Relations(nodes, hier, comp, entries) =
        both(hier, <<"HasChildren">>, <<"HasParent">>) \cup both(comp, <<"HasComponent">>, <<"ComponentOf">>) \cup graph \cup back
  BY DEF Relations
<1>2. ASSUME NEW f, NEW down, NEW up PROVE t \in both(f, down, up) <=> Plane(nodes, f, down, up, t)
  BY DEF Plane
<1>3. t \in graph <=> OfGraph(entries, t)
  BY DEF OfGraph
<1>4. t \in back <=> OfInverse(entries, t)
  <2>1. t \in back <=> \E g \in graph : t = <<g[3], InverseOf(g[2]), g[1]>>
    OBVIOUS
  <2>2. ASSUME NEW e \in entries, NEW g, g = <<e.from, RelationshipId(entries, e.name, e.ns), e.to>>
        PROVE  <<g[3], InverseOf(g[2]), g[1]>> = <<e.to, InverseOf(RelationshipId(entries, e.name, e.ns)), e.from>>
    BY <2>2
  <2>3. ASSUME t \in back PROVE OfInverse(entries, t)
    <3>1. PICK g \in graph : t = <<g[3], InverseOf(g[2]), g[1]>>
      BY <2>1, <2>3
    <3>2. PICK e \in entries : g = <<e.from, RelationshipId(entries, e.name, e.ns), e.to>>
      BY <3>1
    <3> QED BY <2>2, <3>1, <3>2 DEF OfInverse
  <2>4. ASSUME OfInverse(entries, t) PROVE t \in back
    <3>1. PICK e \in entries : t = <<e.to, InverseOf(RelationshipId(entries, e.name, e.ns)), e.from>>
      BY <2>4 DEF OfInverse
    <3>2. PICK g \in graph : g = <<e.from, RelationshipId(entries, e.name, e.ns), e.to>>
      OBVIOUS
    <3>3. t = <<g[3], InverseOf(g[2]), g[1]>>
      BY <2>2, <3>1, <3>2
    <3> QED BY <2>1, <3>3
  <2> QED BY <2>3, <2>4
<1> HIDE DEF both, graph, back
<1> QED BY <1>1, <1>2, <1>3, <1>4

\* A relation is a triple.
LEMMA RelationTriple ==
  ASSUME NEW nodes, NEW hier, NEW comp, NEW entries, NEW t \in Relations(nodes, hier, comp, entries)
  PROVE  t = <<t[1], t[2], t[3]>>
BY RelationKinds DEF Plane, OfGraph, OfInverse

\* The relations with the id of an entry are the entries with its name and namespace.
LEMMA GraphRelations ==
  ASSUME NEW nodes, NEW hier, NEW comp, NEW entries, EntriesOK(entries), Nameable(entries), NEW e \in entries, NEW a, NEW c
  PROVE  <<a, RelationshipId(entries, e.name, e.ns), c>> \in Relations(nodes, hier, comp, entries)
           <=> \E g \in entries : g.from = a /\ g.to = c /\ g.name = e.name /\ g.ns = e.ns
<1> DEFINE id == RelationshipId(entries, e.name, e.ns)
           t == <<a, id, c>>
<1>1. \A g \in entries : g.ns # <<>>
  BY DEF Nameable
<1>2. id \in Seq(Texts) /\ id \notin Reserved /\ id[1] # "inverseOf"
  BY <1>1, GraphIds
<1>3. ~Plane(nodes, hier, <<"HasChildren">>, <<"HasParent">>, t) /\ ~Plane(nodes, comp, <<"HasComponent">>, <<"ComponentOf">>, t)
  <2> HIDE DEF id
  <2> QED BY <1>2 DEF Plane, Reserved
<1>4. ~OfInverse(entries, t)
  <2>1. ASSUME NEW g \in entries PROVE InverseOf(RelationshipId(entries, g.name, g.ns)) # id
    BY <1>1, <1>2, GraphIds, InverseIds
  <2> HIDE DEF id
  <2> QED BY <2>1 DEF OfInverse
<1>5. ASSUME OfGraph(entries, t) PROVE \E g \in entries : g.from = a /\ g.to = c /\ g.name = e.name /\ g.ns = e.ns
  <2>1. PICK g \in entries : t = <<g.from, RelationshipId(entries, g.name, g.ns), g.to>>
    BY <1>5 DEF OfGraph
  <2>2. g.from = a /\ g.to = c /\ RelationshipId(entries, g.name, g.ns) = id
    <3> HIDE DEF id
    <3> QED BY <2>1
  <2>3. g.name = e.name /\ g.ns = e.ns
    BY <2>2 DEF Nameable
  <2> QED BY <2>2, <2>3
<1>6. ASSUME NEW g \in entries, g.from = a, g.to = c, g.name = e.name, g.ns = e.ns PROVE OfGraph(entries, t)
  BY <1>6 DEF OfGraph
<1> QED BY <1>3, <1>4, <1>5, <1>6, RelationKinds

\* Whatever leads somewhere leads back.
LEMMA RelationsReturn ==
  ASSUME NEW nodes, NEW hier, NEW comp, NEW entries, EntriesOK(entries), \A e \in entries : e.ns # <<>>,
         NEW t \in Relations(nodes, hier, comp, entries)
  PROVE  <<t[3], Opposite(t[2]), t[1]>> \in Relations(nodes, hier, comp, entries)
<1> DEFINE R == Relations(nodes, hier, comp, entries)
           HC == <<"HasChildren">>
           HP == <<"HasParent">>
           HO == <<"HasComponent">>
           CO == <<"ComponentOf">>
<1>1. Opposite(HC) = HP /\ Opposite(HP) = HC /\ Opposite(HO) = CO /\ Opposite(CO) = HO
  BY DEF Opposite
<1>2. ASSUME NEW f, NEW down, NEW up, Plane(nodes, f, down, up, t), Opposite(down) = up, Opposite(up) = down
      PROVE  Plane(nodes, f, down, up, <<t[3], Opposite(t[2]), t[1]>>)
  <2>1. PICK c \in nodes : f[c] # 0 /\ (t = <<f[c], down, c>> \/ t = <<c, up, f[c]>>)
    BY <1>2 DEF Plane
  <2>2. <<t[3], Opposite(t[2]), t[1]>> \in {<<f[c], down, c>>, <<c, up, f[c]>>}
    BY <1>2, <2>1
  <2> QED BY <2>1, <2>2 DEF Plane
<1>3. ASSUME NEW e \in entries
      PROVE  LET id == RelationshipId(entries, e.name, e.ns) IN
             Opposite(id) = InverseOf(id) /\ Opposite(InverseOf(id)) = id
  <2> DEFINE id == RelationshipId(entries, e.name, e.ns)
  <2>1. id \in Seq(Texts) /\ id \notin Reserved /\ id[1] # "inverseOf"
    BY GraphIds
  <2>2. InverseOf(id)[1] = "inverseOf" /\ Tail(InverseOf(id)) = id /\ InverseOf(id) \notin Reserved
    BY <2>1, InverseIds
  <2> HIDE DEF id
  <2>3. ASSUME NEW j, j \notin Reserved, j[1] # "inverseOf" PROVE Opposite(j) = InverseOf(j)
    BY <2>3 DEF Opposite, Reserved
  <2>4. ASSUME NEW j, j \notin Reserved, j[1] = "inverseOf" PROVE Opposite(j) = Tail(j)
    BY <2>4 DEF Opposite, Reserved
  <2> QED BY <2>1, <2>2, <2>3, <2>4 DEF id
<1>4. CASE Plane(nodes, hier, HC, HP, t)
  <2>1. Plane(nodes, hier, HC, HP, <<t[3], Opposite(t[2]), t[1]>>)
    BY <1>1, <1>2, <1>4
  <2> QED BY <2>1, RelationKinds
<1>5. CASE Plane(nodes, comp, HO, CO, t)
  <2>1. Plane(nodes, comp, HO, CO, <<t[3], Opposite(t[2]), t[1]>>)
    BY <1>1, <1>2, <1>5
  <2> QED BY <2>1, RelationKinds
<1>6. CASE OfGraph(entries, t)
  <2>1. PICK e \in entries : t = <<e.from, RelationshipId(entries, e.name, e.ns), e.to>>
    BY <1>6 DEF OfGraph
  <2>2. OfInverse(entries, <<t[3], Opposite(t[2]), t[1]>>)
    BY <1>3, <2>1 DEF OfInverse
  <2> QED BY <2>2, RelationKinds
<1>7. CASE OfInverse(entries, t)
  <2>1. PICK e \in entries : t = <<e.to, InverseOf(RelationshipId(entries, e.name, e.ns)), e.from>>
    BY <1>7 DEF OfInverse
  <2>2. OfGraph(entries, <<t[3], Opposite(t[2]), t[1]>>)
    BY <1>3, <2>1 DEF OfGraph
  <2> QED BY <2>2, RelationKinds
<1> QED BY <1>4, <1>5, <1>6, <1>7, RelationKinds

\* Entries of which each has a name and a namespace.
Named(entries) == EntriesOK(entries) /\ \A e \in entries : e.ns # <<>>

\* The relations R from a to c with the id of one of the model's own are those of its plane.
OwnOnly(R, nodes, hier, comp, a, c) ==
    /\ <<a, <<"HasParent">>, c>> \in R <=> a \in nodes /\ hier[a] # 0 /\ c = hier[a]
    /\ <<a, <<"ComponentOf">>, c>> \in R <=> a \in nodes /\ comp[a] # 0 /\ c = comp[a]
    /\ <<a, <<"HasChildren">>, c>> \in R <=> c \in nodes /\ hier[c] # 0 /\ a = hier[c]
    /\ <<a, <<"HasComponent">>, c>> \in R <=> c \in nodes /\ comp[c] # 0 /\ a = comp[c]

\* They are.
LEMMA OwnRelations ==
  ASSUME NEW nodes, NEW hier, NEW comp, NEW entries, Named(entries), NEW a, NEW c, NEW R, R = Relations(nodes, hier, comp, entries)
  PROVE  OwnOnly(R, nodes, hier, comp, a, c)
<1>1. ASSUME NEW id \in Reserved PROVE ~OfGraph(entries, <<a, id, c>>) /\ ~OfInverse(entries, <<a, id, c>>)
  <2>1. ASSUME NEW e \in entries
        PROVE  RelationshipId(entries, e.name, e.ns) # id /\ InverseOf(RelationshipId(entries, e.name, e.ns)) # id
    BY GraphIds, InverseIds DEF Named
  <2>2. ASSUME OfGraph(entries, <<a, id, c>>) PROVE FALSE
    BY <2>1, <2>2 DEF OfGraph
  <2>3. ASSUME OfInverse(entries, <<a, id, c>>) PROVE FALSE
    BY <2>1, <2>3 DEF OfInverse
  <2> QED BY <2>2, <2>3
<1>2. ASSUME NEW id \in Reserved
      PROVE <<a, id, c>> \in R <=> \/ Plane(nodes, hier, <<"HasChildren">>, <<"HasParent">>, <<a, id, c>>)
                                   \/ Plane(nodes, comp, <<"HasComponent">>, <<"ComponentOf">>, <<a, id, c>>)
  BY <1>1, RelationKinds
<1>3. <<"HasParent">> \in Reserved /\ <<"ComponentOf">> \in Reserved /\ <<"HasChildren">> \in Reserved /\ <<"HasComponent">> \in Reserved
  BY DEF Reserved
<1>4. ASSUME NEW f, NEW down, NEW up, down # up
      PROVE  /\ Plane(nodes, f, down, up, <<a, down, c>>) <=> c \in nodes /\ f[c] # 0 /\ a = f[c]
             /\ Plane(nodes, f, down, up, <<a, up, c>>) <=> a \in nodes /\ f[a] # 0 /\ c = f[a]
             /\ \A id : id \notin {down, up} => ~Plane(nodes, f, down, up, <<a, id, c>>)
  BY <1>4 DEF Plane
<1>5. /\ <<"HasParent">> # <<"ComponentOf">> /\ <<"HasParent">> # <<"HasChildren">> /\ <<"HasParent">> # <<"HasComponent">>
      /\ <<"HasChildren">> # <<"ComponentOf">> /\ <<"HasChildren">> # <<"HasComponent">> /\ <<"HasComponent">> # <<"ComponentOf">>
  OBVIOUS
<1> QED BY <1>2, <1>3, <1>4, <1>5 DEF OwnOnly

\* What a built model is: all that the properties of the model need to know.
IsModel(b) ==
    LET nodes == ToSet(b.nodes) IN
    /\ EdgesOK(b.edges, nodes) /\ EntriesOK(b.entries)
    /\ b.entries = GraphEntries(b.edges, nodes)
    /\ b.ok <=> Nameable(b.entries)
    /\ \A n \in nodes :
         /\ b.hierarchy[n] = SelectedParent(b.edges, n, "hierarchy")
         /\ b.composition[n] = SelectedParent(b.edges, n, "composition")
         /\ b.parent[n] = IF b.hierarchy[n] # 0 THEN b.hierarchy[n] ELSE b.composition[n]
    /\ b.roots = {n \in nodes : b.hierarchy[n] = 0 /\ b.composition[n] = 0}
    /\ b.relations = Relations(nodes, b.hierarchy, b.composition, b.entries)

\* The model built of browsed nodes is one.
LEMMA BuildIsModel ==
  ASSUME NEW m, IsBrowsed(m), NEW b, b = Build(m)
  PROVE  IsModel(b) /\ b.nodes = m.nodes /\ b.edges = Edges(m)
<1> PICK nodes, edges : nodes = ToSet(m.nodes) /\ edges = Edges(m)
  OBVIOUS
<1> PICK entries : entries = GraphEntries(edges, nodes)
  OBVIOUS
<1>1. /\ b.ok <=> Nameable(entries)
      /\ b.nodes = m.nodes /\ b.edges = edges /\ b.entries = entries
      /\ b.hierarchy = [n \in nodes |-> SelectedParent(edges, n, "hierarchy")]
      /\ b.composition = [n \in nodes |-> SelectedParent(edges, n, "composition")]
      /\ b.parent = [n \in nodes |-> IF b.hierarchy[n] # 0 THEN b.hierarchy[n] ELSE b.composition[n]]
      /\ b.roots = {n \in nodes : b.hierarchy[n] = 0 /\ b.composition[n] = 0}
      /\ b.relations = Relations(nodes, b.hierarchy, b.composition, entries)
  BY DEF Build
<1>2. EdgesOK(edges, nodes) 
  BY EdgesTyped
<1>3. EntriesOK(entries)
  BY <1>2, EntriesTyped
<1> QED BY <1>1, <1>2, <1>3 DEF IsModel

\* A node's parent in a plane refers to it there; it has none when nothing does.
LEMMA ParentRefers ==
  ASSUME NEW b, IsModel(b), NEW n \in ToSet(b.nodes)
  PROVE  /\ b.hierarchy[n] # 0 => b.hierarchy[n] \in ToSet(b.nodes) /\ \E e \in b.edges : e.to = n /\ e.class = "hierarchy" /\ e.from = b.hierarchy[n]
         /\ b.composition[n] # 0 => b.composition[n] \in ToSet(b.nodes) /\ \E e \in b.edges : e.to = n /\ e.class = "composition" /\ e.from = b.composition[n]
         /\ (\E e \in b.edges : e.to = n /\ e.class = "hierarchy") => b.hierarchy[n] # 0
         /\ (\E e \in b.edges : e.to = n /\ e.class = "composition") => b.composition[n] # 0
         /\ b.hierarchy[n] \in Nat /\ b.composition[n] \in Nat
<1>1. /\ EdgesOK(b.edges, ToSet(b.nodes))
      /\ b.hierarchy[n] = SelectedParent(b.edges, n, "hierarchy")
      /\ b.composition[n] = SelectedParent(b.edges, n, "composition")
  BY DEF IsModel
<1> QED BY <1>1, ParentSelected

\* Every relation has its inverse, and none is mixed up with another.
LEMMA ModelInverse ==
  ASSUME NEW b, IsModel(b), b.ok
  PROVE  /\ \A t \in b.relations : <<t[3], Opposite(t[2]), t[1]>> \in b.relations
         /\ \A n \in ToSet(b.nodes) : /\ Targets(b, n, <<"HasParent">>) = {b.hierarchy[n]} \ {0}
                                      /\ Targets(b, n, <<"ComponentOf">>) = {b.composition[n]} \ {0}
         /\ \A e \in b.entries : e.ns # I3xNamespace =>
              OfType(b, e.name, e.ns) = Along(b, RelationshipId(b.entries, e.name, e.ns))
<1> DEFINE nodes == ToSet(b.nodes)
<1>1. /\ EntriesOK(b.entries) /\ Nameable(b.entries)
      /\ b.relations = Relations(nodes, b.hierarchy, b.composition, b.entries)
  BY DEF IsModel
<1>2. (\A e \in b.entries : e.ns # <<>>) /\ Named(b.entries)
  BY <1>1 DEF Nameable, Named
<1>3. ASSUME NEW t \in b.relations PROVE <<t[3], Opposite(t[2]), t[1]>> \in b.relations
  BY <1>1, <1>2, RelationsReturn
<1>4. ASSUME NEW n \in nodes
      PROVE  /\ Targets(b, n, <<"HasParent">>) = {b.hierarchy[n]} \ {0}
             /\ Targets(b, n, <<"ComponentOf">>) = {b.composition[n]} \ {0}
  <2>1. ASSUME NEW c
        PROVE  /\ <<n, <<"HasParent">>, c>> \in b.relations <=> b.hierarchy[n] # 0 /\ c = b.hierarchy[n]
               /\ <<n, <<"ComponentOf">>, c>> \in b.relations <=> b.composition[n] # 0 /\ c = b.composition[n]
    <3>1. OwnOnly(b.relations, nodes, b.hierarchy, b.composition, n, c)
      BY <1>1, <1>2, OwnRelations
    <3> QED BY <3>1 DEF OwnOnly
  <2>2. ASSUME NEW id, NEW c PROVE c \in Targets(b, n, id) <=> <<n, id, c>> \in b.relations
    <3>1. ASSUME c \in Targets(b, n, id) PROVE <<n, id, c>> \in b.relations
      <4>1. PICK t \in b.relations : t[1] = n /\ t[2] = id /\ t[3] = c
        BY <3>1 DEF Targets
      <4>2. t = <<t[1], t[2], t[3]>>
        BY <1>1, RelationTriple
      <4> QED BY <4>1, <4>2
    <3>2. ASSUME <<n, id, c>> \in b.relations PROVE c \in Targets(b, n, id)
      <4>1. <<n, id, c>>[1] = n /\ <<n, id, c>>[2] = id /\ <<n, id, c>>[3] = c
        OBVIOUS
      <4> QED BY <3>2, <4>1 DEF Targets
    <3> QED BY <3>1, <3>2
  <2> QED BY <2>1, <2>2
<1>5. ASSUME NEW e \in b.entries, e.ns # I3xNamespace
      PROVE  OfType(b, e.name, e.ns) = Along(b, RelationshipId(b.entries, e.name, e.ns))
  <2> DEFINE id == RelationshipId(b.entries, e.name, e.ns)
  <2>1. EdgesOK(b.edges, nodes) /\ b.entries = GraphEntries(b.edges, nodes)
    BY DEF IsModel
  <2>2. ASSUME NEW a, NEW c
        PROVE  <<a, id, c>> \in b.relations <=> \E g \in b.entries : g.from = a /\ g.to = c /\ g.name = e.name /\ g.ns = e.ns
    BY <1>1, GraphRelations
  <2> HIDE DEF id
  <2>3. ASSUME NEW x \in OfType(b, e.name, e.ns) PROVE x \in Along(b, id)
    <3>1. PICK f \in b.edges : f.name = e.name /\ f.ns = e.ns /\ f.class \notin {"hierarchy", "composition"} /\ x = <<f.from, f.to>>
      BY DEF OfType
    <3>2. PICK g : g = [from |-> f.from, name |-> f.name, ns |-> f.ns, to |-> f.to]
      OBVIOUS
    <3>3. g \in b.entries
      BY <2>1, <3>1, <3>2, EntryOfEdge
    <3>4. <<f.from, id, f.to>> \in b.relations
      BY <2>2, <3>1, <3>2, <3>3
    <3>5. PICK t \in b.relations : t = <<f.from, id, f.to>>
      BY <3>4
    <3> QED BY <3>1, <3>5 DEF Along
  <2>4. ASSUME NEW x \in Along(b, id) PROVE x \in OfType(b, e.name, e.ns)
    <3>1. PICK t \in b.relations : t[2] = id /\ x = <<t[1], t[3]>>
      BY DEF Along
    <3>2. t = <<t[1], t[2], t[3]>>
      BY <1>1, RelationTriple
    <3>3. PICK g \in b.entries : g.from = t[1] /\ g.to = t[3] /\ g.name = e.name /\ g.ns = e.ns
      BY <2>2, <3>1, <3>2
    <3>4. PICK f \in b.edges : f.class \notin {"hierarchy", "composition"} /\ g = [from |-> f.from, name |-> f.name, ns |-> f.ns, to |-> f.to]
      <4>1. ASSUME NEW y, NEW z, g = [from |-> y, name |-> <<"OrganizedBy">>, ns |-> I3xNamespace, to |-> z] PROVE FALSE
        BY <1>5, <3>3, <4>1
      <4> QED BY <2>1, <4>1, EntryOfEdge
    <3>5. f.name = e.name /\ f.ns = e.ns /\ x = <<f.from, f.to>>
      BY <3>1, <3>3, <3>4
    <3> QED BY <3>4, <3>5 DEF OfType
  <2> QED BY <2>3, <2>4 DEF id
<1> QED BY <1>3, <1>4, <1>5

\* Each reference is where NoReferenceLost says.
LEMMA ModelComplete ==
  ASSUME NEW b, IsModel(b), b.ok, NEW e \in b.edges
  PROVE  /\ e.class = "hierarchy" =>
              \/ b.hierarchy[e.to] = e.from
              \/ <<e.to, RelationshipId(b.entries, <<"OrganizedBy">>, I3xNamespace), e.from>> \in b.relations
         /\ e.class = "composition" => b.composition[e.to] # 0
         /\ e.class \notin {"hierarchy", "composition"} =>
              <<e.from, RelationshipId(b.entries, e.name, e.ns), e.to>> \in b.relations
<1> DEFINE nodes == ToSet(b.nodes)
<1>1. /\ EdgesOK(b.edges, nodes) /\ b.entries = GraphEntries(b.edges, nodes)
      /\ b.relations = Relations(nodes, b.hierarchy, b.composition, b.entries)
  BY DEF IsModel
<1>2. e.from \in nodes /\ e.to \in nodes
  BY <1>1 DEF EdgesOK
<1>3. ASSUME NEW g \in b.entries PROVE <<g.from, RelationshipId(b.entries, g.name, g.ns), g.to>> \in b.relations
  BY <1>1, RelationKinds DEF OfGraph
<1>4. ASSUME e.class = "hierarchy", b.hierarchy[e.to] # e.from
      PROVE  <<e.to, RelationshipId(b.entries, <<"OrganizedBy">>, I3xNamespace), e.from>> \in b.relations
  <2> DEFINE C == Candidates(b.edges, e.to, "hierarchy")
             d == [priority |-> e.priority, parent |-> e.from]
             g == [from |-> e.to, name |-> <<"OrganizedBy">>, ns |-> I3xNamespace, to |-> d.parent]
  <2>1. d \in C /\ d.parent = e.from
    BY <1>1, <1>4, CandidatesOK
  <2>2. b.hierarchy[e.to] = Selected(C).parent
    <3>1. b.hierarchy[e.to] = SelectedParent(b.edges, e.to, "hierarchy") /\ C # {}
      BY <1>2, <2>1 DEF IsModel
    <3> QED BY <3>1 DEF SelectedParent
  <2>3. d \in C \ {Selected(C)}
    BY <1>4, <2>1, <2>2
  <2> HIDE DEF d
  <2>4. g \in b.entries
    BY <1>1, <1>2, <2>1, <2>3, EntryOfEdge
  <2>5. g.from = e.to /\ g.name = <<"OrganizedBy">> /\ g.ns = I3xNamespace /\ g.to = e.from
    BY <2>1
  <2> HIDE DEF g
  <2> QED BY <1>3, <2>4, <2>5
<1>5. ASSUME e.class = "composition" PROVE b.composition[e.to] # 0
  BY <1>2, <1>5, ParentRefers
<1>6. ASSUME e.class \notin {"hierarchy", "composition"}
      PROVE  <<e.from, RelationshipId(b.entries, e.name, e.ns), e.to>> \in b.relations
  <2>1. PICK g : g = [from |-> e.from, name |-> e.name, ns |-> e.ns, to |-> e.to]
    OBVIOUS
  <2>2. g \in b.entries
    BY <1>1, <1>6, <2>1, EntryOfEdge
  <2> QED BY <1>3, <2>1, <2>2
<1> QED BY <1>4, <1>5, <1>6

\* The nodes below another.
LEMMA BelowRefers ==
  ASSUME NEW b, NEW n, NEW c
  PROVE  c \in Below(b, n) <=> \E e \in b.edges : e.from = n /\ e.to = c /\ e.class \in {"hierarchy", "composition"}
BY DEF Below

\* The roots are what nothing refers to, and the parents lead to them.
LEMMA ModelForest ==
  ASSUME NEW b, IsModel(b)
  PROVE  LET nodes == ToSet(b.nodes)
             upward(S) == \A n \in S : b.parent[n] # 0 => b.parent[n] \in S
         IN  /\ b.roots = nodes \ UNION {Below(b, n) : n \in nodes}
             /\ NoCycle(b) => \A S \in SUBSET nodes : S # {} /\ upward(S) => S \cap b.roots # {}
<1> DEFINE nodes == ToSet(b.nodes)
<1>1. b.roots = {n \in nodes : b.hierarchy[n] = 0 /\ b.composition[n] = 0} /\ EdgesOK(b.edges, nodes)
  BY DEF IsModel
<1>2. ASSUME NEW c \in nodes PROVE c \in b.roots <=> c \notin UNION {Below(b, n) : n \in nodes}
  <2>1. ASSUME NEW n \in nodes, c \in Below(b, n) PROVE c \notin b.roots
    <3>1. PICK e \in b.edges : e.from = n /\ e.to = c /\ e.class \in {"hierarchy", "composition"}
      BY <2>1, BelowRefers
    <3> QED BY <1>1, <3>1, ParentRefers
  <2>2. ASSUME c \notin b.roots PROVE \E n \in nodes : c \in Below(b, n)
    <3>1. PICK e \in b.edges : e.to = c /\ e.class \in {"hierarchy", "composition"}
      BY <1>1, <2>2, ParentRefers
    <3>2. e.from \in nodes
      BY <1>1 DEF EdgesOK
    <3> QED BY <3>1, <3>2, BelowRefers
  <2> QED BY <2>1, <2>2
<1>3. b.roots = nodes \ UNION {Below(b, n) : n \in nodes}
  BY <1>1, <1>2
<1>4. ASSUME NoCycle(b), NEW S \in SUBSET nodes, S # {}, \A n \in S : b.parent[n] # 0 => b.parent[n] \in S
      PROVE  S \cap b.roots # {}
  <2>1. PICK n \in S : \A p \in S : n \notin Below(b, p)
    BY <1>4 DEF NoCycle
  <2>2. n \in nodes /\ b.parent[n] = IF b.hierarchy[n] # 0 THEN b.hierarchy[n] ELSE b.composition[n]
    BY DEF IsModel
  <2>3. ASSUME b.parent[n] # 0 PROVE n \in Below(b, b.parent[n])
    <3>1. \E e \in b.edges : e.from = b.parent[n] /\ e.to = n /\ e.class \in {"hierarchy", "composition"}
      BY <2>2, <2>3, ParentRefers
    <3> QED BY <3>1, BelowRefers
  <2>4. b.parent[n] = 0
    BY <1>4, <2>1, <2>3
  <2>5. n \in b.roots
    BY <1>1, <2>2, <2>4
  <2> QED BY <2>5
<1> QED BY <1>3, <1>4

\* A node whose nearest overriding type is t: its class is the one that t forces.
LEMMA ForcedByType ==
  ASSUME NEW m, NEW n, m.types[n] \in Seq([name : STRING, machinery : BOOLEAN]), NEW t \in Overrides, Overridden(m, n, t)
  PROVE  ForcedClass(m, n) = IF t = "dataitemtype" THEN "composition" ELSE "hierarchy"
<1> DEFINE types == m.types[n]
           over == Machinery.overrides
           hits == {k \in DOMAIN types : types[k].name \in DOMAIN over}
<1>1. DOMAIN over = Overrides /\ over["dataitemtype"].force = "composition" /\ over["functionalgrouptype"].force = "hierarchy"
  BY DEF Machinery, Overrides
<1>2. DOMAIN types = 1 .. Len(types) /\ Len(types) \in Nat
  BY LenProperties
<1>3. ActiveProfiles(m, n) = <<Machinery, Generic>>
  <2>1. \E k \in 1 .. Len(types) : types[k].machinery /\ types[k].name \in DOMAIN over
    BY <1>1, <1>2 DEF Overridden
  <2> QED BY <2>1 DEF ActiveProfiles
<1>4. PICK k \in DOMAIN types : types[k].name = t /\ \A j \in 1 .. k - 1 : types[j].name \notin Overrides
  BY DEF Overridden
<1>5. k \in hits /\ hits \in SUBSET Nat
  BY <1>1, <1>2, <1>4
<1>6. Min(hits) \in hits /\ Min(hits) <= k
  <2> HIDE DEF hits
  <2> QED BY <1>5, MinIsLeast
<1>7. Min(hits) = k
  <2>1. ASSUME NEW j \in hits, j < k PROVE FALSE
    BY <1>1, <1>2, <1>4, <2>1
  <2> HIDE DEF hits
  <2>2. k \in Nat /\ Min(hits) \in Nat /\ ~(Min(hits) < k)
    BY <1>5, <1>6, <2>1
  <2> QED BY <1>6, <2>2
<1>8. ForcedClass(m, n) = over[types[k].name].force
  <2>1. ActiveProfiles(m, n)[1] = Machinery
    BY <1>3
  <2> QED BY <1>5, <1>7, <2>1 DEF ForcedClass
<1> QED BY <1>1, <1>4, <1>8 DEF Overrides

\* All references to a node whose type forces a class are of that class.
LEMMA ForcedEdges ==
  ASSUME NEW m, NEW e \in Edges(m), ForcedClass(m, e.to) # "none"
  PROVE  e.class = ForcedClass(m, e.to)
BY EdgeOfReference DEF ReferenceClass

\* So the node is in that plane and in no other.
LEMMA ModelForced ==
  ASSUME NEW m, IsBrowsed(m), NEW b, IsModel(b), b.nodes = m.nodes, b.edges = Edges(m), NEW n \in ToSet(b.nodes)
  PROVE  /\ Overridden(m, n, "dataitemtype") =>
              b.hierarchy[n] = 0 /\ ((\E e \in b.edges : e.to = n) => b.composition[n] # 0)
         /\ Overridden(m, n, "functionalgrouptype") =>
              b.composition[n] = 0 /\ ((\E e \in b.edges : e.to = n) => b.hierarchy[n] # 0)
<1>1. m.types[n] \in Seq([name : STRING, machinery : BOOLEAN])
  BY DEF IsBrowsed
<1>2. "dataitemtype" \in Overrides /\ "functionalgrouptype" \in Overrides
  BY DEF Overrides
<1>3. ASSUME Overridden(m, n, "dataitemtype")
      PROVE  b.hierarchy[n] = 0 /\ ((\E e \in b.edges : e.to = n) => b.composition[n] # 0)
  <2>1. ForcedClass(m, n) = "composition"
    BY <1>1, <1>2, <1>3, ForcedByType
  <2>2. ASSUME NEW e \in b.edges, e.to = n PROVE e.class = "composition"
    BY <2>1, <2>2, ForcedEdges
  <2> QED BY <2>2, ParentRefers
<1>4. ASSUME Overridden(m, n, "functionalgrouptype")
      PROVE  b.composition[n] = 0 /\ ((\E e \in b.edges : e.to = n) => b.hierarchy[n] # 0)
  <2>1. ForcedClass(m, n) = "hierarchy"
    BY <1>1, <1>2, <1>4, ForcedByType
  <2>2. ASSUME NEW e \in b.edges, e.to = n PROVE e.class = "hierarchy"
    BY <2>1, <2>2, ForcedEdges
  <2> QED BY <2>2, ParentRefers
<1> QED BY <1>3, <1>4

\* What the two sets of profiles make of the tokens of a reference.
LEMMA ProfilesDecide ==
  ASSUME NEW tokens, NEW target
  PROVE  LET known == tokens \cap (Generic.graph \cup Generic.hierarchy \cup Generic.composition) # {}
             byGeneric == IF ~known THEN "none" ELSE IF tokens \cap Generic.graph # {} THEN "graph" ELSE HierarchicalFamily(tokens, target)
         IN  /\ ProfileClass(tokens, <<Generic>>, target) = byGeneric
             /\ ProfileClass(tokens, <<Machinery, Generic>>, target) =
                  IF tokens \cap (Machinery.graph \cup Machinery.hierarchy \cup Machinery.composition) = {} THEN byGeneric
                  ELSE IF tokens \cap Machinery.graph # {} THEN "graph" ELSE HierarchicalFamily(tokens, target)
<1> DEFINE G == Generic.graph \cup Generic.hierarchy \cup Generic.composition
           M == Machinery.graph \cup Machinery.hierarchy \cup Machinery.composition
           knows(p) == tokens \cap (p.graph \cup p.hierarchy \cup p.composition) # {}
           hits(s) == {k \in DOMAIN s : knows(s[k])}
<1>1. Min({1}) = 1 /\ Min({2}) = 2 /\ Min({1, 2}) = 1
  <2>1. ASSUME NEW S \in SUBSET Nat, NEW x \in S, \A y \in S : x <= y PROVE Min(S) = x
    <3>1. Min(S) \in S /\ \A y \in S : Min(S) <= y
      BY <2>1, MinIsLeast
    <3>2. Min(S) <= x /\ x <= Min(S) /\ x \in Nat /\ Min(S) \in Nat
      BY <2>1, <3>1
    <3> QED BY <3>2
  <2> QED BY <2>1
<1>2. ASSUME NEW g, g = Generic PROVE hits(<<g>>) = IF knows(g) THEN {1} ELSE {}
  OBVIOUS
<1>3. ASSUME NEW p, NEW g
      PROVE  hits(<<p, g>>) = (IF knows(p) THEN {1} ELSE {}) \cup (IF knows(g) THEN {2} ELSE {})
  OBVIOUS
<1>4. ASSUME NEW profiles
      PROVE  ProfileClass(tokens, profiles, target) =
               IF hits(profiles) = {} THEN "none"
               ELSE IF tokens \cap profiles[Min(hits(profiles))].graph # {} THEN "graph" ELSE HierarchicalFamily(tokens, target)
  BY DEF ProfileClass
<1> HIDE DEF hits, knows
<1>5. ProfileClass(tokens, <<Generic>>, target) =
        IF ~knows(Generic) THEN "none" ELSE IF tokens \cap Generic.graph # {} THEN "graph" ELSE HierarchicalFamily(tokens, target)
  <2>1. <<Generic>>[1] = Generic
    OBVIOUS
  <2>2. CASE knows(Generic)
    <3>1. hits(<<Generic>>) = {1}
      BY <1>2, <2>2
    <3> QED BY <1>1, <1>4, <2>1, <2>2, <3>1
  <2>3. CASE ~knows(Generic)
    <3>1. hits(<<Generic>>) = {}
      BY <1>2, <2>3
    <3> QED BY <1>4, <2>3, <3>1
  <2> QED BY <2>2, <2>3
<1>6. ProfileClass(tokens, <<Machinery, Generic>>, target) =
        IF ~knows(Machinery) THEN ProfileClass(tokens, <<Generic>>, target)
        ELSE IF tokens \cap Machinery.graph # {} THEN "graph" ELSE HierarchicalFamily(tokens, target)
  <2>1. <<Machinery, Generic>>[1] = Machinery /\ <<Machinery, Generic>>[2] = Generic
    OBVIOUS
  <2>2. CASE knows(Machinery)
    <3>1. hits(<<Machinery, Generic>>) \in {{1}, {1, 2}}
      BY <1>3, <2>2
    <3>2. Min(hits(<<Machinery, Generic>>)) = 1 /\ hits(<<Machinery, Generic>>) # {}
      BY <1>1, <3>1
    <3> QED BY <1>4, <2>1, <2>2, <3>2
  <2>3. CASE ~knows(Machinery) /\ knows(Generic)
    <3>1. hits(<<Machinery, Generic>>) = {2}
      BY <1>3, <2>3
    <3> QED BY <1>1, <1>4, <1>5, <2>1, <2>3, <3>1
  <2>4. CASE ~knows(Machinery) /\ ~knows(Generic)
    <3>1. hits(<<Machinery, Generic>>) = {}
      BY <1>3, <2>4
    <3> QED BY <1>4, <1>5, <2>4, <3>1
  <2> QED BY <2>2, <2>3, <2>4
<1> QED BY <1>5, <1>6 DEF knows

\* The standard reference types have the same class with and without their supertypes.
LEMMA StandardStable ==
  ASSUME NEW names \in StandardLineages, NEW target, NEW profiles \in {<<Generic>>, <<Machinery, Generic>>}
  PROVE  Classify(names \cup {"hierarchicalreferences", "references"}, target, profiles) = Classify(names, target, profiles)
<1> DEFINE more == names \cup {"hierarchicalreferences", "references"}
<1>1. /\ Generic.graph = {"nonhierarchicalreferences", "generatesevent", "haseventsource"}
      /\ Generic.hierarchy = HierarchyNames /\ Generic.composition = CompositionNames
      /\ Machinery.graph = {"flowsto"} /\ Machinery.hierarchy = {"organizes"} /\ Machinery.composition = {"hasproperty", "dataitemtype"}
  BY DEF Generic, Machinery
<1>2. names \cap GraphNames = {} /\ more \cap GraphNames = {}
  BY DEF StandardLineages, GraphNames
<1>3. ASSUME NEW tokens, tokens \cap GraphNames = {}
      PROVE  Classify(tokens, target, profiles) =
               IF ProfileClass(tokens, profiles, target) = "none" THEN ClassifyByLineage(tokens, target) ELSE ProfileClass(tokens, profiles, target)
  BY <1>3 DEF Classify
<1>4. HierarchicalFamily(more, target) = HierarchicalFamily(names, target)
  BY DEF StandardLineages, HierarchicalFamily
<1>5. ProfileClass(more, profiles, target) = ProfileClass(names, profiles, target) /\ ProfileClass(names, profiles, target) # "none"
  <2> DEFINE known(T) == T \cap (Generic.graph \cup Generic.hierarchy \cup Generic.composition) # {}
             machine(T) == T \cap (Machinery.graph \cup Machinery.hierarchy \cup Machinery.composition) # {}
  <2>1. /\ known(names) /\ known(more) /\ (machine(names) <=> machine(more))
        /\ (names \cap Generic.graph # {} <=> more \cap Generic.graph # {})
        /\ names \cap Machinery.graph = {} /\ more \cap Machinery.graph = {}
    BY <1>1 DEF StandardLineages, HierarchyNames, CompositionNames
  <2>2. ASSUME NEW T
        PROVE  /\ ProfileClass(T, <<Generic>>, target) =
                    IF ~known(T) THEN "none" ELSE IF T \cap Generic.graph # {} THEN "graph" ELSE HierarchicalFamily(T, target)
               /\ ProfileClass(T, <<Machinery, Generic>>, target) =
                    IF ~machine(T) THEN ProfileClass(T, <<Generic>>, target)
                    ELSE IF T \cap Machinery.graph # {} THEN "graph" ELSE HierarchicalFamily(T, target)
    BY ProfilesDecide
  <2>3. HierarchicalFamily(names, target) # "none"
    BY DEF HierarchicalFamily
  <2> HIDE DEF known, machine, more
  <2> QED BY <1>4, <2>1, <2>2, <2>3
<1> QED BY <1>2, <1>3, <1>5

\* The inductive invariant of the model: what was built was built of browsed nodes.
ModelInv ==
    /\ Ran("build") => IsBrowsed(input.m) /\ input.b = Build(input.m)
    /\ Ran("classify") => input.name \in StandardLineages /\ input.profiles \in {<<Generic>>, <<Machinery, Generic>>}

\* It is one.
LEMMA ModelInductive == ModelSpec => []ModelInv
<1>1. ModelInit => ModelInv
  BY DEF ModelInit, ModelInv, Ran
<1>2. ModelInv /\ [ModelNext]_vars => ModelInv'
  <2> SUFFICES ASSUME ModelInv, [ModelNext]_vars PROVE ModelInv'
    OBVIOUS
  <2>1. ASSUME NEW m, BuildModel(m) PROVE ModelInv'
    <3>1. task' = "build" /\ IsBrowsed(m) /\ input' = [m |-> m, b |-> Build(m)]
      BY <2>1 DEF BuildModel, Idle, Run
    <3>2. input'.m = m /\ input'.b = Build(m)
      BY <3>1
    <3> QED BY <3>1, <3>2 DEF ModelInv, Ran
  <2>2. ASSUME NEW names, NEW target, NEW profiles, ClassifyStandard(names, target, profiles) PROVE ModelInv'
    <3>1. /\ task' = "classify" /\ names \in StandardLineages /\ profiles \in {<<Generic>>, <<Machinery, Generic>>}
          /\ input' = [name |-> names, target |-> target, profiles |-> profiles]
      BY <2>2 DEF ClassifyStandard, Idle, Run
    <3>2. input'.name = names /\ input'.profiles = profiles
      BY <3>1
    <3> QED BY <3>1, <3>2 DEF ModelInv, Ran
  <2>3. CASE UNCHANGED vars
    BY <2>3 DEF vars, ModelInv, Ran
  <2> QED BY <2>1, <2>2, <2>3 DEF ModelNext
<1> QED BY <1>1, <1>2, PTL DEF ModelSpec

\* Of any browsed nodes and references the builder makes a model in which nothing is lost
\* or mixed up, or refuses them.
THEOREM ModelIsFaithful == ModelSpec => []ModelFaithful
<1>1. ModelInv => ModelFaithful
  <2> SUFFICES ASSUME ModelInv PROVE ModelFaithful
    OBVIOUS
  <2>1. StandardClassesStable
    BY StandardStable DEF StandardClassesStable, ModelInv
  <2>2. ASSUME Built
        PROVE  /\ IsBrowsed(input.m) /\ IsModel(input.b) /\ input.b.ok
               /\ input.b.nodes = input.m.nodes /\ input.b.edges = Edges(input.m)
    BY <2>2, BuildIsModel DEF Built, ModelInv
  <2>3. RelationshipsInverse
    <3> SUFFICES ASSUME Built PROVE RelationshipsInverse
      BY DEF RelationshipsInverse
    <3> PICK b : b = input.b
      OBVIOUS
    <3>1. IsModel(b) /\ b.ok
      BY <2>2
    <3> QED BY <3>1, ModelInverse DEF RelationshipsInverse
  <2>4. NoReferenceLost
    <3> SUFFICES ASSUME Built PROVE NoReferenceLost
      BY DEF NoReferenceLost
    <3> PICK b : b = input.b
      OBVIOUS
    <3>1. IsModel(b) /\ b.ok
      BY <2>2
    <3>2. ASSUME NEW e \in b.edges
          PROVE  /\ e.class = "hierarchy" =>
                      \/ b.hierarchy[e.to] = e.from
                      \/ <<e.to, RelationshipId(b.entries, <<"OrganizedBy">>, I3xNamespace), e.from>> \in b.relations
                 /\ e.class = "composition" => b.composition[e.to] # 0
                 /\ e.class \notin {"hierarchy", "composition"} =>
                      <<e.from, RelationshipId(b.entries, e.name, e.ns), e.to>> \in b.relations
      BY <3>1, ModelComplete
    <3> QED BY <3>2 DEF NoReferenceLost
  <2>5. ParentsForest
    <3> SUFFICES ASSUME Built PROVE ParentsForest
      BY DEF ParentsForest
    <3> PICK b : b = input.b
      OBVIOUS
    <3>1. IsModel(b)
      BY <2>2
    <3> QED BY <3>1, ModelForest DEF ParentsForest
  <2>6. ForcedClassHolds
    <3> SUFFICES ASSUME Built PROVE ForcedClassHolds
      BY DEF ForcedClassHolds
    <3> PICK b, m : b = input.b /\ m = input.m
      OBVIOUS
    <3>1. IsBrowsed(m) /\ IsModel(b) /\ b.nodes = m.nodes /\ b.edges = Edges(m)
      BY <2>2
    <3> QED BY <3>1, ModelForced DEF ForcedClassHolds
  <2> QED BY <2>1, <2>3, <2>4, <2>5, <2>6 DEF ModelFaithful
<1> QED BY <1>1, ModelInductive, PTL

-----------------------------------------------------------------------------
(* The objects                                                              *)

\* What the objects need to know of a built model b besides.
LEMMA BuildObjects ==
  ASSUME NEW m, IsBrowsed(m), NEW b, b = Build(m)
  PROVE  \A n \in ToSet(b.nodes) :
           /\ b.kind[n] \in {"asset", "property", "action"}
           /\ b.children[n] = {c \in ToSet(b.nodes) : m.parent[c] = n}
<1>1. /\ b.nodes = m.nodes
      /\ b.kind = [n \in ToSet(m.nodes) |-> Kind(m, n)]
      /\ b.children = [n \in ToSet(m.nodes) |-> ChildSources(m, n)]
  BY DEF Build
<1>2. \A n : Kind(m, n) \in {"asset", "property", "action"}
  BY DEF Kind
<1> QED BY <1>1, <1>2 DEF ChildSources

\* The nodes of a model are finitely many.
LEMMA NodesFinite ==
  ASSUME NEW T, NEW s \in Seq(T)
  PROVE  IsFiniteSet(ToSet(s))
<1>1. IsFiniteSet(DOMAIN s)
  <2>1. DOMAIN s = 1 .. Len(s) /\ Len(s) \in Nat
    OBVIOUS
  <2> QED BY <2>1, FS_Interval
<1>2. s \in Surjection(DOMAIN s, ToSet(s))
  BY DEF ToSet, Surjection
<1> QED BY <1>1, <1>2, FS_Surjection

\* A relation of a model leads from a to c, or a target of n does.
LEMMA RelationOfModel ==
  ASSUME NEW b, IsModel(b), b.ok
  PROVE  /\ \A t \in b.relations : t = <<t[1], t[2], t[3]>>
         /\ \A a, c : OwnOnly(b.relations, ToSet(b.nodes), b.hierarchy, b.composition, a, c)
<1>1. /\ EntriesOK(b.entries) /\ Nameable(b.entries)
      /\ b.relations = Relations(ToSet(b.nodes), b.hierarchy, b.composition, b.entries)
  BY DEF IsModel
<1>2. Named(b.entries)
  BY <1>1 DEF Nameable, Named
<1> QED BY <1>1, <1>2, RelationTriple, OwnRelations

\* The names the objects give to the relations.
LEMMA NamesOfRelations ==
  ASSUME NEW b, NEW n, NEW id
  PROVE  /\ RelationName(b, n, id) = <<"HasChildren">> <=> id = <<"HasChildren">>
         /\ RelationName(b, n, id) = <<"HasComponent">> <=> id = <<"HasComponent">>
         /\ RelationName(b, n, id) = <<"HasParent">> => id = <<"HasParent">>
         /\ RelationName(b, n, id) = <<"ComponentOf">> => id \in {<<"ComponentOf">>, <<"HasParent">>}
BY DEF RelationName

\* What is related to n under a name.
LEMMA RelatedUnder ==
  ASSUME NEW b, NEW n, NEW f, f # <<>>, NEW x
  PROVE  x \in RelatedObjects(b, n, f) <=> \E t \in b.relations : t[1] = n /\ RelationName(b, n, t[2]) = f /\ x = <<f, t[3]>>
<1>1. ASSUME NEW t PROVE f \in {<<>>, RelationName(b, n, t[2])} <=> f = RelationName(b, n, t[2])
  OBVIOUS
<1> QED BY <1>1 DEF RelatedObjects

\* The children and components an object shows are those of the two planes.
LEMMA DownIsPlane ==
  ASSUME NEW b, IsModel(b), b.ok, NEW n, NEW x
  PROVE  /\ x \in RelatedObjects(b, n, <<"HasChildren">>) <=>
              \E c \in ToSet(b.nodes) : b.hierarchy[c] # 0 /\ n = b.hierarchy[c] /\ x = <<<<"HasChildren">>, c>>
         /\ x \in RelatedObjects(b, n, <<"HasComponent">>) <=>
              \E c \in ToSet(b.nodes) : b.composition[c] # 0 /\ n = b.composition[c] /\ x = <<<<"HasComponent">>, c>>
<1>1. <<"HasChildren">> # <<>> /\ <<"HasComponent">> # <<>>
  OBVIOUS
<1>2. /\ x \in RelatedObjects(b, n, <<"HasChildren">>) <=> \E c : <<n, <<"HasChildren">>, c>> \in b.relations /\ x = <<<<"HasChildren">>, c>>
      /\ x \in RelatedObjects(b, n, <<"HasComponent">>) <=> \E c : <<n, <<"HasComponent">>, c>> \in b.relations /\ x = <<<<"HasComponent">>, c>>
  <2>1. ASSUME NEW f \in {<<"HasChildren">>, <<"HasComponent">>}
        PROVE  x \in RelatedObjects(b, n, f) <=> \E c : <<n, f, c>> \in b.relations /\ x = <<f, c>>
    <3>1. x \in RelatedObjects(b, n, f) <=> \E t \in b.relations : t[1] = n /\ t[2] = f /\ x = <<f, t[3]>>
      BY <1>1, RelatedUnder, NamesOfRelations
    <3>2. ASSUME NEW t \in b.relations, t[1] = n, t[2] = f, x = <<f, t[3]>>
          PROVE  \E c : <<n, f, c>> \in b.relations /\ x = <<f, c>>
      <4>1. t = <<t[1], t[2], t[3]>>
        BY RelationOfModel
      <4> QED BY <3>2, <4>1
    <3>3. ASSUME NEW c, <<n, f, c>> \in b.relations, x = <<f, c>>
          PROVE  \E t \in b.relations : t[1] = n /\ t[2] = f /\ x = <<f, t[3]>>
      <4>1. <<n, f, c>>[1] = n /\ <<n, f, c>>[2] = f /\ <<n, f, c>>[3] = c
        OBVIOUS
      <4> QED BY <3>3, <4>1
    <3> QED BY <3>1, <3>2, <3>3
  <2> QED BY <2>1
<1>3. \A c : OwnOnly(b.relations, ToSet(b.nodes), b.hierarchy, b.composition, n, c)
  BY RelationOfModel
<1> QED BY <1>2, <1>3 DEF OwnOnly

\* An object without a parent in either plane shows none.
LEMMA TopHasNoParent ==
  ASSUME NEW b, IsModel(b), b.ok, NEW n \in ToSet(b.nodes), b.hierarchy[n] = 0, b.composition[n] = 0
  PROVE  RelatedObjects(b, n, <<"HasParent">>) = {} /\ RelatedObjects(b, n, <<"ComponentOf">>) = {}
<1>1. ASSUME NEW f \in {<<"HasParent">>, <<"ComponentOf">>}, NEW x \in RelatedObjects(b, n, f) PROVE FALSE
  <2>1. f # <<>>
    OBVIOUS
  <2>2. PICK t \in b.relations : t[1] = n /\ RelationName(b, n, t[2]) = f
    BY <2>1, RelatedUnder
  <2>3. t[2] \in {<<"ComponentOf">>, <<"HasParent">>}
    BY <2>2, NamesOfRelations
  <2>4. t = <<t[1], t[2], t[3]>> /\ OwnOnly(b.relations, ToSet(b.nodes), b.hierarchy, b.composition, n, t[3])
    BY RelationOfModel
  <2> QED BY <2>2, <2>3, <2>4 DEF OwnOnly
<1> QED BY <1>1

\* From the root objects down along the relations is everything.
LEMMA ModelNavigable ==
  ASSUME NEW b, IsModel(b), b.ok, Acyclic(b)
  PROVE  LET nodes == ToSet(b.nodes)
             down(n) == {x[2] : x \in RelatedObjects(b, n, <<"HasChildren">>) \cup RelatedObjects(b, n, <<"HasComponent">>)}
         IN  /\ (\A n \in b.roots : b.kind[n] = "asset") =>
                  \A S \in SUBSET nodes : RootObjects(b) \subseteq S /\ (\A n \in S : down(n) \subseteq S) => S = nodes
             /\ nodes # {} => RootObjects(b) # {}
             /\ \A n \in RootObjects(b) : RelatedObjects(b, n, <<"HasParent">>) = {} /\ RelatedObjects(b, n, <<"ComponentOf">>) = {}
<1> DEFINE nodes == ToSet(b.nodes)
           down(n) == {x[2] : x \in RelatedObjects(b, n, <<"HasChildren">>) \cup RelatedObjects(b, n, <<"HasComponent">>)}
           tops == {n \in nodes : b.hierarchy[n] = 0 /\ b.composition[n] = 0 /\ b.kind[n] = "asset"}
<1>1. b.roots = {n \in nodes : b.hierarchy[n] = 0 /\ b.composition[n] = 0}
  BY DEF IsModel
<1>2. RootObjects(b) = IF tops = {} THEN b.roots ELSE tops
  BY DEF RootObjects
<1>3. RootObjects(b) \subseteq b.roots /\ (b.roots # {} => RootObjects(b) # {})
  BY <1>1, <1>2
<1>4. \A n \in nodes : (b.hierarchy[n] # 0 => b.hierarchy[n] \in nodes) /\ (b.composition[n] # 0 => b.composition[n] \in nodes)
  BY ParentRefers
<1>5. \A n \in RootObjects(b) : RelatedObjects(b, n, <<"HasParent">>) = {} /\ RelatedObjects(b, n, <<"ComponentOf">>) = {}
  BY <1>1, <1>3, TopHasNoParent
<1>6. ASSUME nodes # {} PROVE RootObjects(b) # {}
  <2>1. PICK n \in nodes : b.hierarchy[n] \notin nodes /\ b.composition[n] \notin nodes
    BY <1>6 DEF Acyclic
  <2> QED BY <1>1, <1>3, <1>4, <2>1
<1>7. ASSUME \A n \in b.roots : b.kind[n] = "asset", NEW S \in SUBSET nodes, RootObjects(b) \subseteq S, \A n \in S : down(n) \subseteq S
      PROVE  S = nodes
  <2>1. SUFFICES ASSUME nodes \ S # {} PROVE FALSE
    OBVIOUS
  <2>2. PICK n \in nodes \ S : b.hierarchy[n] \notin nodes \ S /\ b.composition[n] \notin nodes \ S
    BY <2>1 DEF Acyclic
  <2>3. ASSUME b.hierarchy[n] # 0 PROVE FALSE
    <3>1. b.hierarchy[n] \in S
      BY <1>4, <2>2, <2>3
    <3>2. PICK x : x = <<<<"HasChildren">>, n>>
      OBVIOUS
    <3>3. x \in RelatedObjects(b, b.hierarchy[n], <<"HasChildren">>) /\ x[2] = n
      BY <2>2, <2>3, <3>2, DownIsPlane
    <3>4. n \in down(b.hierarchy[n])
      BY <3>3
    <3> QED BY <1>7, <2>2, <3>1, <3>4
  <2>4. ASSUME b.composition[n] # 0 PROVE FALSE
    <3>1. b.composition[n] \in S
      BY <1>4, <2>2, <2>4
    <3>2. PICK x : x = <<<<"HasComponent">>, n>>
      OBVIOUS
    <3>3. x \in RelatedObjects(b, b.composition[n], <<"HasComponent">>) /\ x[2] = n
      BY <2>2, <2>4, <3>2, DownIsPlane
    <3>4. n \in down(b.composition[n])
      BY <3>3
    <3> QED BY <1>7, <2>2, <3>1, <3>4
  <2>5. n \in tops
    BY <1>1, <1>7, <2>2, <2>3, <2>4
  <2> QED BY <1>2, <1>7, <2>2, <2>5
<1> QED BY <1>5, <1>6, <1>7

\* What an object says of its parent agrees with its relations.
LEMMA ModelParents ==
  ASSUME NEW m, IsBrowsed(m), NEW b, b = Build(m), b.ok, NEW n \in ToSet(b.nodes)
  PROVE  ParentAgrees(m, b, n)
<1> DEFINE nodes == ToSet(b.nodes)
           owners == {e.from : e \in {e \in b.edges : e.to = n /\ e.class = "composition"}}
           up == Targets(b, n, <<"HasParent">>)
           object == ObjectInstance(b, n)
<1>1. IsModel(b) /\ b.nodes = m.nodes
  BY BuildIsModel
<1>2. object.parentId = ParentId(b, n) /\ object.owner = b.composition[n] /\ (object.isComposition <=> ComponentsOf(b, n) # {})
  BY DEF ObjectInstance
<1>3. up = {b.hierarchy[n]} \ {0}
  BY <1>1, ModelInverse
<1>4. /\ b.roots = {k \in nodes : b.hierarchy[k] = 0 /\ b.composition[k] = 0}
      /\ EdgesOK(b.edges, nodes)
  BY <1>1 DEF IsModel
<1>5. /\ b.composition[n] # 0 => \E e \in b.edges : e.to = n /\ e.class = "composition" /\ e.from = b.composition[n]
      /\ (\E e \in b.edges : e.to = n /\ e.class = "hierarchy") => b.hierarchy[n] # 0
      /\ (\E e \in b.edges : e.to = n /\ e.class = "composition") => b.composition[n] # 0
  BY <1>1, ParentRefers
<1>6. ASSUME up # {} PROVE object.parentId \in up
  <2>1. b.hierarchy[n] # 0
    BY <1>3, <1>6
  <2> QED BY <1>2, <1>3, <1>4, <2>1 DEF ParentId
<1>7. ASSUME up = {}, b.kind[n] = "property", FoundByReference(m, b, n), Cardinality(owners) = 1
      PROVE  object.parentId = object.owner
  <2>1. b.hierarchy[n] = 0
    BY <1>3, <1>7
  <2>2. PICK e \in b.edges : e.from = m.parent[n] /\ e.to = n /\ e.class \in {"hierarchy", "composition"}
    BY <1>7 DEF FoundByReference, Below
  <2>3. e.class = "composition"
    BY <1>5, <2>1, <2>2
  <2>4. m.parent[n] \in owners /\ m.parent[n] \in nodes
    BY <1>4, <2>2, <2>3 DEF EdgesOK
  <2>5. b.composition[n] # 0 /\ b.composition[n] \in owners
    BY <1>5, <2>2, <2>3
  <2>6. IsFiniteSet(owners)
    <3>1. IsFiniteSet(nodes)
      BY <1>1, NodesFinite DEF IsBrowsed
    <3>2. owners \in SUBSET nodes
      BY <1>4 DEF EdgesOK
    <3> HIDE DEF owners, nodes
    <3> QED BY <3>1, <3>2, FS_Subset
  <2>7. b.composition[n] = m.parent[n]
    <3>1. \E x : owners = {x}
      BY <1>7, <2>6, FS_Singleton
    <3> QED BY <2>4, <2>5, <3>1
  <2>8. {p \in nodes : n \in b.children[p]} = {m.parent[n]}
    BY <2>4, BuildObjects
  <2>9. ReverseParent(b, n) = m.parent[n]
    BY <2>1, <2>8 DEF ReverseParent
  <2>10. n \notin b.roots
    BY <1>4, <2>5
  <2> QED BY <1>2, <1>7, <2>1, <2>7, <2>9, <2>10 DEF ParentId
<1>8. ASSUME up = {}, b.kind[n] = "asset" PROVE object.parentId = 0
  <2>1. b.hierarchy[n] = 0
    BY <1>3, <1>8
  <2> QED BY <1>2, <1>8, <2>1 DEF ParentId
<1>9. object.isComposition <=> RelatedObjects(b, n, <<"HasComponent">>) # {}
  <2>1. n # 0
    BY <1>4 DEF EdgesOK
  <2>2. ASSUME NEW c \in nodes, b.composition[c] = n PROVE RelatedObjects(b, n, <<"HasComponent">>) # {}
    <3>1. PICK x : x = <<<<"HasComponent">>, c>>
      OBVIOUS
    <3>2. x \in RelatedObjects(b, n, <<"HasComponent">>)
      BY <1>1, <2>1, <2>2, <3>1, DownIsPlane
    <3> QED BY <3>2
  <2>3. ASSUME NEW x \in RelatedObjects(b, n, <<"HasComponent">>) PROVE \E c \in nodes : b.composition[c] = n
    BY <1>1, <2>3, DownIsPlane
  <2> QED BY <1>2, <2>2, <2>3 DEF ComponentsOf
<1> QED BY <1>6, <1>7, <1>8, <1>9 DEF ParentAgrees

\* Two finite sets between which each element of the one has its own in the other.
LEMMA SameSize ==
  ASSUME NEW S, IsFiniteSet(S), NEW T, NEW f \in [S -> T],
         \A x, y \in S : f[x] = f[y] => x = y, \A z \in T : \E x \in S : f[x] = z
  PROVE  IsFiniteSet(T) /\ Cardinality(T) = Cardinality(S)
<1>1. f \in Bijection(S, T)
  BY DEF Bijection, Injection, Surjection, IsInjective
<1>2. ExistsBijection(S, T)
  BY <1>1 DEF ExistsBijection
<1> QED BY <1>2, FS_Bijection

\* The relations of R with one id, and the nodes with a parent in the plane f.
OfId(R, id) == {t \in R : t[2] = id}
Owned(nodes, f) == {n \in nodes : f[n] # 0}

\* The relations R down and up are those of the plane f.
PlaneOnly(R, nodes, f, down, up) ==
    /\ \A t \in R : t = <<t[1], t[2], t[3]>>
    /\ \A a, c : <<a, down, c>> \in R <=> c \in nodes /\ f[c] # 0 /\ a = f[c]
    /\ \A a, c : <<a, up, c>> \in R <=> a \in nodes /\ f[a] # 0 /\ c = f[a]

\* A plane has as many relations down, and as many up, as nodes with a parent.
LEMMA PlaneCounts ==
  ASSUME NEW R, NEW nodes, IsFiniteSet(nodes), NEW f, NEW down, NEW up, PlaneOnly(R, nodes, f, down, up)
  PROVE  /\ Cardinality(OfId(R, down)) = Cardinality(Owned(nodes, f))
         /\ Cardinality(OfId(R, up)) = Cardinality(Owned(nodes, f))
<1> DEFINE own == {n \in nodes : f[n] # 0}
           D == {t \in R : t[2] = down}
           U == {t \in R : t[2] = up}
           g == [n \in own |-> <<f[n], down, n>>]
           h == [n \in own |-> <<n, up, f[n]>>]
<1>0. /\ \A t \in R : t = <<t[1], t[2], t[3]>>
      /\ \A x, c : <<x, down, c>> \in R <=> c \in nodes /\ f[c] # 0 /\ x = f[c]
      /\ \A x, c : <<x, up, c>> \in R <=> x \in nodes /\ f[x] # 0 /\ c = f[x]
  BY DEF PlaneOnly
<1>1. IsFiniteSet(own)
  BY FS_Subset
<1>2. Cardinality(D) = Cardinality(own)
  <2>1. g \in [own -> D]
    <3>1. ASSUME NEW n \in own PROVE <<f[n], down, n>> \in D
      BY <1>0
    <3> QED BY <3>1
  <2>2. \A x, y \in own : g[x] = g[y] => x = y
    OBVIOUS
  <2>3. ASSUME NEW t \in D PROVE \E n \in own : g[n] = t
    <3>1. t = <<t[1], down, t[3]>>
      BY <1>0
    <3>2. t[3] \in own /\ t[1] = f[t[3]]
      BY <1>0, <3>1
    <3>3. g[t[3]] = <<f[t[3]], down, t[3]>>
      BY <3>2
    <3> QED BY <3>1, <3>2, <3>3
  <2> HIDE DEF own, D, g
  <2> QED BY <1>1, <2>1, <2>2, <2>3, SameSize
<1>3. Cardinality(U) = Cardinality(own)
  <2>1. h \in [own -> U]
    <3>1. ASSUME NEW n \in own PROVE <<n, up, f[n]>> \in U
      BY <1>0
    <3> QED BY <3>1
  <2>2. \A x, y \in own : h[x] = h[y] => x = y
    OBVIOUS
  <2>3. ASSUME NEW t \in U PROVE \E n \in own : h[n] = t
    <3>1. t = <<t[1], up, t[3]>>
      BY <1>0
    <3>2. t[1] \in own /\ t[3] = f[t[1]]
      BY <1>0, <3>1
    <3>3. h[t[1]] = <<t[1], up, f[t[1]]>>
      BY <3>2
    <3> QED BY <3>1, <3>2, <3>3
  <2> HIDE DEF own, U, h
  <2> QED BY <1>1, <2>1, <2>2, <2>3, SameSize
<1> QED BY <1>2, <1>3 DEF OfId, Owned

\* The relations of the two planes are only theirs.
LEMMA TwoPlanes ==
  ASSUME NEW R, NEW nodes, NEW hier, NEW comp, \A t \in R : t = <<t[1], t[2], t[3]>>,
         \A a, c : OwnOnly(R, nodes, hier, comp, a, c)
  PROVE  /\ PlaneOnly(R, nodes, hier, <<"HasChildren">>, <<"HasParent">>)
         /\ PlaneOnly(R, nodes, comp, <<"HasComponent">>, <<"ComponentOf">>)
<1>1. ASSUME NEW a, NEW c
      PROVE  /\ <<a, <<"HasParent">>, c>> \in R <=> a \in nodes /\ hier[a] # 0 /\ c = hier[a]
             /\ <<a, <<"ComponentOf">>, c>> \in R <=> a \in nodes /\ comp[a] # 0 /\ c = comp[a]
             /\ <<a, <<"HasChildren">>, c>> \in R <=> c \in nodes /\ hier[c] # 0 /\ a = hier[c]
             /\ <<a, <<"HasComponent">>, c>> \in R <=> c \in nodes /\ comp[c] # 0 /\ a = comp[c]
  <2>1. OwnOnly(R, nodes, hier, comp, a, c)
    OBVIOUS
  <2> QED BY <2>1 DEF OwnOnly
<1>2. PlaneOnly(R, nodes, hier, <<"HasChildren">>, <<"HasParent">>)
  BY <1>1 DEF PlaneOnly
<1>3. PlaneOnly(R, nodes, comp, <<"HasComponent">>, <<"ComponentOf">>)
  BY <1>1 DEF PlaneOnly
<1> QED BY <1>2, <1>3

\* The kinds share out the nodes.
LEMMA KindsAddUp ==
  ASSUME NEW nodes, IsFiniteSet(nodes), NEW kind, \A n \in nodes : kind[n] \in {"asset", "property", "action"}
  PROVE  LET of(k) == {n \in nodes : kind[n] = k}
         IN  Cardinality(nodes) = Cardinality(of("asset")) + Cardinality(of("property")) + Cardinality(of("action"))
<1> DEFINE A == {n \in nodes : kind[n] = "asset"}
           P == {n \in nodes : kind[n] = "property"}
           M == {n \in nodes : kind[n] = "action"}
<1>1. IsFiniteSet(A) /\ IsFiniteSet(P) /\ IsFiniteSet(M)
  BY FS_Subset
<1>2. nodes = (A \cup P) \cup M /\ A \cap P = {} /\ (A \cup P) \cap M = {}
  OBVIOUS
<1> HIDE DEF A, P, M
<1>3. IsFiniteSet(A \cup P) /\ Cardinality(A \cup P) = Cardinality(A) + Cardinality(P) - Cardinality(A \cap P)
  BY <1>1, FS_Union
<1>4. Cardinality((A \cup P) \cup M) = Cardinality(A \cup P) + Cardinality(M) - Cardinality((A \cup P) \cap M)
  BY <1>1, <1>3, FS_Union
<1>5. Cardinality({}) = 0 /\ Cardinality(A) \in Nat /\ Cardinality(P) \in Nat /\ Cardinality(M) \in Nat
  BY <1>1, FS_EmptySet, FS_CardinalityType
<1>6. Cardinality(nodes) = Cardinality(A) + Cardinality(P) + Cardinality(M)
  <2>1. Cardinality(A \cap P) = 0
    BY <1>2, <1>5
  <2>2. Cardinality((A \cup P) \cap M) = 0
    BY <1>2, <1>5
  <2>3. Cardinality(nodes) = Cardinality((A \cup P) \cup M)
    BY <1>2
  <2>4. Cardinality(A \cup P) = Cardinality(A) + Cardinality(P)
    BY <1>3, <1>5, <2>1
  <2> QED BY <1>4, <1>5, <2>2, <2>3, <2>4
<1> QED BY <1>6 DEF A, P, M

\* An id of an inverse in a model is that of a relation of the graph, which leads back along it.
LEMMA InverseOfGraph ==
  ASSUME NEW b, IsModel(b), b.ok, NEW t \in b.relations, t[2][1] = "inverseOf"
  PROVE  LET id == Tail(t[2]) IN
         id \notin Reserved /\ id[1] # "inverseOf" /\ t[2] = InverseOf(id)
<1> DEFINE nodes == ToSet(b.nodes)
<1>1. /\ EntriesOK(b.entries) /\ Nameable(b.entries)
      /\ b.relations = Relations(nodes, b.hierarchy, b.composition, b.entries)
  BY DEF IsModel
<1>2. \A e \in b.entries : e.ns # <<>>
  BY <1>1 DEF Nameable
<1>3. \/ Plane(nodes, b.hierarchy, <<"HasChildren">>, <<"HasParent">>, t)
      \/ Plane(nodes, b.composition, <<"HasComponent">>, <<"ComponentOf">>, t)
      \/ OfGraph(b.entries, t) \/ OfInverse(b.entries, t)
  BY <1>1, RelationKinds
<1>4. ASSUME NEW f, NEW down \in {<<"HasChildren">>, <<"HasComponent">>}, NEW up \in {<<"HasParent">>, <<"ComponentOf">>},
             Plane(nodes, f, down, up, t)
      PROVE  FALSE
  <2>1. t[2] \in {down, up}
    BY <1>4 DEF Plane
  <2>2. t[2] \in {<<"HasChildren">>, <<"HasComponent">>, <<"HasParent">>, <<"ComponentOf">>}
    BY <2>1
  <2>3. t[2][1] \in {"HasChildren", "HasComponent", "HasParent", "ComponentOf"}
    BY <2>2
  <2> QED BY <2>3
<1>5. ASSUME OfGraph(b.entries, t) PROVE FALSE
  <2>1. PICK e \in b.entries : t = <<e.from, RelationshipId(b.entries, e.name, e.ns), e.to>>
    BY <1>5 DEF OfGraph
  <2>2. RelationshipId(b.entries, e.name, e.ns)[1] # "inverseOf"
    BY <1>1, <1>2, GraphIds
  <2> QED BY <2>1, <2>2
<1>6. PICK e \in b.entries : t = <<e.to, InverseOf(RelationshipId(b.entries, e.name, e.ns)), e.from>>
  BY <1>3, <1>4, <1>5 DEF OfInverse
<1>7. PICK id : id = RelationshipId(b.entries, e.name, e.ns)
  OBVIOUS
<1>8. id \in Seq(Texts) /\ id \notin Reserved /\ id[1] # "inverseOf"
  BY <1>1, <1>2, <1>7, GraphIds
<1>9. t[2] = InverseOf(id)
  BY <1>6, <1>7
<1>10. Tail(t[2]) = id
  BY <1>8, <1>9, InverseIds
<1> QED BY <1>8, <1>9, <1>10

\* The relations of one id join nodes of the model, so they are finitely many.
LEMMA RelationsFinite ==
  ASSUME NEW b, IsModel(b), IsFiniteSet(ToSet(b.nodes)), NEW id
  PROVE  IsFiniteSet(OfId(b.relations, id))
<1> DEFINE nodes == ToSet(b.nodes)
           T == OfId(b.relations, id)
           f == [t \in T |-> <<t[1], t[3]>>]
<1>1. /\ EntriesOK(b.entries) /\ b.entries = GraphEntries(b.edges, nodes) /\ EdgesOK(b.edges, nodes)
      /\ b.relations = Relations(nodes, b.hierarchy, b.composition, b.entries)
  BY DEF IsModel
<1>2. \A e \in b.entries : e.from \in nodes /\ e.to \in nodes
  <2>1. ASSUME NEW e \in b.entries PROVE e.from \in nodes /\ e.to \in nodes
    <3>1. CASE \E g \in b.edges : e = [from |-> g.from, name |-> g.name, ns |-> g.ns, to |-> g.to]
      BY <1>1, <3>1 DEF EdgesOK
    <3>2. CASE \E c \in nodes, d \in UNION {Candidates(b.edges, n, "hierarchy") : n \in nodes} :
                 e = [from |-> c, name |-> <<"OrganizedBy">>, ns |-> I3xNamespace, to |-> d.parent]
      <4>1. PICK c \in nodes, n \in nodes : \E d \in Candidates(b.edges, n, "hierarchy") : e.from = c /\ e.to = d.parent
        BY <3>2
      <4>2. \A d \in Candidates(b.edges, n, "hierarchy") : d.parent \in nodes
        BY <1>1 DEF Candidates, EdgesOK
      <4> QED BY <4>1, <4>2
    <3> QED BY <1>1, <3>1, <3>2, EntryOfEdge
  <2> QED BY <2>1
<1>3. ASSUME NEW t \in b.relations PROVE t = <<t[1], t[2], t[3]>> /\ t[1] \in nodes /\ t[3] \in nodes
  <2>1. \/ Plane(nodes, b.hierarchy, <<"HasChildren">>, <<"HasParent">>, t)
        \/ Plane(nodes, b.composition, <<"HasComponent">>, <<"ComponentOf">>, t)
        \/ OfGraph(b.entries, t) \/ OfInverse(b.entries, t)
    BY <1>1, RelationKinds
  <2>2. \A n \in nodes : (b.hierarchy[n] # 0 => b.hierarchy[n] \in nodes) /\ (b.composition[n] # 0 => b.composition[n] \in nodes)
    BY ParentRefers
  <2>3. t = <<t[1], t[2], t[3]>>
    BY <1>1, RelationTriple
  <2> QED BY <1>2, <2>1, <2>2, <2>3 DEF Plane, OfGraph, OfInverse
<1>4. IsFiniteSet(nodes \X nodes)
  BY FS_Product
<1>5. f \in Injection(T, nodes \X nodes)
  <2>1. f \in [T -> nodes \X nodes]
    BY <1>3 DEF OfId
  <2>2. ASSUME NEW t \in T, NEW u \in T, f[t] = f[u] PROVE t = u
    <3>1. t[2] = id /\ u[2] = id /\ t \in b.relations /\ u \in b.relations
      BY DEF OfId
    <3>2. t[1] = u[1] /\ t[3] = u[3]
      BY <2>2
    <3> QED BY <1>3, <3>1, <3>2
  <2> HIDE DEF f
  <2> QED BY <2>1, <2>2 DEF Injection, IsInjective
<1> HIDE DEF f, T
<1>6. IsFiniteSet(T)
  BY <1>4, <1>5, FS_Injection
<1> QED BY <1>6 DEF T

\* A relation and its inverse lead along the same pairs of nodes.
LEMMA InverseCounts ==
  ASSUME NEW b, IsModel(b), b.ok, IsFiniteSet(ToSet(b.nodes)), NEW t \in b.relations, t[2][1] = "inverseOf"
  PROVE  Cardinality(OfId(b.relations, t[2])) = Cardinality(OfId(b.relations, Tail(t[2])))
<1> PICK inv, id : inv = t[2] /\ id = Tail(inv)
  OBVIOUS
<1>1. inv[1] = "inverseOf" /\ inv = InverseOf(id) /\ id \notin Reserved /\ id[1] # "inverseOf"
  BY InverseOfGraph
<1>2. inv \notin Reserved
  <2>1. ASSUME inv \in Reserved PROVE inv[1] \in {"HasChildren", "HasComponent", "HasParent", "ComponentOf"}
    BY <2>1 DEF Reserved
  <2> QED BY <1>1, <2>1
<1>3. Opposite(inv) = id /\ Opposite(id) = inv
  BY <1>1, <1>2 DEF Opposite, Reserved
<1>4. \A u \in b.relations : u = <<u[1], u[2], u[3]>> /\ <<u[3], Opposite(u[2]), u[1]>> \in b.relations
  BY RelationOfModel, ModelInverse
<1> DEFINE S == OfId(b.relations, inv)
           T == OfId(b.relations, id)
           f == [u \in S |-> <<u[3], id, u[1]>>]
<1>5. f \in [S -> T]
  <2>1. ASSUME NEW u \in S PROVE <<u[3], id, u[1]>> \in T
    <3>1. u \in b.relations /\ u[2] = inv
      BY DEF OfId
    <3>2. <<u[3], id, u[1]>> \in b.relations
      BY <1>3, <1>4, <3>1
    <3> QED BY <3>2 DEF OfId
  <2> QED BY <2>1
<1>6. ASSUME NEW u \in S, NEW v \in S, f[u] = f[v] PROVE u = v
  <2>1. u \in b.relations /\ v \in b.relations /\ u[2] = inv /\ v[2] = inv
    BY DEF OfId
  <2>2. u[1] = v[1] /\ u[3] = v[3]
    BY <1>6
  <2>3. u = <<u[1], inv, u[3]>> /\ v = <<v[1], inv, v[3]>>
    BY <1>4, <2>1
  <2> HIDE DEF S, T, f
  <2> QED BY <2>2, <2>3
<1>7. ASSUME NEW v \in T PROVE \E u \in S : f[u] = v
  <2>1. v \in b.relations /\ v[2] = id
    BY DEF OfId
  <2>2. v = <<v[1], id, v[3]>> /\ <<v[3], inv, v[1]>> \in b.relations
    BY <1>3, <1>4, <2>1
  <2>3. PICK u : u = <<v[3], inv, v[1]>>
    OBVIOUS
  <2>4. u \in S /\ u[1] = v[3] /\ u[3] = v[1]
    BY <2>2, <2>3 DEF OfId
  <2>5. f[u] = <<v[1], id, v[3]>>
    BY <2>4
  <2> QED BY <2>2, <2>4, <2>5
<1>8. IsFiniteSet(S)
  BY RelationsFinite
<1> HIDE DEF S, T, f
<1>9. Cardinality(T) = Cardinality(S)
  BY <1>5, <1>6, <1>7, <1>8, SameSize
<1> QED BY <1>9 DEF S, T

\* The figures fit together.
LEMMA ModelMetrics ==
  ASSUME NEW b, IsModel(b), b.ok, IsFiniteSet(ToSet(b.nodes)),
         \A n \in ToSet(b.nodes) : b.kind[n] \in {"asset", "property", "action"}
  PROVE  LET m == Metrics(b)
             of(id) == IF id \in DOMAIN m.byRelation THEN m.byRelation[id] ELSE 0
         IN  /\ m.total = m.byKind["asset"] + m.byKind["property"] + m.byKind["action"]
             /\ m.hierarchy = of(<<"HasChildren">>) /\ m.hierarchy = of(<<"HasParent">>)
             /\ m.composition = of(<<"HasComponent">>) /\ m.composition = of(<<"ComponentOf">>)
             /\ \A id \in DOMAIN m.byRelation : id[1] = "inverseOf" => m.byRelation[id] = of(Tail(id))
<1> PICK m : m = Metrics(b)
  OBVIOUS
<1> DEFINE nodes == ToSet(b.nodes)
           ids == {t[2] : t \in b.relations}
           of(id) == IF id \in DOMAIN m.byRelation THEN m.byRelation[id] ELSE 0
<1>1. /\ m.total = Cardinality(nodes)
      /\ m.byKind = [k \in {"asset", "property", "action"} |-> Cardinality({n \in nodes : b.kind[n] = k})]
      /\ m.hierarchy = Cardinality({n \in nodes : b.hierarchy[n] # 0})
      /\ m.composition = Cardinality({n \in nodes : b.composition[n] # 0})
      /\ m.byRelation = [id \in ids |-> Cardinality({t \in b.relations : t[2] = id})]
  BY DEF Metrics
<1>2. m.total = m.byKind["asset"] + m.byKind["property"] + m.byKind["action"]
  <2>1. /\ m.byKind["asset"] = Cardinality({n \in nodes : b.kind[n] = "asset"})
        /\ m.byKind["property"] = Cardinality({n \in nodes : b.kind[n] = "property"})
        /\ m.byKind["action"] = Cardinality({n \in nodes : b.kind[n] = "action"})
    BY <1>1
  <2> QED BY <1>1, <2>1, KindsAddUp
<1>3. ASSUME NEW id PROVE of(id) = Cardinality(OfId(b.relations, id))
  <2>1. CASE id \in ids
    BY <1>1, <2>1 DEF OfId
  <2>2. CASE id \notin ids
    <3>1. OfId(b.relations, id) = {}
      BY <2>2 DEF OfId
    <3>2. of(id) = 0
      BY <1>1, <2>2
    <3> QED BY <3>1, <3>2, FS_EmptySet
  <2> QED BY <2>1, <2>2
<1>4. /\ PlaneOnly(b.relations, nodes, b.hierarchy, <<"HasChildren">>, <<"HasParent">>)
      /\ PlaneOnly(b.relations, nodes, b.composition, <<"HasComponent">>, <<"ComponentOf">>)
  BY RelationOfModel, TwoPlanes
<1>5. m.hierarchy = Cardinality(Owned(nodes, b.hierarchy)) /\ m.composition = Cardinality(Owned(nodes, b.composition))
  BY <1>1 DEF Owned
<1>6. /\ Cardinality(OfId(b.relations, <<"HasChildren">>)) = m.hierarchy /\ Cardinality(OfId(b.relations, <<"HasParent">>)) = m.hierarchy
      /\ Cardinality(OfId(b.relations, <<"HasComponent">>)) = m.composition /\ Cardinality(OfId(b.relations, <<"ComponentOf">>)) = m.composition
  BY <1>4, <1>5, PlaneCounts
<1>7. ASSUME NEW id \in DOMAIN m.byRelation, id[1] = "inverseOf" PROVE m.byRelation[id] = of(Tail(id))
  <2>1. PICK t \in b.relations : t[2] = id
    BY <1>1
  <2>2. Cardinality(OfId(b.relations, id)) = Cardinality(OfId(b.relations, Tail(id)))
    BY <1>7, <2>1, InverseCounts
  <2>3. m.byRelation[id] = of(id)
    BY <1>7
  <2> HIDE DEF of
  <2> QED BY <1>3, <2>2, <2>3
<1> QED BY <1>2, <1>3, <1>6, <1>7

\* The objects shown of any model built are its nodes with their own parents and relations,
\* all to be reached from the root objects, and the figures shown of it fit together.
THEOREM ObjectsAreFaithful == ModelSpec => []ObjectsFaithful
<1>1. ModelInv => ObjectsFaithful
  <2> SUFFICES ASSUME ModelInv PROVE ObjectsFaithful
    OBVIOUS
  <2> SUFFICES ASSUME Built PROVE ObjectsFaithful
    BY DEF ObjectsFaithful, ObjectsNavigable, ParentIdAgrees, MetricsAddUp
  <2> PICK m, b : m = input.m /\ b = input.b
    OBVIOUS
  <2>1. IsBrowsed(m) /\ b = Build(m) /\ b.ok
    BY DEF Built, ModelInv
  <2>2. IsModel(b) /\ b.nodes = m.nodes
    BY <2>1, BuildIsModel
  <2>3. ObjectsNavigable
    BY <2>1, <2>2, ModelNavigable DEF ObjectsNavigable
  <2>4. ParentIdAgrees
    BY <2>1, ModelParents DEF ParentIdAgrees
  <2>5. MetricsAddUp
    <3>1. IsFiniteSet(ToSet(b.nodes))
      BY <2>1, <2>2, NodesFinite DEF IsBrowsed
    <3>2. \A n \in ToSet(b.nodes) : b.kind[n] \in {"asset", "property", "action"}
      BY <2>1, BuildObjects
    <3> QED BY <2>1, <2>2, <3>1, <3>2, ModelMetrics DEF MetricsAddUp
  <2> QED BY <2>3, <2>4, <2>5 DEF ObjectsFaithful
<1> QED BY <1>1, ModelInductive, PTL
=============================================================================
