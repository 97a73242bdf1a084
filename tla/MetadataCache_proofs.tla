------------------------ MODULE MetadataCache_proofs -------------------------
(***************************************************************************)
(* Theorems about MetadataCache, for every set of keys and callers and any  *)
(* number of loads, reconnects and failures.                                *)
(***************************************************************************)
EXTENDS MetadataCache, Lemmas

-----------------------------------------------------------------------------
(* The inductive invariant                                                  *)

\* The load has been created and its done callback has not run.
Active(i) == load[i].stage \notin {"unused", "finished"}

\* The table of loads and the loads agree: exactly the active loads are in it, each
\* under its own key.
TableInv ==
    /\ \A i \in Loads : Active(i) => load[i].key \in Keys /\ task[load[i].key] = i
    /\ \A k \in Keys : task[k] # 0 => Active(task[k]) /\ load[task[k]].key = k

\* Only the namespace infos are read from before the limits are asked for, and only a
\* kept key asks for them.
StageInv ==
    /\ \A i \in Loads : load[i].stage = "leading" => load[i].key \in Leading
    /\ \A i \in Loads : load[i].stage = "limits" => load[i].key \in Kept

\* While a load runs, or has failed, its key has no fresh entry.
NotFreshInv ==
    \A i \in Loads : Running(i) \/ load[i].stage = "failed" =>
       cache[load[i].key] = None \/ ~cache[load[i].key].fresh

\* A load that has begun to read.
HasRead(i) == \/ load[i].stage = "reading"
              \/ load[i].stage \in {"leading", "limits"} /\ load[i].key \in Leading

\* Nothing has been read after the last reconnect counted, and a load that has begun
\* to read has read no earlier than the load of any entry its key has had.
ReadInv ==
    /\ \A k \in Keys : newest[k] <= reconnects
    /\ \A i \in Loads : HasRead(i) => newest[load[i].key] <= load[i].read
    /\ \A i \in Loads : load[i].read <= reconnects

\* A kept key that had an entry has one, and who waits, waits for a running load.
WaitInv ==
    /\ \A k \in warm : cache[k] # None
    /\ \A c \in Callers : wait[c] # 0 => Running(wait[c])

\* Loads that may still have to start one for the limits.
Asking == {i \in Loads : load[i].stage \in {"started", "leading"} /\ load[i].key \in Kept}

\* There is a load left for each of them (the bound of the model is never in the way).
BudgetInv == Cardinality(Asking) <= Cardinality(Unused)

CacheInv == /\ TypeOK /\ TableInv /\ StageInv /\ NotFreshInv /\ ReadInv /\ WaitInv
            /\ BudgetInv /\ NeverReplacedByOlder /\ WarmKeysNeverBlock /\ IncidentIsOpen

-----------------------------------------------------------------------------
(* Lemmas about the loads                                                   *)

LoadRecord == [key : Keys \cup {None}, stage : Stages, read : Nat, limits : Loads \cup {0}]

\* A load that has just been created, and what it is not.
LEMMA NewLoadRecord ==
  ASSUME NEW k \in Keys \cup {None}
  PROVE  /\ NewLoad(k) \in LoadRecord
         /\ NewLoad(k).key = k /\ NewLoad(k).stage = "started"
         /\ NewLoad(k).read = 0 /\ NewLoad(k).limits = 0
BY DEF NewLoad, LoadRecord, Stages

\* Sets of loads are finite.
LEMMA LoadsFinite ==
  ASSUME NEW S \in SUBSET Loads
  PROVE  IsFiniteSet(S) /\ Cardinality(S) \in Nat
<1>1. IsFiniteSet(Loads)
  BY FS_Interval, CacheBoundsAssumption DEF Loads
<1> QED BY <1>1, FS_Subset, FS_CardinalityType

\* The next load is an unused one as long as there is one.
LEMMA NextLoadUnused ==
  ASSUME Unused # {} PROVE NextLoad \in Unused
<1>1. Unused \in SUBSET Nat
  BY CacheBoundsAssumption DEF Unused, Loads
<1>2. \E i \in Unused : \A j \in Unused : i <= j
  <2> HIDE DEF Unused
  <2> QED BY <1>1, MinExists
<1> QED BY <1>2 DEF NextLoad

\* A load that moves on without becoming one that asks for the limits leaves the budget.
LEMMA BudgetKept ==
  ASSUME BudgetInv, Asking' \in SUBSET Asking, Unused' = Unused
  PROVE  BudgetInv'
<1>1. /\ IsFiniteSet(Asking) /\ Cardinality(Asking) \in Nat /\ Cardinality(Unused) \in Nat
      /\ Cardinality(Asking') \in Nat
  <2>1. Asking \in SUBSET Loads /\ Unused \in SUBSET Loads /\ Asking' \in SUBSET Loads
    BY DEF Asking, Unused
  <2> QED BY <2>1, LoadsFinite
<1>2. Cardinality(Asking') <= Cardinality(Asking)
  BY <1>1, FS_Subset
<1>3. Cardinality(Asking') <= Cardinality(Unused')
  BY <1>1, <1>2 DEF BudgetInv
<1> QED BY <1>3 DEF BudgetInv

\* The budget with which a load may be started leaves one for the limits.
LEMMA BudgetStart ==
  ASSUME NEW k \in Keys, Budget(k) PROVE Unused # {}
<1>1. Cardinality(Asking) \in Nat /\ Cardinality({k} \cap Kept) \in Nat
  <2>1. Asking \in SUBSET Loads /\ IsFiniteSet({k} \cap Kept)
    <3>1. IsFiniteSet({k})
      BY FS_Singleton
    <3> QED BY <3>1, FS_Subset DEF Asking
  <2> QED BY <2>1, LoadsFinite, FS_CardinalityType
<1>2. Cardinality(Asking) + Cardinality({k} \cap Kept) < Cardinality(Unused)
  BY DEF Budget, Asking
<1>3. Cardinality(Unused) # 0
  <2>1. Unused \in SUBSET Loads
    BY DEF Unused
  <2>2. Cardinality(Unused) \in Nat
    BY <2>1, LoadsFinite
  <2> QED BY <1>1, <1>2, <2>2
<1> QED BY <1>3, FS_EmptySet

\* Starting a load within its budget leaves one load for each that asks for the limits.
LEMMA BudgetAfterStart ==
  ASSUME NEW k \in Keys, Budget(k), NEW n \in Unused,
         Unused' = Unused \ {n},
         Asking' \in SUBSET (Asking \cup (IF k \in Kept THEN {n} ELSE {}))
  PROVE  BudgetInv'
<1>1. /\ IsFiniteSet(Asking) /\ Cardinality(Asking) \in Nat
      /\ IsFiniteSet(Unused) /\ Cardinality(Unused) \in Nat
  <2>1. Asking \in SUBSET Loads /\ Unused \in SUBSET Loads
    BY DEF Asking, Unused
  <2> QED BY <2>1, LoadsFinite
<1>2. Cardinality(Unused') = Cardinality(Unused) - 1
  BY <1>1, FS_RemoveElement
<1>3. Cardinality(Asking) + Cardinality({k} \cap Kept) < Cardinality(Unused)
  BY DEF Budget, Asking
<1>4. CASE k \in Kept
  <2>1. {k} \cap Kept = {k} /\ Cardinality({k}) = 1
    BY <1>4, FS_Singleton
  <2>2. /\ IsFiniteSet(Asking \cup {n})
        /\ Cardinality(Asking \cup {n}) \in Nat
        /\ Cardinality(Asking \cup {n}) = Cardinality(Asking) + 1
    <3>1. n \notin Asking
      BY DEF Asking, Unused
    <3> QED BY <1>1, <3>1, FS_AddElement, FS_CardinalityType
  <2>3. Asking' \in SUBSET (Asking \cup {n})
    BY <1>4
  <2>4. Cardinality(Asking') <= Cardinality(Asking \cup {n}) /\ Cardinality(Asking') \in Nat
    BY <2>2, <2>3, FS_Subset, FS_CardinalityType
  <2>5. Cardinality({k} \cap Kept) = 1
    BY <2>1
  <2>6. Cardinality(Asking') <= Cardinality(Unused')
    BY <1>1, <1>2, <1>3, <2>2, <2>4, <2>5
  <2> QED BY <2>6 DEF BudgetInv
<1>5. CASE k \notin Kept
  <2>1. {k} \cap Kept = {} /\ Cardinality({}) = 0
    BY <1>5, FS_EmptySet
  <2>2. Asking' \in SUBSET Asking
    BY <1>5
  <2>3. Cardinality(Asking') <= Cardinality(Asking) /\ Cardinality(Asking') \in Nat
    BY <1>1, <2>2, FS_Subset, FS_CardinalityType
  <2>4. Cardinality({k} \cap Kept) = 0
    BY <2>1
  <2>5. Cardinality(Asking') <= Cardinality(Unused')
    BY <1>1, <1>2, <1>3, <2>3, <2>4
  <2> QED BY <2>5 DEF BudgetInv
<1> QED BY <1>4, <1>5

\* A load that asks for the limits finds an unused load for them, and once it has
\* started that load it asks no more.
LEMMA BudgetForLimits ==
  ASSUME BudgetInv, NEW i \in Asking
  PROVE  /\ Unused # {}
         /\ \A n \in Unused :
               Unused' = Unused \ {n} /\ Asking' \in SUBSET (Asking \ {i}) => BudgetInv'
<1>1. /\ IsFiniteSet(Asking) /\ Cardinality(Asking) \in Nat
      /\ IsFiniteSet(Unused) /\ Cardinality(Unused) \in Nat
  <2>1. Asking \in SUBSET Loads /\ Unused \in SUBSET Loads
    BY DEF Asking, Unused
  <2> QED BY <2>1, LoadsFinite
<1>2. /\ IsFiniteSet(Asking \ {i}) /\ Cardinality(Asking \ {i}) = Cardinality(Asking) - 1
      /\ Cardinality(Asking \ {i}) \in Nat
  BY <1>1, FS_RemoveElement, FS_CardinalityType
<1>3. Unused # {}
  BY <1>1, <1>2, FS_EmptySet DEF BudgetInv
<1>4. ASSUME NEW n \in Unused, Unused' = Unused \ {n}, Asking' \in SUBSET (Asking \ {i})
      PROVE  BudgetInv'
  <2>1. Cardinality(Unused') = Cardinality(Unused) - 1
    BY <1>1, <1>4, FS_RemoveElement
  <2>2. Cardinality(Asking') <= Cardinality(Asking \ {i}) /\ Cardinality(Asking') \in Nat
    BY <1>2, <1>4, FS_Subset, FS_CardinalityType
  <2>3. Cardinality(Asking') <= Cardinality(Unused')
    BY <1>1, <1>2, <2>1, <2>2 DEF BudgetInv
  <2> QED BY <2>3 DEF BudgetInv
<1> QED BY <1>3, <1>4

-----------------------------------------------------------------------------
(* Every step keeps the invariant                                           *)

\* Initially there is no load and no entry.
LEMMA InitCacheInv == Init => CacheInv
<1> SUFFICES ASSUME Init PROVE CacheInv
  OBVIOUS
<1>1. \A i \in Loads : /\ load[i] \in LoadRecord /\ load[i].stage = "unused"
                       /\ load[i].key = None /\ load[i].read = 0
  BY DEF Init, NewLoad, LoadRecord, Stages
<1>2. TypeOK
  BY <1>1 DEF Init, TypeOK, LoadRecord
<1>3. BudgetInv
  <2>1. Asking = {}
    BY <1>1 DEF Asking
  <2>2. Unused \in SUBSET Loads
    BY DEF Unused
  <2>3. Cardinality(Asking) = 0 /\ Cardinality(Unused) \in Nat
    BY <2>1, <2>2, LoadsFinite, FS_EmptySet
  <2> QED BY <2>3 DEF BudgetInv
<1>4. /\ TableInv /\ StageInv /\ NotFreshInv /\ WaitInv
      /\ NeverReplacedByOlder /\ WarmKeysNeverBlock /\ IncidentIsOpen
  BY <1>1 DEF Init, TableInv, Active, StageInv, NotFreshInv, Running, WaitInv,
              NeverReplacedByOlder, WarmKeysNeverBlock, IncidentIsOpen
<1>5. ReadInv
  BY <1>1 DEF Init, ReadInv, HasRead
<1> QED BY <1>2, <1>3, <1>4, <1>5 DEF CacheInv

\* A load goes on to its next stage and nothing else changes.
LEMMA AdvanceKeeps ==
  ASSUME CacheInv, NEW i \in Loads, NEW r \in LoadRecord, Running(i),
         load' = [load EXCEPT ![i] = r],
         r.key = load[i].key, r.stage \in {"leading", "limits", "reading"},
         r.read <= reconnects,
         r.stage = "leading" => load[i].stage = "started" /\ r.key \in Leading,
         r.stage = "limits" => r.key \in Kept,
         r.stage = "reading" \/ r.key \in Leading => newest[r.key] <= r.read,
         UNCHANGED <<reconnects, cache, task, incident, wait, failures, warm, newest>>
  PROVE  CacheInv'
<1>1. load \in [Loads -> LoadRecord]
  BY DEF CacheInv, TypeOK, LoadRecord
<1>2. load' \in [Loads -> LoadRecord] /\ load'[i] = r
      /\ \A j \in Loads : j # i => load'[j] = load[j]
  BY <1>1
<1>3. TypeOK'
  BY <1>2 DEF CacheInv, TypeOK, LoadRecord
<1>4. TableInv' /\ StageInv'
  <2>1. \A j \in Loads : /\ Active(j)' <=> Active(j)
                         /\ load'[j].key = load[j].key
    BY <1>2 DEF Active, Running
  <2>2. TableInv'
    BY <2>1 DEF CacheInv, TableInv, TypeOK
  <2>3. StageInv'
    BY <1>2, <2>1 DEF CacheInv, StageInv
  <2> QED BY <2>2, <2>3
<1>5. NotFreshInv' /\ ReadInv'
  BY <1>2 DEF CacheInv, NotFreshInv, ReadInv, HasRead, Running
<1>6. WaitInv' /\ WarmKeysNeverBlock'
  BY <1>2 DEF CacheInv, WaitInv, WarmKeysNeverBlock, Running, TypeOK
<1>7. NeverReplacedByOlder' /\ IncidentIsOpen'
  BY DEF CacheInv, NeverReplacedByOlder, IncidentIsOpen
<1>8. BudgetInv'
  <2>1. Unused' = Unused
    BY <1>2 DEF Unused, Running
  <2>2. Asking' \in SUBSET Asking
    BY <1>2 DEF Asking
  <2> QED BY <2>1, <2>2, BudgetKept DEF CacheInv
<1> QED BY <1>3, <1>4, <1>5, <1>6, <1>7, <1>8 DEF CacheInv

\* The first read of a load.
LEMMA LoadBeginKeeps == ASSUME CacheInv, NEW i \in Loads, LoadBegin(i) PROVE CacheInv'
<1> DEFINE r == [load[i] EXCEPT !.read = reconnects,
                    !.stage = IF load[i].key \in Leading THEN "leading" ELSE "reading"]
<1>1. load[i] \in LoadRecord /\ reconnects \in Nat /\ load \in [Loads -> LoadRecord]
  BY DEF CacheInv, TypeOK, LoadRecord
<1>2. /\ r \in LoadRecord /\ r.key = load[i].key /\ r.read = reconnects
      /\ r.stage = IF load[i].key \in Leading THEN "leading" ELSE "reading"
  BY <1>1 DEF LoadRecord, Stages
<1>3. load' = [load EXCEPT ![i] = r]
  BY <1>1 DEF LoadBegin
<1>4. newest[r.key] <= reconnects
  BY <1>2 DEF LoadBegin, CacheInv, ReadInv, TableInv, Active
<1>5. Running(i) /\ load[i].stage = "started"
  BY DEF LoadBegin, Running
<1>6. UNCHANGED <<reconnects, cache, task, incident, wait, failures, warm, newest>>
  BY DEF LoadBegin
<1> HIDE DEF r
<1>7. /\ r.stage \in {"leading", "limits", "reading"} /\ r.read <= reconnects
      /\ r.stage = "leading" => load[i].stage = "started" /\ r.key \in Leading
      /\ r.stage = "limits" => r.key \in Kept
      /\ r.stage = "reading" \/ r.key \in Leading => newest[r.key] <= r.read
  BY <1>1, <1>2, <1>4, <1>5
<1> QED BY <1>2, <1>3, <1>5, <1>6, <1>7, AdvanceKeeps

\* A load goes on to its reads, whether the limits were cached or have been loaded.
LEMMA ReadingKeeps ==
  ASSUME CacheInv, NEW i \in Loads,
         load[i].stage \in {"started", "leading", "limits"}, load[i].key \in Kept,
         load[i].stage = "started" => load[i].key \notin Leading,
         load' = [load EXCEPT ![i] = Reading(i)],
         UNCHANGED <<reconnects, cache, task, incident, wait, failures, warm, newest>>
  PROVE  CacheInv'
<1>1. load[i] \in LoadRecord /\ reconnects \in Nat
  BY DEF CacheInv, TypeOK, LoadRecord
<1>2. /\ Reading(i) \in LoadRecord /\ Reading(i).key = load[i].key
      /\ Reading(i).stage = "reading"
      /\ Reading(i).read = IF load[i].key \in Leading THEN load[i].read ELSE reconnects
  BY <1>1 DEF Reading, LoadRecord, Stages
<1>3. /\ load[i].read <= reconnects /\ newest[load[i].key] <= reconnects
      /\ load[i].key \in Leading => newest[load[i].key] <= load[i].read
  BY DEF CacheInv, ReadInv, HasRead, Keys
<1>4. Running(i)
  BY DEF Running
<1> DEFINE r == Reading(i)
<1>5. /\ r \in LoadRecord /\ r.key = load[i].key /\ load' = [load EXCEPT ![i] = r]
      /\ r.stage \in {"leading", "limits", "reading"} /\ r.read <= reconnects
      /\ r.stage = "leading" => load[i].stage = "started" /\ r.key \in Leading
      /\ r.stage = "limits" => r.key \in Kept
      /\ r.stage = "reading" \/ r.key \in Leading => newest[r.key] <= r.read
  BY <1>1, <1>2, <1>3
<1> HIDE DEF r
<1> QED BY <1>4, <1>5, AdvanceKeeps

\* A load that ends answers its callers; only its own key can be affected.
LEMMA LoadStoreKeeps == ASSUME CacheInv, NEW i \in Loads, LoadStore(i) PROVE CacheInv'
<1> DEFINE k == load[i].key
           r == [load[i] EXCEPT !.stage = "stored"]
<1>1. /\ load \in [Loads -> LoadRecord] /\ load[i] \in LoadRecord
      /\ cache \in [Keys -> [read : Nat, fresh : BOOLEAN] \cup {None}]
      /\ newest \in [Keys -> Nat] /\ wait \in [Callers -> Loads \cup {0}]
      /\ load[i].stage = "reading"
  BY DEF CacheInv, TypeOK, LoadRecord, LoadStore
<1>2. k \in Keys /\ task[k] = i /\ Running(i) /\ HasRead(i)
  BY <1>1 DEF CacheInv, TableInv, Active, Running, HasRead
<1>3. /\ r \in LoadRecord /\ r.key = k /\ r.stage = "stored" /\ r.read = load[i].read
  BY <1>1 DEF LoadRecord, Stages
<1>4. /\ load'[i] = r /\ \A j \in Loads : j # i => load'[j] = load[j]
      /\ load' \in [Loads -> LoadRecord]
  BY <1>1, <1>3 DEF LoadStore
<1>5. Stored(i) \in [read : Nat, fresh : BOOLEAN] /\ Stored(i).read = load[i].read
      /\ Stored(i) # None
  <2>1. load[i].read \in Nat
    BY <1>1 DEF LoadRecord
  <2>2. Stored(i) \in [read : Nat, fresh : BOOLEAN] /\ Stored(i).read = load[i].read
    BY <2>1 DEF Stored
  <2> QED BY <2>2, NoneAssumption
<1>6. newest[k] <= load[i].read
  BY <1>2 DEF CacheInv, ReadInv
<1>7. /\ cache' = [cache EXCEPT ![k] = Stored(i)]
      /\ warm' = warm \cup ({k} \cap Kept)
      /\ newest' = [newest EXCEPT ![k] = load[i].read]
      /\ UNCHANGED <<reconnects, task, incident, failures>>
      /\ \A c \in Callers : wait'[c] = IF wait[c] = i THEN 0 ELSE wait[c]
      /\ wait' \in [Callers -> Loads \cup {0}]
  <2>1. load[i].read \in Nat /\ newest[k] \in Nat
    BY <1>1, <1>2 DEF LoadRecord
  <2>2. (IF load[i].read > newest[k] THEN load[i].read ELSE newest[k]) = load[i].read
    BY <1>6, <2>1
  <2>3. newest' = [newest EXCEPT ![k] = load[i].read]
    BY <1>1, <1>2, <2>2 DEF LoadStore
  <2> QED BY <1>1, <2>3 DEF LoadStore, Answer
<1>8. \A j \in Loads : Active(j) /\ load[j].key = k => j = i
  BY <1>2 DEF CacheInv, TableInv
<1> HIDE DEF r, k
<1>9. TypeOK'
  <2>1. cache' \in [Keys -> [read : Nat, fresh : BOOLEAN] \cup {None}]
    BY <1>1, <1>5, <1>7
  <2>2. newest' \in [Keys -> Nat]
    BY <1>1, <1>7 DEF LoadRecord
  <2>3. load' \in [Loads -> [key : Keys \cup {None}, stage : Stages, read : Nat,
                             limits : Loads \cup {0}]]
    BY <1>4 DEF LoadRecord
  <2>4. warm' \subseteq Kept
    BY <1>7 DEF CacheInv, TypeOK
  <2> QED BY <1>7, <2>1, <2>2, <2>3, <2>4 DEF CacheInv, TypeOK
<1>10. TableInv' /\ StageInv'
  <2>1. \A j \in Loads : /\ Active(j)' <=> Active(j)
                         /\ load'[j].key = load[j].key
    BY <1>1, <1>3, <1>4 DEF Active, k
  <2>2. TableInv'
    BY <1>7, <2>1 DEF CacheInv, TableInv, TypeOK
  <2>3. StageInv'
    BY <1>3, <1>4, <2>1 DEF CacheInv, StageInv
  <2> QED BY <2>2, <2>3
<1>11. NotFreshInv'
  <2> SUFFICES ASSUME NEW j \in Loads, Running(j)' \/ load'[j].stage = "failed"
               PROVE  cache'[load'[j].key] = None \/ ~cache'[load'[j].key].fresh
    BY DEF NotFreshInv
  <2>1. j # i /\ load'[j] = load[j]
    BY <1>3, <1>4 DEF Running
  <2>2. Running(j) \/ load[j].stage = "failed"
    BY <2>1 DEF Running
  <2>3. load[j].key # k /\ load[j].key \in Keys
    BY <1>8, <2>1, <2>2 DEF Active, Running, CacheInv, TableInv
  <2>4. cache'[load[j].key] = cache[load[j].key]
    BY <1>1, <1>7, <2>3
  <2> QED BY <2>1, <2>2, <2>4 DEF CacheInv, NotFreshInv
<1>12. ReadInv'
  <2>1. \A q \in Keys : newest'[q] = IF q = k THEN load[i].read ELSE newest[q]
    BY <1>1, <1>7
  <2>2. load[i].read <= reconnects
    BY DEF CacheInv, ReadInv
  <2>3. \A q \in Keys : newest'[q] <= reconnects'
    BY <1>7, <2>1, <2>2 DEF CacheInv, ReadInv
  <2>4. \A j \in Loads : load'[j].read <= reconnects'
    BY <1>3, <1>4, <1>7 DEF CacheInv, ReadInv
  <2>5. ASSUME NEW j \in Loads, HasRead(j)' PROVE newest'[load'[j].key] <= load'[j].read
    <3>1. j # i /\ load'[j] = load[j] /\ HasRead(j)
      BY <1>3, <1>4, <2>5 DEF HasRead
    <3>2. load[j].key # k /\ load[j].key \in Keys
      BY <1>8, <3>1 DEF Active, HasRead, CacheInv, TableInv
    <3> QED BY <2>1, <3>1, <3>2 DEF CacheInv, ReadInv
  <2> QED BY <2>3, <2>4, <2>5 DEF ReadInv
<1>13. WaitInv' /\ WarmKeysNeverBlock'
  <2>1. \A q \in warm' : cache'[q] # None
    BY <1>1, <1>2, <1>5, <1>7 DEF CacheInv, WaitInv, Keys, TypeOK
  <2>2. ASSUME NEW c \in Callers, wait'[c] # 0
        PROVE  /\ load'[wait'[c]].stage \in {"started", "leading", "limits", "reading"}
               /\ load'[wait'[c]].key \notin warm'
    <3>1. /\ wait'[c] = wait[c] /\ wait[c] # i /\ wait[c] \in Loads /\ Running(wait[c])
          /\ load[wait[c]].key \notin warm
      BY <1>1, <1>7, <2>2 DEF CacheInv, WaitInv, WarmKeysNeverBlock
    <3>2. load'[wait'[c]] = load[wait[c]]
      BY <1>4, <3>1
    <3>3. load[wait[c]].key # k
      BY <1>8, <3>1 DEF Active, Running
    <3> QED BY <1>7, <3>1, <3>2, <3>3 DEF Running
  <2> QED BY <2>1, <2>2 DEF WaitInv, WarmKeysNeverBlock, Running
<1>14. NeverReplacedByOlder'
  BY <1>1, <1>2, <1>5, <1>7 DEF CacheInv, NeverReplacedByOlder
<1>15. IncidentIsOpen'
  <2> SUFFICES ASSUME NEW q \in incident
               PROVE  cache'[q] = None \/ ~cache'[q].fresh \/ task[q] # 0
    BY <1>7 DEF IncidentIsOpen
  <2>1. CASE q = k
    BY <1>2, <2>1, CacheBoundsAssumption DEF Loads
  <2>2. CASE q # k
    <3>1. cache'[q] = cache[q]
      BY <1>1, <1>7, <2>2 DEF CacheInv, TypeOK, Keys
    <3> QED BY <3>1 DEF CacheInv, IncidentIsOpen
  <2> QED BY <2>1, <2>2
<1>16. BudgetInv'
  <2>1. Unused' = Unused
    BY <1>1, <1>3, <1>4 DEF Unused
  <2>2. Asking' \in SUBSET Asking
    BY <1>3, <1>4 DEF Asking
  <2> QED BY <2>1, <2>2, BudgetKept DEF CacheInv
<1> QED BY <1>9, <1>10, <1>11, <1>12, <1>13, <1>14, <1>15, <1>16 DEF CacheInv

\* A load that fails answers its callers and leaves the cache alone.
LEMMA LoadFailKeeps == ASSUME CacheInv, NEW i \in Loads, LoadFail(i) PROVE CacheInv'
<1> DEFINE r == [load[i] EXCEPT !.stage = "failed"]
<1>1. /\ load \in [Loads -> LoadRecord] /\ load[i] \in LoadRecord
      /\ wait \in [Callers -> Loads \cup {0}]
      /\ load[i].stage \in {"leading", "reading"} /\ Running(i)
  BY DEF CacheInv, TypeOK, LoadRecord, LoadFail, Running
<1>2. /\ r \in LoadRecord /\ r.key = load[i].key /\ r.stage = "failed"
      /\ r.read = load[i].read
  BY <1>1 DEF LoadRecord, Stages
<1>3. /\ load'[i] = r /\ \A j \in Loads : j # i => load'[j] = load[j]
      /\ load' \in [Loads -> LoadRecord]
  BY <1>1, <1>2 DEF LoadFail
<1>4. /\ \A c \in Callers : wait'[c] = IF wait[c] = i THEN 0 ELSE wait[c]
      /\ wait' \in [Callers -> Loads \cup {0}]
      /\ UNCHANGED <<reconnects, cache, task, incident, warm, newest>>
      /\ failures' \in Nat
  BY <1>1 DEF LoadFail, Answer, CacheInv, TypeOK
<1> HIDE DEF r
<1>5. TypeOK'
  BY <1>3, <1>4 DEF CacheInv, TypeOK, LoadRecord
<1>6. TableInv' /\ StageInv'
  <2>1. \A j \in Loads : /\ Active(j)' <=> Active(j)
                         /\ load'[j].key = load[j].key
    BY <1>1, <1>2, <1>3 DEF Active
  <2>2. TableInv'
    BY <1>4, <2>1 DEF CacheInv, TableInv, TypeOK
  <2>3. StageInv'
    BY <1>2, <1>3, <2>1 DEF CacheInv, StageInv
  <2> QED BY <2>2, <2>3
<1>7. NotFreshInv' /\ ReadInv'
  BY <1>1, <1>2, <1>3, <1>4 DEF CacheInv, NotFreshInv, ReadInv, HasRead, Running
<1>8. WaitInv' /\ WarmKeysNeverBlock'
  BY <1>1, <1>3, <1>4 DEF CacheInv, WaitInv, WarmKeysNeverBlock, Running
<1>9. NeverReplacedByOlder' /\ IncidentIsOpen'
  BY <1>4 DEF CacheInv, NeverReplacedByOlder, IncidentIsOpen
<1>10. BudgetInv'
  <2>1. Unused' = Unused
    BY <1>1, <1>2, <1>3 DEF Unused
  <2>2. Asking' \in SUBSET Asking
    BY <1>2, <1>3 DEF Asking
  <2> QED BY <2>1, <2>2, BudgetKept DEF CacheInv
<1> QED BY <1>5, <1>6, <1>7, <1>8, <1>9, <1>10 DEF CacheInv

\* The done callback takes the load out of the table and closes the incident if the load
\* has stored an entry.
LEMMA FinishLoadKeeps == ASSUME CacheInv, NEW i \in Loads, FinishLoad(i) PROVE CacheInv'
<1> DEFINE k == load[i].key
           r == [load[i] EXCEPT !.stage = "finished"]
<1>1. /\ load \in [Loads -> LoadRecord] /\ load[i] \in LoadRecord
      /\ task \in [Keys -> Loads \cup {0}]
      /\ load[i].stage \in {"stored", "failed"}
  BY DEF CacheInv, TypeOK, LoadRecord, FinishLoad
<1>2. k \in Keys /\ task[k] = i /\ Active(i) /\ ~Running(i) /\ i # 0
  BY <1>1, CacheBoundsAssumption DEF CacheInv, TableInv, Active, Running, Loads
<1>3. r \in LoadRecord /\ r.key = k /\ r.stage = "finished" /\ r.read = load[i].read
  BY <1>1 DEF LoadRecord, Stages
<1>4. /\ load'[i] = r /\ \A j \in Loads : j # i => load'[j] = load[j]
      /\ load' \in [Loads -> LoadRecord]
  BY <1>1, <1>3 DEF FinishLoad
<1>5. \A q \in Keys : task[q] = i => q = k
  BY <1>2 DEF CacheInv, TableInv
<1>6. /\ task' \in [Keys -> Loads \cup {0}]
      /\ task'[k] = 0 /\ \A q \in Keys : q # k => task'[q] = task[q]
      /\ incident' = IF load[i].stage = "stored" THEN incident \ {k} ELSE incident
      /\ UNCHANGED <<reconnects, cache, wait, failures, warm, newest>>
  BY <1>1, <1>2, <1>5 DEF FinishLoad
<1> HIDE DEF r, k
<1>7. TypeOK'
  BY <1>4, <1>6 DEF CacheInv, TypeOK, LoadRecord
<1>8. TableInv' /\ StageInv'
  <2>1. ASSUME NEW j \in Loads, Active(j)'
        PROVE  load'[j].key \in Keys /\ task'[load'[j].key] = j
    <3>1. j # i /\ load'[j] = load[j] /\ Active(j)
      BY <1>3, <1>4, <2>1 DEF Active
    <3>2. load[j].key \in Keys /\ task[load[j].key] = j
      BY <3>1 DEF CacheInv, TableInv
    <3> QED BY <1>2, <1>6, <3>1, <3>2
  <2>2. ASSUME NEW q \in Keys, task'[q] # 0
        PROVE  /\ load'[task'[q]].stage \notin {"unused", "finished"}
               /\ load'[task'[q]].key = q
    <3>1. q # k /\ task'[q] = task[q] /\ task[q] # i /\ task[q] \in Loads
      BY <1>1, <1>5, <1>6, <2>2
    <3>2. load'[task'[q]] = load[task[q]]
      BY <1>4, <3>1
    <3> QED BY <2>2, <3>1, <3>2 DEF CacheInv, TableInv, Active
  <2>3. StageInv'
    BY <1>3, <1>4 DEF CacheInv, StageInv
  <2> QED BY <2>1, <2>2, <2>3 DEF TableInv, Active
<1>9. NotFreshInv' /\ ReadInv'
  BY <1>3, <1>4, <1>6 DEF CacheInv, NotFreshInv, ReadInv, HasRead, Running
<1>10. WaitInv' /\ WarmKeysNeverBlock'
  BY <1>2, <1>4, <1>6 DEF CacheInv, WaitInv, WarmKeysNeverBlock, Running, TypeOK
<1>11. NeverReplacedByOlder'
  BY <1>6 DEF CacheInv, NeverReplacedByOlder
<1>12. IncidentIsOpen'
  <2> SUFFICES ASSUME NEW q \in incident'
               PROVE  cache[q] = None \/ ~cache[q].fresh \/ task'[q] # 0
    BY <1>6 DEF IncidentIsOpen
  <2>1. q \in incident /\ q \in Keys
    BY <1>6 DEF CacheInv, TypeOK, Keys
  <2>2. CASE q = k
    <3>1. load[i].stage = "failed"
      BY <1>1, <1>6, <2>2
    <3> QED BY <2>2, <3>1 DEF CacheInv, NotFreshInv, k
  <2>3. CASE q # k
    BY <1>6, <2>1, <2>3 DEF CacheInv, IncidentIsOpen
  <2> QED BY <2>2, <2>3
<1>13. BudgetInv'
  <2>1. Unused' = Unused
    BY <1>1, <1>3, <1>4 DEF Unused
  <2>2. Asking' \in SUBSET Asking
    BY <1>3, <1>4 DEF Asking
  <2> QED BY <2>1, <2>2, BudgetKept DEF CacheInv
<1> QED BY <1>7, <1>8, <1>9, <1>10, <1>11, <1>12, <1>13 DEF CacheInv

\* What a step that creates the load n of key k leaves of the loads that were there.
\* Every part of the invariant but the budget and the callers follows; a
\* load that asks for the limits may move on in the same step.
LEMMA StartKeeps ==
  ASSUME CacheInv, NEW k \in Keys, NEW n \in Unused, task[k] = 0,
         cache[k] = None \/ ~cache[k].fresh,
         task' = [task EXCEPT ![k] = n],
         load' \in [Loads -> LoadRecord], load'[n] = NewLoad(k),
         \A j \in Loads : j # n => \/ load'[j] = load[j]
                                   \/ /\ load[j].stage \in {"started", "leading"}
                                      /\ load'[j].stage = "limits"
                                      /\ load[j].key \in Kept
                                      /\ load[j].stage = "started" => load[j].key \notin Leading
                                      /\ load'[j].key = load[j].key
                                      /\ load'[j].read = load[j].read,
         UNCHANGED <<reconnects, cache, failures, warm, newest>>
  PROVE  /\ TableInv' /\ StageInv' /\ NotFreshInv' /\ ReadInv' /\ NeverReplacedByOlder'
         /\ \A c \in Callers : wait[c] # 0 =>
               /\ load'[wait[c]].stage \in {"started", "leading", "limits", "reading"}
               /\ load'[wait[c]].key \notin warm
         /\ \A q \in Keys : task[q] # 0 => task'[q] # 0
<1>1. /\ load \in [Loads -> LoadRecord] /\ task \in [Keys -> Loads \cup {0}]
      /\ wait \in [Callers -> Loads \cup {0}] /\ reconnects \in Nat /\ newest \in [Keys -> Nat]
  BY DEF CacheInv, TypeOK, LoadRecord
<1>2. n \in Loads /\ n # 0 /\ load[n].stage = "unused"
  BY CacheBoundsAssumption DEF Unused, Loads
<1>3. /\ load'[n].key = k /\ load'[n].stage = "started"
      /\ load'[n].read = 0
  BY NewLoadRecord
<1>4. ASSUME NEW j \in Loads, j # n
      PROVE  /\ Active(j)' <=> Active(j)
             /\ load'[j].key = load[j].key /\ load'[j].read = load[j].read
             /\ load'[j].stage \in {"started", "leading", "limits", "reading"} <=> Running(j)
             /\ load'[j].stage = "failed" <=> load[j].stage = "failed"
             /\ load'[j].stage = load[j].stage \/ (load'[j].stage = "limits" /\ load[j].key \in Kept)
             /\ HasRead(j)' => HasRead(j)
  BY <1>4 DEF Active, Running, HasRead
<1>5. /\ task'[k] = n /\ \A q \in Keys : q # k => task'[q] = task[q]
  BY <1>1
<1>6. TableInv'
  <2>1. ASSUME NEW j \in Loads, Active(j)'
        PROVE  load'[j].key \in Keys /\ task'[load'[j].key] = j
    <3>1. CASE j = n
      BY <1>3, <1>5, <3>1
    <3>2. CASE j # n
      <4>1. Active(j) /\ load'[j].key = load[j].key
        BY <1>4, <2>1, <3>2
      <4>2. load[j].key \in Keys /\ task[load[j].key] = j /\ j # 0
        BY <4>1, CacheBoundsAssumption DEF CacheInv, TableInv, Loads
      <4> QED BY <1>5, <4>1, <4>2
    <3> QED BY <3>1, <3>2
  <2>2. ASSUME NEW q \in Keys, task'[q] # 0
        PROVE  /\ load'[task'[q]].stage \notin {"unused", "finished"}
               /\ load'[task'[q]].key = q
    <3>1. CASE q = k
      BY <1>3, <1>5, <3>1
    <3>2. CASE q # k
      <4>1. task'[q] = task[q] /\ task[q] \in Loads /\ Active(task[q]) /\ load[task[q]].key = q
        BY <1>1, <1>5, <2>2, <3>2 DEF CacheInv, TableInv
      <4>2. task[q] # n
        BY <1>2, <4>1 DEF Active
      <4> QED BY <1>4, <4>1, <4>2 DEF Active
    <3> QED BY <3>1, <3>2
  <2> QED BY <2>1, <2>2 DEF TableInv, Active
<1>7. StageInv'
  BY <1>3, <1>4 DEF CacheInv, StageInv
<1>8. NotFreshInv'
  BY <1>3, <1>4 DEF CacheInv, NotFreshInv, Running
<1>9. ReadInv'
  <2>1. ~HasRead(n)'
    BY <1>3 DEF HasRead
  <2> QED BY <1>1, <1>3, <1>4, <2>1 DEF CacheInv, ReadInv
<1>10. NeverReplacedByOlder'
  BY DEF CacheInv, NeverReplacedByOlder
<1>11. ASSUME NEW c \in Callers, wait[c] # 0
       PROVE  /\ load'[wait[c]].stage \in {"started", "leading", "limits", "reading"}
              /\ load'[wait[c]].key \notin warm
  <2>1. wait[c] \in Loads /\ Running(wait[c]) /\ load[wait[c]].key \notin warm
    BY <1>1, <1>11 DEF CacheInv, WaitInv, WarmKeysNeverBlock
  <2>2. wait[c] # n
    BY <1>2, <2>1 DEF Running
  <2> QED BY <1>4, <2>1, <2>2
<1> QED BY <1>2, <1>5, <1>6, <1>7, <1>8, <1>9, <1>10, <1>11

\* _start_metadata_load: the load in flight of the key, or a new one.
LEMMA StartLoadKeeps ==
  ASSUME CacheInv, NEW k \in Keys, StartLoad(k),
         cache[k] = None \/ ~cache[k].fresh,
         UNCHANGED <<reconnects, cache, failures, warm, newest>>
  PROVE  /\ TableInv' /\ StageInv' /\ NotFreshInv' /\ ReadInv' /\ NeverReplacedByOlder'
         /\ BudgetInv'
         /\ load' \in [Loads -> LoadRecord] /\ task' \in [Keys -> Loads \cup {0}]
         /\ \A c \in Callers : wait[c] # 0 =>
               /\ load'[wait[c]].stage \in {"started", "leading", "limits", "reading"}
               /\ load'[wait[c]].key \notin warm
         /\ \A q \in Keys : task[q] # 0 => task'[q] # 0
         /\ task'[k] \in Loads /\ load'[task'[k]].key = k
         /\ \/ task[k] # 0 /\ UNCHANGED <<load, task>> /\ Active(task[k])
            \/ task[k] = 0 /\ load'[task'[k]].stage = "started"
<1>1. /\ load \in [Loads -> LoadRecord] /\ task \in [Keys -> Loads \cup {0}]
      /\ wait \in [Callers -> Loads \cup {0}]
  BY DEF CacheInv, TypeOK, LoadRecord
<1>2. CASE task[k] # 0
  <2>1. UNCHANGED <<load, task>>
    BY <1>2 DEF StartLoad
  <2>2. Active(task[k]) /\ load[task[k]].key = k
    BY <1>2 DEF CacheInv, TableInv
  <2>3. TableInv' /\ StageInv' /\ NotFreshInv' /\ ReadInv' /\ NeverReplacedByOlder'
    BY <2>1 DEF CacheInv, TableInv, StageInv, NotFreshInv, ReadInv, NeverReplacedByOlder,
                Active, Running, HasRead
  <2>4. BudgetInv'
    <3>1. Asking' = Asking /\ Unused' = Unused
      BY <2>1 DEF Asking, Unused
    <3> QED BY <3>1, BudgetKept DEF CacheInv
  <2>5. \A c \in Callers : wait[c] # 0 =>
               /\ load'[wait[c]].stage \in {"started", "leading", "limits", "reading"}
               /\ load'[wait[c]].key \notin warm
    BY <2>1 DEF CacheInv, WaitInv, WarmKeysNeverBlock, Running
  <2> QED BY <1>1, <1>2, <2>1, <2>2, <2>3, <2>4, <2>5
<1>3. CASE task[k] = 0
  <2> DEFINE n == NextLoad
  <2>1. /\ Budget(k) /\ task' = [task EXCEPT ![k] = n]
        /\ load' = [load EXCEPT ![n] = NewLoad(k)]
    BY <1>3 DEF StartLoad
  <2>2. n \in Unused /\ n \in Loads
    BY <2>1, BudgetStart, NextLoadUnused DEF Unused
  <2> HIDE DEF n
  <2>3. /\ load' \in [Loads -> LoadRecord] /\ load'[n] = NewLoad(k)
        /\ \A j \in Loads : j # n => load'[j] = load[j]
    BY <1>1, <2>1, <2>2, NewLoadRecord
  <2>4. task' \in [Keys -> Loads \cup {0}] /\ task'[k] = n
    BY <1>1, <2>1, <2>2
  <2>5. load'[n].key = k /\ load'[n].stage = "started"
    BY <2>3, NewLoadRecord
  <2>6. BudgetInv'
    <3>1. Unused' = Unused \ {n}
      BY <2>2, <2>3, <2>5 DEF Unused
    <3>2. Asking' \in SUBSET (Asking \cup (IF k \in Kept THEN {n} ELSE {}))
      BY <2>3, <2>5 DEF Asking
    <3> QED BY <2>1, <2>2, <3>1, <3>2, BudgetAfterStart
  <2>7. /\ TableInv' /\ StageInv' /\ NotFreshInv' /\ ReadInv' /\ NeverReplacedByOlder'
        /\ \A c \in Callers : wait[c] # 0 =>
              /\ load'[wait[c]].stage \in {"started", "leading", "limits", "reading"}
              /\ load'[wait[c]].key \notin warm
        /\ \A q \in Keys : task[q] # 0 => task'[q] # 0
    BY <1>3, <2>1, <2>2, <2>3, StartKeeps
  <2> QED BY <1>3, <2>2, <2>3, <2>4, <2>5, <2>6, <2>7
<1> QED BY <1>2, <1>3

\* A caller of a cold key waits for the load in flight.
LEMMA GetColdKeeps ==
  ASSUME CacheInv, NEW c \in Callers, NEW k \in Keys, GetCold(c, k) PROVE CacheInv'
<1>1. /\ cache[k] = None /\ StartLoad(k)
      /\ wait' = [wait EXCEPT ![c] = IF task[k] # 0 /\ Ended(task[k]) THEN 0 ELSE task'[k]]
      /\ UNCHANGED <<reconnects, cache, incident, failures, warm, newest>>
  BY DEF GetCold
<1>2. /\ TableInv' /\ StageInv' /\ NotFreshInv' /\ ReadInv' /\ NeverReplacedByOlder'
      /\ BudgetInv'
      /\ load' \in [Loads -> LoadRecord] /\ task' \in [Keys -> Loads \cup {0}]
      /\ \A d \in Callers : wait[d] # 0 =>
            /\ load'[wait[d]].stage \in {"started", "leading", "limits", "reading"}
            /\ load'[wait[d]].key \notin warm
      /\ \A q \in Keys : task[q] # 0 => task'[q] # 0
      /\ task'[k] \in Loads /\ load'[task'[k]].key = k
      /\ \/ task[k] # 0 /\ UNCHANGED <<load, task>> /\ Active(task[k])
         \/ task[k] = 0 /\ load'[task'[k]].stage = "started"
  BY <1>1, StartLoadKeeps
<1>3. wait \in [Callers -> Loads \cup {0}] /\ load \in [Loads -> LoadRecord]
  BY DEF CacheInv, TypeOK, LoadRecord
<1>4. /\ wait' \in [Callers -> Loads \cup {0}]
      /\ \A d \in Callers : d # c => wait'[d] = wait[d]
      /\ wait'[c] = IF task[k] # 0 /\ Ended(task[k]) THEN 0 ELSE task'[k]
  BY <1>1, <1>2, <1>3
<1>5. TypeOK'
  BY <1>1, <1>2, <1>4 DEF CacheInv, TypeOK, LoadRecord
<1>6. k \notin warm
  BY <1>1 DEF CacheInv, WaitInv
<1>7. wait'[c] # 0 => /\ load'[wait'[c]].stage \in {"started", "leading", "limits", "reading"}
                      /\ load'[wait'[c]].key \notin warm
  <2>1. CASE task[k] = 0
    BY <1>2, <1>4, <1>6, <2>1
  <2>2. CASE task[k] # 0 /\ ~Ended(task[k])
    <3>1. task[k] = task'[k] /\ load' = load /\ Active(task[k]) /\ load[task[k]].stage \in Stages
      BY <1>2, <1>3, <2>2 DEF LoadRecord
    <3> QED BY <1>2, <1>4, <1>6, <2>2, <3>1 DEF Active, Ended, Stages
  <2>3. CASE task[k] # 0 /\ Ended(task[k])
    BY <1>4, <2>3
  <2> QED BY <2>1, <2>2, <2>3
<1>8. WaitInv' /\ WarmKeysNeverBlock'
  BY <1>1, <1>2, <1>4, <1>7 DEF CacheInv, WaitInv, WarmKeysNeverBlock, Running
<1>9. IncidentIsOpen'
  BY <1>1, <1>2 DEF CacheInv, IncidentIsOpen, TypeOK, Keys
<1> QED BY <1>2, <1>5, <1>8, <1>9 DEF CacheInv

\* A caller of a stale key gets the entry and opens an incident.
LEMMA GetStaleKeeps ==
  ASSUME CacheInv, NEW c \in Callers, NEW k \in Keys, GetStale(c, k) PROVE CacheInv'
<1>1. /\ k \in Kept /\ ~cache[k].fresh /\ StartLoad(k)
      /\ incident' = incident \cup {k}
      /\ UNCHANGED <<reconnects, cache, wait, failures, warm, newest>>
  BY DEF GetStale
<1>2. /\ TableInv' /\ StageInv' /\ NotFreshInv' /\ ReadInv' /\ NeverReplacedByOlder'
      /\ BudgetInv'
      /\ load' \in [Loads -> LoadRecord] /\ task' \in [Keys -> Loads \cup {0}]
      /\ \A d \in Callers : wait[d] # 0 =>
            /\ load'[wait[d]].stage \in {"started", "leading", "limits", "reading"}
            /\ load'[wait[d]].key \notin warm
      /\ \A q \in Keys : task[q] # 0 => task'[q] # 0
  BY <1>1, StartLoadKeeps
<1>3. TypeOK'
  BY <1>1, <1>2 DEF CacheInv, TypeOK, LoadRecord
<1>4. WaitInv' /\ WarmKeysNeverBlock'
  BY <1>1, <1>2 DEF CacheInv, WaitInv, WarmKeysNeverBlock, Running
<1>5. IncidentIsOpen'
  BY <1>1, <1>2 DEF CacheInv, IncidentIsOpen, TypeOK, Keys
<1> QED BY <1>2, <1>3, <1>4, <1>5 DEF CacheInv

\* A load that needs the limits: they are cached, being loaded, or a load is started.
LEMMA NeedLimitsKeeps == ASSUME CacheInv, NEW i \in Loads, NeedLimits(i) PROVE CacheInv'
<1>1. /\ load[i].stage \in {"started", "leading"} /\ load[i].key \in Kept
      /\ load[i].stage = "started" => load[i].key \notin Leading
      /\ UNCHANGED <<reconnects, cache, incident, wait, failures, warm, newest>>
  BY KeysAssumption DEF NeedLimits, CacheInv, StageInv
<1>2. /\ load \in [Loads -> LoadRecord] /\ load[i] \in LoadRecord
      /\ task \in [Keys -> Loads \cup {0}] /\ Limits \in Keys /\ Limits \notin Kept
      /\ wait \in [Callers -> Loads \cup {0}]
  BY KeysAssumption DEF CacheInv, TypeOK, LoadRecord, Keys
<1>3. CASE cache[Limits] # None
  BY <1>1, <1>3, ReadingKeeps DEF NeedLimits
<1>4. CASE cache[Limits] = None /\ task[Limits] # 0
  <2> DEFINE j == task[Limits]
             r == [load[i] EXCEPT !.stage = "limits", !.limits = j]
  <2>1. j \in Loads /\ load[j].key = Limits /\ j # i
    BY <1>1, <1>2, <1>4 DEF CacheInv, TableInv
  <2>2. /\ task' = [task EXCEPT ![Limits] = j]
        /\ load' = [load EXCEPT ![j] = load[j], ![i].stage = "limits", ![i].limits = j]
    BY <1>4 DEF NeedLimits
  <2>3. UNCHANGED task
    BY <1>2, <2>2
  <2>4. load' = [load EXCEPT ![i] = r]
    BY <1>2, <2>1, <2>2
  <2>5. /\ r \in LoadRecord /\ r.key = load[i].key /\ r.stage = "limits"
        /\ r.read = load[i].read
    BY <1>2, <2>1 DEF LoadRecord, Stages
  <2>6. /\ load[i].read <= reconnects
        /\ load[i].key \in Leading => newest[load[i].key] <= load[i].read
    BY <1>1 DEF CacheInv, ReadInv, HasRead
  <2>7. Running(i)
    BY <1>1 DEF Running
  <2> HIDE DEF r, j
  <2>8. /\ r.stage \in {"leading", "limits", "reading"} /\ r.read <= reconnects
        /\ r.stage = "leading" => load[i].stage = "started" /\ r.key \in Leading
        /\ r.stage = "limits" => r.key \in Kept
        /\ r.stage = "reading" \/ r.key \in Leading => newest[r.key] <= r.read
    BY <1>1, <2>5, <2>6
  <2> QED BY <1>1, <2>3, <2>4, <2>5, <2>7, <2>8, AdvanceKeeps
<1>5. CASE cache[Limits] = None /\ task[Limits] = 0
  <2> DEFINE n == NextLoad
             r == [load[i] EXCEPT !.stage = "limits", !.limits = n]
  <2>1. i \in Asking
    BY <1>1 DEF Asking
  <2>2. n \in Unused /\ n \in Loads /\ n # i
    BY <1>1, <2>1, BudgetForLimits, NextLoadUnused DEF CacheInv, Unused
  <2>3. /\ task' = [task EXCEPT ![Limits] = n]
        /\ load' = [load EXCEPT ![n] = NewLoad(Limits), ![i].stage = "limits", ![i].limits = n]
    BY <1>5 DEF NeedLimits
  <2>4. NewLoad(Limits) \in LoadRecord
    BY <1>2, NewLoadRecord
  <2>5. /\ r \in LoadRecord /\ r.key = load[i].key /\ r.stage = "limits"
        /\ r.read = load[i].read
    BY <1>2, <2>2 DEF LoadRecord, Stages
  <2>6. /\ load' \in [Loads -> LoadRecord] /\ load'[n] = NewLoad(Limits) /\ load'[i] = r
        /\ \A j \in Loads : j # n /\ j # i => load'[j] = load[j]
    BY <1>2, <2>2, <2>3, <2>4, <2>5
  <2>7. load'[n].key = Limits /\ load'[n].stage = "started"
    BY <1>2, <2>6, NewLoadRecord
  <2> HIDE DEF r, n
  <2>8. BudgetInv'
    <3>1. Unused' = Unused \ {n}
      BY <1>1, <2>2, <2>5, <2>6, <2>7 DEF Unused
    <3>2. Asking' \in SUBSET (Asking \ {i})
      BY <1>2, <2>2, <2>5, <2>6, <2>7 DEF Asking
    <3> QED BY <2>1, <2>2, <3>1, <3>2, BudgetForLimits DEF CacheInv
  <2>9. \A j \in Loads : j # n => \/ load'[j] = load[j]
                                  \/ /\ load[j].stage \in {"started", "leading"}
                                     /\ load'[j].stage = "limits"
                                     /\ load[j].key \in Kept
                                     /\ load[j].stage = "started" => load[j].key \notin Leading
                                     /\ load'[j].key = load[j].key
                                     /\ load'[j].read = load[j].read
    BY <1>1, <2>5, <2>6
  <2>10. /\ TableInv' /\ StageInv' /\ NotFreshInv' /\ ReadInv' /\ NeverReplacedByOlder'
         /\ \A c \in Callers : wait[c] # 0 =>
               /\ load'[wait[c]].stage \in {"started", "leading", "limits", "reading"}
               /\ load'[wait[c]].key \notin warm
         /\ \A q \in Keys : task[q] # 0 => task'[q] # 0
    BY <1>1, <1>2, <1>5, <2>2, <2>3, <2>6, <2>9, StartKeeps
  <2>11. task' \in [Keys -> Loads \cup {0}]
    BY <1>2, <2>2, <2>3
  <2>12. TypeOK'
    BY <1>1, <2>6, <2>11 DEF CacheInv, TypeOK, LoadRecord
  <2>13. WaitInv' /\ WarmKeysNeverBlock'
    BY <1>1, <2>10 DEF CacheInv, WaitInv, WarmKeysNeverBlock, Running
  <2>14. IncidentIsOpen'
    BY <1>1, <2>10 DEF CacheInv, IncidentIsOpen, TypeOK, Keys
  <2> QED BY <2>8, <2>10, <2>12, <2>13, <2>14 DEF CacheInv
<1> QED BY <1>3, <1>4, <1>5

\* A step that changes neither the loads nor the table, and no fresh entry appears.
LEMMA EntriesKeep ==
  ASSUME CacheInv, UNCHANGED <<load, task, incident, failures, warm, newest>>,
         cache' \in [Keys -> [read : Nat, fresh : BOOLEAN] \cup {None}],
         \A k \in Keys : \/ cache'[k] = cache[k]
                         \/ k \in Lazy /\ cache'[k] = None
                         \/ /\ cache[k] # None /\ cache'[k] # None
                            /\ cache'[k].read = cache[k].read /\ ~cache'[k].fresh,
         wait' \in [Callers -> Loads \cup {0}],
         \A c \in Callers : wait'[c] = wait[c] \/ wait'[c] = 0,
         reconnects' \in Nat, reconnects <= reconnects'
  PROVE  CacheInv'
<1>1. TypeOK'
  BY DEF CacheInv, TypeOK
<1>2. TableInv' /\ StageInv'
  BY DEF CacheInv, TableInv, StageInv, Active
<1>3. NotFreshInv'
  <2> SUFFICES ASSUME NEW i \in Loads, Running(i) \/ load[i].stage = "failed"
               PROVE  cache'[load[i].key] = None \/ ~cache'[load[i].key].fresh
    BY DEF NotFreshInv, Running
  <2>1. load[i].key \in Keys /\ (cache[load[i].key] = None \/ ~cache[load[i].key].fresh)
    BY DEF CacheInv, TableInv, Active, NotFreshInv, Running
  <2> QED BY <2>1
<1>4. ReadInv'
  BY DEF CacheInv, ReadInv, HasRead, TypeOK
<1>5. WaitInv' /\ WarmKeysNeverBlock'
  <2>1. \A k \in warm : cache'[k] # None
    BY KeysAssumption DEF CacheInv, WaitInv, TypeOK, Keys
  <2> QED BY <2>1 DEF CacheInv, WaitInv, WarmKeysNeverBlock, Running
<1>6. NeverReplacedByOlder' /\ IncidentIsOpen'
  BY DEF CacheInv, NeverReplacedByOlder, IncidentIsOpen, TypeOK, Keys
<1>7. BudgetInv'
  <2>1. Unused' = Unused /\ Asking' = Asking
    BY DEF Unused, Asking
  <2> QED BY <2>1, BudgetKept DEF CacheInv
<1> QED BY <1>1, <1>2, <1>3, <1>4, <1>5, <1>6, <1>7 DEF CacheInv

\* Every step keeps the invariant.
LEMMA NextCacheInv == CacheInv /\ [Next]_vars => CacheInv'
<1> SUFFICES ASSUME CacheInv, [Next]_vars PROVE CacheInv'
  OBVIOUS
<1>1. /\ cache \in [Keys -> [read : Nat, fresh : BOOLEAN] \cup {None}]
      /\ wait \in [Callers -> Loads \cup {0}] /\ reconnects \in Nat
  BY DEF CacheInv, TypeOK
<1>2. CASE UNCHANGED vars
  BY <1>1, <1>2, EntriesKeep DEF vars
<1>3. ASSUME NEW c \in Callers, Cancel(c) PROVE CacheInv'
  <2>1. /\ wait' \in [Callers -> Loads \cup {0}]
        /\ \A d \in Callers : wait'[d] = wait[d] \/ wait'[d] = 0
        /\ UNCHANGED <<reconnects, cache, load, task, incident, failures, warm, newest>>
    BY <1>1, <1>3 DEF Cancel
  <2> QED BY <1>1, <2>1, EntriesKeep
<1>4. ASSUME NEW k \in Keys, Expire(k) PROVE CacheInv'
  <2> DEFINE e == [cache[k] EXCEPT !.fresh = FALSE]
  <2>1. cache[k] # None /\ cache[k] \in [read : Nat, fresh : BOOLEAN]
    BY <1>1, <1>4 DEF Expire
  <2>2. e \in [read : Nat, fresh : BOOLEAN] /\ e.read = cache[k].read /\ ~e.fresh
    BY <2>1
  <2>3. e # None
    BY <2>2, NoneAssumption
  <2>4. cache' = [cache EXCEPT ![k] = e]
    BY <1>1, <1>4 DEF Expire
  <2>5. UNCHANGED <<reconnects, load, task, incident, wait, failures, warm, newest>>
    BY <1>4 DEF Expire
  <2> HIDE DEF e
  <2>6. /\ cache' \in [Keys -> [read : Nat, fresh : BOOLEAN] \cup {None}]
        /\ cache'[k] = e /\ \A q \in Keys : q # k => cache'[q] = cache[q]
    BY <1>1, <2>2, <2>4
  <2> QED BY <1>1, <2>1, <2>2, <2>3, <2>5, <2>6, EntriesKeep
<1>5. CASE Reconnect
  <2>1. /\ reconnects' = reconnects + 1 /\ cache' = [k \in Keys |-> Invalidated(k)]
        /\ UNCHANGED <<load, task, incident, wait, failures, warm, newest>>
    BY <1>5 DEF Reconnect
  <2>2. ASSUME NEW k \in Keys
        PROVE  /\ Invalidated(k) \in [read : Nat, fresh : BOOLEAN] \cup {None}
               /\ \/ Invalidated(k) = cache[k]
                  \/ k \in Lazy /\ Invalidated(k) = None
                  \/ /\ cache[k] # None /\ Invalidated(k) # None
                     /\ Invalidated(k).read = cache[k].read /\ ~Invalidated(k).fresh
    <3>1. CASE k \in Lazy \/ cache[k] = None
      BY <3>1 DEF Invalidated
    <3>2. CASE ~(k \in Lazy \/ cache[k] = None)
      <4>1. cache[k] \in [read : Nat, fresh : BOOLEAN]
        BY <1>1, <3>2
      <4>2. Invalidated(k) = [cache[k] EXCEPT !.fresh = FALSE]
        BY <3>2 DEF Invalidated
      <4>3. /\ Invalidated(k) \in [read : Nat, fresh : BOOLEAN]
            /\ Invalidated(k).read = cache[k].read /\ ~Invalidated(k).fresh
        BY <4>1, <4>2
      <4>4. Invalidated(k) # None
        BY <4>3, NoneAssumption
      <4> QED BY <3>2, <4>3, <4>4
    <3> QED BY <3>1, <3>2
  <2>3. /\ cache' \in [Keys -> [read : Nat, fresh : BOOLEAN] \cup {None}]
        /\ \A k \in Keys : \/ cache'[k] = cache[k]
                           \/ k \in Lazy /\ cache'[k] = None
                           \/ /\ cache[k] # None /\ cache'[k] # None
                              /\ cache'[k].read = cache[k].read /\ ~cache'[k].fresh
    BY <2>1, <2>2
  <2> QED BY <1>1, <2>1, <2>3, EntriesKeep
<1>6. ASSUME NEW i \in Loads, LimitsKnown(i) PROVE CacheInv'
  <2>1. load[i].stage = "limits" /\ load[i].key \in Kept
    BY <1>6 DEF LimitsKnown, CacheInv, StageInv
  <2> QED BY <1>6, <2>1, ReadingKeeps DEF LimitsKnown
<1> QED BY <1>2, <1>3, <1>4, <1>5, <1>6, GetColdKeeps, GetStaleKeeps, LoadBeginKeeps,
           NeedLimitsKeeps, LoadStoreKeeps, LoadFailKeeps, FinishLoadKeeps
        DEF Next, LoadStep

-----------------------------------------------------------------------------
(* The theorems                                                             *)

\* The invariant holds throughout.
LEMMA CacheInvariant == Spec => []CacheInv
BY InitCacheInv, NextCacheInv, PTL DEF Spec

\* The metadata cache can be shared: no two loads of a key overlap, no entry is replaced
\* by an older one, nobody waits for a key that has an entry to serve, and a stale
\* incident is open only while there is something left to refresh.
THEOREM CacheIsSafe == Spec => []CacheSafe
<1>1. CacheInv => OneLoadPerKey
  BY DEF CacheInv, TableInv, Active, Running, OneLoadPerKey
<1>2. CacheInv => CacheSafe
  BY <1>1 DEF CacheInv, CacheSafe
<1> QED BY <1>2, CacheInvariant, PTL

\* asyncio.shield in _coalesce_metadata_load: a caller that goes away takes neither the
\* load nor another caller with it.
THEOREM CallersAreIndependent == Spec => CancelledAlone
<1> DEFINE A == \A c \in Callers : wait[c] # 0 /\ wait'[c] # wait[c] =>
                   \/ load'[wait[c]].stage \in {"stored", "failed"}
                   \/ load' = load /\ \A d \in Callers \ {c} : wait'[d] = wait[d]
<1>1. ASSUME CacheInv, Next PROVE A
  <2> SUFFICES ASSUME NEW c \in Callers, wait[c] # 0, wait'[c] # wait[c]
               PROVE  \/ load'[wait[c]].stage \in {"stored", "failed"}
                      \/ load' = load /\ \A d \in Callers \ {c} : wait'[d] = wait[d]
    OBVIOUS
  <2>1. wait \in [Callers -> Loads \cup {0}] /\ load \in [Loads -> LoadRecord]
    BY <1>1 DEF CacheInv, TypeOK, LoadRecord
  <2>2. ASSUME NEW d \in Callers, NEW k \in Keys, GetCold(d, k) PROVE FALSE
    BY <2>1, <2>2 DEF GetCold
  <2>3. ASSUME NEW i \in Loads, LoadStore(i) \/ LoadFail(i)
        PROVE  load'[wait[c]].stage \in {"stored", "failed"}
    <3>1. wait[c] = i
      BY <2>3 DEF LoadStore, LoadFail, Answer
    <3> QED BY <2>1, <2>3, <3>1 DEF LoadStore, LoadFail, LoadRecord
  <2>4. ASSUME NEW d \in Callers, Cancel(d)
        PROVE  load' = load /\ \A e \in Callers \ {c} : wait'[e] = wait[e]
    BY <2>1, <2>4 DEF Cancel
  <2>5. CASE UNCHANGED wait
    BY <2>5
  <2> QED BY <1>1, <2>2, <2>3, <2>4, <2>5
          DEF Next, LoadStep, GetStale, LoadBegin, NeedLimits, LimitsKnown, FinishLoad,
              Expire, Reconnect
<1>2. CacheInv /\ [Next]_vars => [A]_vars
  BY <1>1
<1> QED BY <1>2, CacheInvariant, PTL DEF Spec, CancelledAlone

\* _on_asyncua_reconnected and the loaders: after a reconnect nothing read before it
\* passes for fresh, except what a load that was reading during the reconnect stores.
THEOREM OldEntriesAreSpanning == Spec => OldOnlyFromSpanningLoad
<1> DEFINE A == \A k \in Keys :
                  cache'[k] # None /\ cache'[k].fresh /\ cache'[k].read < reconnects' =>
                     \/ reconnects' = reconnects /\ cache'[k] = cache[k]
                     \/ \E i \in Loads : /\ load[i].stage = "reading" /\ load'[i].stage = "stored"
                                         /\ load[i].key = k
<1>1. ASSUME CacheInv, Next PROVE A
  <2> SUFFICES ASSUME NEW k \in Keys, cache'[k] # None, cache'[k].fresh,
                      cache'[k].read < reconnects'
               PROVE  \/ reconnects' = reconnects /\ cache'[k] = cache[k]
                      \/ \E i \in Loads : /\ load[i].stage = "reading"
                                          /\ load'[i].stage = "stored" /\ load[i].key = k
    OBVIOUS
  <2>1. /\ cache \in [Keys -> [read : Nat, fresh : BOOLEAN] \cup {None}]
        /\ load \in [Loads -> LoadRecord]
    BY <1>1 DEF CacheInv, TypeOK, LoadRecord
  <2>2. ASSUME NEW i \in Loads, LoadStore(i)
        PROVE  \/ reconnects' = reconnects /\ cache'[k] = cache[k]
               \/ load[i].stage = "reading" /\ load'[i].stage = "stored" /\ load[i].key = k
    BY <2>1, <2>2 DEF LoadStore, LoadRecord
  <2>3. ASSUME NEW q \in Keys, Expire(q) PROVE reconnects' = reconnects /\ cache'[k] = cache[k]
    <3>1. /\ cache[q] \in [read : Nat, fresh : BOOLEAN] /\ UNCHANGED reconnects
          /\ cache' = [cache EXCEPT ![q].fresh = FALSE]
      BY <2>1, <2>3 DEF Expire
    <3>2. k # q
      BY <2>1, <3>1
    <3> QED BY <2>1, <3>1, <3>2
  <2>4. CASE Reconnect
    <3>1. cache'[k] = Invalidated(k)
      BY <2>4 DEF Reconnect
    <3>2. k \notin Lazy /\ cache[k] \in [read : Nat, fresh : BOOLEAN]
      BY <2>1, <3>1 DEF Invalidated
    <3>3. cache'[k] = [cache[k] EXCEPT !.fresh = FALSE]
      BY <3>1, <3>2 DEF Invalidated
    <3> QED BY <3>2, <3>3
  <2>5. CASE UNCHANGED <<reconnects, cache>>
    BY <2>5
  <2> QED BY <1>1, <2>2, <2>3, <2>4, <2>5
          DEF Next, LoadStep, Cancel, GetCold, GetStale, LoadBegin, NeedLimits, LimitsKnown,
              LoadFail, FinishLoad
<1>2. CacheInv /\ [Next]_vars => [A]_vars
  BY <1>1
<1> QED BY <1>2, CacheInvariant, PTL DEF Spec, OldOnlyFromSpanningLoad

=============================================================================
