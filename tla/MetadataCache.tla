---------------------------- MODULE MetadataCache ----------------------------
(***************************************************************************)
(* The metadata caches of OpcUaClient: operational limits and subscription  *)
(* capabilities (cleared by a reconnect, read again on demand), namespace   *)
(* infos and object types (marked stale by a reconnect or by their age and  *)
(* served while one background load refreshes them).                        *)
(*                                                                          *)
(* Source: i3x_server/infrastructure/opcua/client.py.                       *)
(*                                                                          *)
(* What a load reads is the number of reconnects the server has been        *)
(* through when the load made its first read.  A load is a task of its     *)
(* own: everything between two of its awaits is one action, and callers,    *)
(* reconnects and other loads run in between.                               *)
(***************************************************************************)
EXTENDS Naturals, FiniteSets

CONSTANTS
    Lazy,          \* keys whose entry a reconnect clears
    Limits,        \* the operational limits, which the other loads need
    Kept,          \* keys whose entry is served while it is stale
    Leading,       \* the namespace infos: kept, and read from before the limits are asked for
    Callers,
    Expiring,      \* metadata_cache_ttl_seconds > 0
    MaxLoad,       \* bound of the model: loads ever started
    MaxReconnect,  \* bound of the model: reconnects
    MaxFail,       \* bound of the model: failing loads
    None

ASSUME KeysAssumption == Lazy \cap Kept = {} /\ Limits \in Lazy /\ Leading \subseteq Kept
ASSUME NoneAssumption == None \notin Lazy \cup Kept /\ None \notin [read : Nat, fresh : BOOLEAN]
ASSUME CacheBoundsAssumption == /\ {MaxLoad, MaxReconnect, MaxFail} \subseteq Nat
                                /\ Expiring \in BOOLEAN

Keys  == Lazy \cup Kept
Loads == 1 .. MaxLoad

VARIABLES
    reconnects,  \* finished reconnects of the session
    cache,       \* per key: None or [read, fresh]; read: reconnects seen by its load
    load,        \* every load started: [key, stage, read, limits]; limits: the load it awaits
    task,        \* _metadata_load_tasks: the load in flight of each key, 0 for none
    incident,    \* _stale_metadata_incidents
    wait,        \* per caller: the load it awaits, 0 for none
    failures,
    warm,        \* history: kept keys that have had an entry
    newest       \* history: the newest `read` ever stored, per key

vars == <<reconnects, cache, load, task, incident, wait, failures, warm, newest>>

Stages == {"unused", "started", "leading", "limits", "reading", "stored", "failed", "finished"}
NewLoad(k) == [key |-> k, stage |-> "started", read |-> 0, limits |-> 0]
Running(i) == load[i].stage \in {"started", "leading", "limits", "reading"}
Ended(i)   == load[i].stage \in {"stored", "failed", "finished"}

Init ==
    /\ reconnects = 0
    /\ cache = [k \in Keys |-> None]
    /\ load = [i \in Loads |-> [NewLoad(None) EXCEPT !.stage = "unused"]]
    /\ task = [k \in Keys |-> 0]
    /\ incident = {}
    /\ wait = [c \in Callers |-> 0]
    /\ failures = 0 /\ warm = {} /\ newest = [k \in Keys |-> 0]

-----------------------------------------------------------------------------
(* _start_metadata_load, _coalesce_metadata_load, _get_cached_metadata      *)

Unused == {i \in Loads : load[i].stage = "unused"}
NextLoad == CHOOSE i \in Unused : \A j \in Unused : i <= j
\* Every load of a kept key that has just started may need one for the limits.
Budget(k) == Cardinality({i \in Loads : load[i].stage \in {"started", "leading"} /\ load[i].key \in Kept})
                + Cardinality({k} \cap Kept) < Cardinality(Unused)

\* Fault: every caller starts a load of its own.
StartLoad_each(k) ==
    /\ Budget(k)
    /\ task' = [task EXCEPT ![k] = NextLoad]
    /\ load' = [load EXCEPT ![NextLoad] = NewLoad(k)]
\* The load in flight of this key, a new one if there is none.
StartLoad(k) ==
    IF task[k] # 0 THEN UNCHANGED <<task, load>>
    ELSE /\ Budget(k)
         /\ task' = [task EXCEPT ![k] = NextLoad]
         /\ load' = [load EXCEPT ![NextLoad] = NewLoad(k)]

\* Fault: every load counts as an incident.
GetCold_incident(c, k) ==
    /\ wait[c] = 0 /\ cache[k] = None
    /\ StartLoad(k)
    /\ wait' = [wait EXCEPT ![c] = IF task[k] # 0 /\ Ended(task[k]) THEN 0 ELSE task'[k]]
    /\ incident' = incident \cup {k}
    /\ UNCHANGED <<reconnects, cache, failures, warm, newest>>
\* A cold entry makes the caller wait for the shared load; a load that has ended
\* but not left the table yet answers at once.
GetCold(c, k) ==
    /\ wait[c] = 0 /\ cache[k] = None
    /\ StartLoad(k)
    /\ wait' = [wait EXCEPT ![c] = IF task[k] # 0 /\ Ended(task[k]) THEN 0 ELSE task'[k]]
    /\ UNCHANGED <<reconnects, cache, incident, failures, warm, newest>>

\* A stale entry is returned, and refreshed in the background.
GetStale(c, k) ==
    /\ wait[c] = 0 /\ k \in Kept /\ cache[k] # None /\ ~cache[k].fresh
    /\ StartLoad(k)
    /\ incident' = incident \cup {k}
    /\ UNCHANGED <<reconnects, cache, wait, failures, warm, newest>>

\* Fault: the load is awaited without a shield, and cancelled with its caller.
Cancel_unshielded(c) ==
    /\ wait[c] # 0
    /\ load' = [load EXCEPT ![wait[c]].stage = "finished"]
    /\ task' = [k \in Keys |-> IF task[k] = wait[c] THEN 0 ELSE task[k]]
    /\ wait' = [d \in Callers |-> IF wait[d] = wait[c] THEN 0 ELSE wait[d]]
    /\ UNCHANGED <<reconnects, cache, incident, failures, warm, newest>>
\* The caller's request is cancelled; asyncio.shield keeps the load.
Cancel(c) ==
    /\ wait[c] # 0
    /\ wait' = [wait EXCEPT ![c] = 0]
    /\ UNCHANGED <<reconnects, cache, load, task, incident, failures, warm, newest>>

-----------------------------------------------------------------------------
(* The loaders                                                              *)

\* A load that ends gives its result to everyone who awaits it.
Answer(i) == wait' = [c \in Callers |-> IF wait[c] = i THEN 0 ELSE wait[c]]

\* The loaders of kept keys first look whether the entry is fresh again.  Since
\* loads of a key are not concurrent, it never is: a load this guard stopped
\* would stay in the table (LoadsLeaveTable).
FreshAgain(k) == k \in Kept /\ cache[k] # None /\ cache[k].fresh

\* The first read: of a lazy key, or of the namespace array, before the limits.
LoadBegin(i) ==
    /\ load[i].stage = "started" /\ ~FreshAgain(load[i].key)
    /\ load[i].key \in Lazy \cup Leading
    /\ load' = [load EXCEPT ![i].read = reconnects,
                            ![i].stage = IF load[i].key \in Leading THEN "leading" ELSE "reading"]
    /\ UNCHANGED <<reconnects, cache, task, incident, wait, failures, warm, newest>>

\* A load that goes on to its (other) reads once it has the limits.
Reading(i) == [load[i] EXCEPT !.stage = "reading",
                              !.read = IF load[i].key \in Leading THEN @ ELSE reconnects]

\* The browse of a kept key is sized by the operational limits: cached, or
\* loaded by the shared load, which this load may have to start.
NeedLimits(i) ==
    /\ \/ load[i].stage = "leading"
       \/ load[i].stage = "started" /\ load[i].key \in Kept \ Leading /\ ~FreshAgain(load[i].key)
    /\ \/ /\ cache[Limits] # None
          /\ load' = [load EXCEPT ![i] = Reading(i)]
          /\ UNCHANGED task
       \/ /\ cache[Limits] = None
          /\ LET j == IF task[Limits] = 0 THEN NextLoad ELSE task[Limits] IN
             /\ task' = [task EXCEPT ![Limits] = j]
             /\ load' = [load EXCEPT ![j] = IF task[Limits] = 0 THEN NewLoad(Limits) ELSE @,
                                     ![i].stage = "limits", ![i].limits = j]
    /\ UNCHANGED <<reconnects, cache, incident, wait, failures, warm, newest>>

\* Fault: the load waits for the entry of the limits instead of their load.
LimitsKnown_entry(i) ==
    /\ load[i].stage = "limits" /\ cache[Limits] # None
    /\ load' = [load EXCEPT ![i] = Reading(i)]
    /\ UNCHANGED <<reconnects, cache, task, incident, wait, failures, warm, newest>>
\* The limits have been loaded (their load never raises).
LimitsKnown(i) ==
    /\ load[i].stage = "limits"
    /\ Ended(load[i].limits)
    /\ load' = [load EXCEPT ![i] = Reading(i)]
    /\ UNCHANGED <<reconnects, cache, task, incident, wait, failures, warm, newest>>

\* The entry a load leaves: fresh from now on, whatever happened since its reads.
Stored(i) == [read |-> load[i].read, fresh |-> TRUE]

\* The load stores its entry.  The loads of lazy keys never raise: what they
\* could not read is cached as an unknown limit.
LoadStore(i) ==
    /\ load[i].stage = "reading"
    /\ LET k == load[i].key IN
       /\ cache' = [cache EXCEPT ![k] = Stored(i)]
       /\ warm' = warm \cup ({k} \cap Kept)
       /\ newest' = [newest EXCEPT ![k] = IF load[i].read > @ THEN load[i].read ELSE @]
    /\ load' = [load EXCEPT ![i].stage = "stored"]
    /\ Answer(i)
    /\ UNCHANGED <<reconnects, task, incident, failures>>

\* The read of the namespace array, or the browse of another kept key, raises,
\* and so does the call of everyone who awaits the load.
LoadFail(i) ==
    /\ \/ load[i].stage = "leading"
       \/ load[i].stage = "reading" /\ load[i].key \in Kept \ Leading
    /\ failures < MaxFail
    /\ failures' = failures + 1
    /\ load' = [load EXCEPT ![i].stage = "failed"]
    /\ Answer(i)
    /\ UNCHANGED <<reconnects, cache, task, incident, warm, newest>>

\* Fault: a failed load stays in the table.
FinishLoad_keep(i) ==
    /\ load[i].stage \in {"stored", "failed"}
    /\ task' = [k \in Keys |-> IF task[k] = i /\ load[i].stage = "stored" THEN 0 ELSE task[k]]
    /\ incident' = IF load[i].stage = "stored" THEN incident \ {load[i].key} ELSE incident
    /\ load' = [load EXCEPT ![i].stage = "finished"]
    /\ UNCHANGED <<reconnects, cache, wait, failures, warm, newest>>
\* Fault: the incident is kept when the load ends.
FinishLoad_open(i) ==
    /\ load[i].stage \in {"stored", "failed"}
    /\ task' = [k \in Keys |-> IF task[k] = i THEN 0 ELSE task[k]]
    /\ load' = [load EXCEPT ![i].stage = "finished"]
    /\ UNCHANGED <<reconnects, cache, incident, wait, failures, warm, newest>>
\* _finish_metadata_load, the done callback: one turn of the event loop later.
FinishLoad(i) ==
    /\ load[i].stage \in {"stored", "failed"}
    /\ task' = [k \in Keys |-> IF task[k] = i THEN 0 ELSE task[k]]
    /\ incident' = IF load[i].stage = "stored" THEN incident \ {load[i].key} ELSE incident
    /\ load' = [load EXCEPT ![i].stage = "finished"]
    /\ UNCHANGED <<reconnects, cache, wait, failures, warm, newest>>

-----------------------------------------------------------------------------
(* Age and reconnect                                                        *)

Expire(k) ==
    /\ Expiring /\ k \in Kept /\ cache[k] # None /\ cache[k].fresh
    /\ cache' = [cache EXCEPT ![k].fresh = FALSE]
    /\ UNCHANGED <<reconnects, load, task, incident, wait, failures, warm, newest>>

\* Fault: a reconnect clears the lazy keys and forgets the kept ones.
Invalidated_lazy(k) == IF k \in Lazy THEN None ELSE cache[k]
\* Fault: a reconnect clears every entry.
Invalidated_clear(k) == None
\* _invalidate_metadata_entry for the kept keys; the lazy ones are cleared.
Invalidated(k) == IF k \in Lazy \/ cache[k] = None THEN None
                  ELSE [cache[k] EXCEPT !.fresh = FALSE]

\* _on_asyncua_reconnected.
Reconnect ==
    /\ reconnects < MaxReconnect
    /\ reconnects' = reconnects + 1
    /\ cache' = [k \in Keys |-> Invalidated(k)]
    /\ UNCHANGED <<load, task, incident, wait, failures, warm, newest>>

-----------------------------------------------------------------------------

LoadStep(i) == LoadBegin(i) \/ NeedLimits(i) \/ LimitsKnown(i) \/ LoadStore(i) \/ FinishLoad(i)

Next ==
    \/ \E c \in Callers : Cancel(c) \/ \E k \in Keys : GetCold(c, k) \/ GetStale(c, k)
    \/ \E i \in Loads : LoadStep(i) \/ LoadFail(i)
    \/ \E k \in Keys : Expire(k)
    \/ Reconnect

Spec == Init /\ [][Next]_vars

\* A load runs on, its requests are answered, and the event loop calls its callback.
FairSpec == Spec /\ \A i \in Loads : WF_vars(LoadStep(i))

-----------------------------------------------------------------------------
(* Correctness                                                              *)

TypeOK ==
    /\ reconnects \in Nat /\ failures \in Nat
    /\ cache \in [Keys -> [read : Nat, fresh : BOOLEAN] \cup {None}]
    /\ load \in [Loads -> [key : Keys \cup {None}, stage : Stages, read : Nat, limits : Loads \cup {0}]]
    /\ task \in [Keys -> Loads \cup {0}]
    /\ incident \subseteq Kept /\ warm \subseteq Kept
    /\ wait \in [Callers -> Loads \cup {0}]
    /\ newest \in [Keys -> Nat]

\* "Share one in-flight OPC UA metadata load between concurrent callers": no two
\* loads of a key run at the same time, whoever starts them (a caller, the
\* refresh of a stale entry, a load that needs the limits).
OneLoadPerKey ==
    \A i, j \in Loads :
       Running(i) /\ Running(j) /\ load[i].key = load[j].key => i = j

\* An entry is never replaced by one that was read before it: loads of a key do
\* not overtake each other, over any number of reconnects.
NeverReplacedByOlder ==
    \A k \in Keys : cache[k] # None => cache[k].read = newest[k]

\* "Only a cold cache waits for OPC UA": once a kept key has had an entry, no
\* caller waits for it any more, not even after a reconnect.
WarmKeysNeverBlock ==
    \A c \in Callers : wait[c] # 0 => load[wait[c]].key \notin warm

\* A stale incident is open only while the entry is not fresh or its load runs.
IncidentIsOpen ==
    \A k \in incident : \/ cache[k] = None \/ ~cache[k].fresh
                        \/ task[k] # 0

\* The cache is safe to share: loads of a key never overlap or overtake each other, who
\* asks for a warm key does not wait, and a reconnect counts as handled only when its
\* refresh is done.
CacheSafe == TypeOK /\ OneLoadPerKey /\ NeverReplacedByOlder /\ WarmKeysNeverBlock /\ IncidentIsOpen

\* asyncio.shield: a caller stops waiting because its load has ended, or because
\* it alone was cancelled; its going away touches no load and no other caller.
CancelledAlone ==
    [][\A c \in Callers : wait[c] # 0 /\ wait'[c] # wait[c] =>
          \/ load'[wait[c]].stage \in {"stored", "failed"}
          \/ load' = load /\ \A d \in Callers \ {c} : wait'[d] = wait[d]]_vars

\* Whoever waits for a load is answered, whatever its load needs and whoever else
\* is cancelled.
CallersAnswered == \A c \in Callers : (wait[c] # 0) ~> (wait[c] = 0)

\* A failed or finished load leaves the table, so that the next caller can try
\* again: no key is stuck with a dead load.
LoadsLeaveTable == \A k \in Keys : (task[k] # 0) ~> (task[k] = 0)

\* Loads end, for those who wait for them and for those who will ask again.
LoadsEnd == CallersAnswered /\ LoadsLeaveTable

\* "caches are invalidated on reconnect": a reconnect leaves no entry that passes for
\* fresh, whatever callers and loads are doing, and what was read before it passes for
\* fresh afterwards only when a load that was under way during the reconnect stores it.
OldOnlyFromSpanningLoad ==
    [][\A k \in Keys :
         cache'[k] # None /\ cache'[k].fresh /\ cache'[k].read < reconnects' =>
            \/ reconnects' = reconnects /\ cache'[k] = cache[k]
            \/ \E i \in Loads : /\ load[i].stage = "reading" /\ load'[i].stage = "stored"
                                /\ load[i].key = k]_vars

=============================================================================
