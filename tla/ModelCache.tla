------------------------------ MODULE ModelCache ------------------------------
(***************************************************************************)
(* The two caches every REST answer is made of: the model (app.state.       *)
(* model_cache) and the object type context (object_type_context_cache),    *)
(* filled by the preload, the periodic refresh, lazy builds of requests,    *)
(* the warm-up and the background refresh of the context, from startup to   *)
(* shutdown; and the revisions a response is tagged with.                   *)
(*                                                                          *)
(* Source: i3x_server/bootstrap/app_factory.py, application/dependencies.py,*)
(* api/v1/objecttype_helpers.py, http_caching.py.                           *)
(*                                                                          *)
(* A model is its content, named by the version of the plant it was read    *)
(* from; a context adds the object types it was made from and what the live *)
(* name lookups of its build returned.  Every await of a task is a point    *)
(* where others run; between two awaits a task is alone.                    *)
(***************************************************************************)
EXTENDS Naturals, FiniteSets

CONSTANTS
    Requests,       \* GET requests; each is repeated for ever
    Preload, Refresh, Warm, Retype,  \* the four background tasks
    Names,          \* what live name lookups may return
    MaxChanges,     \* bound of the model: changes of the address space and the types
    MaxFail,        \* bound of the model: failed builds
    None

ASSUME ModelCacheAssumption ==
    /\ MaxChanges \in Nat /\ MaxFail \in Nat
    /\ {Preload, Refresh, Warm, Retype} \cap Requests = {}
    /\ Preload # Refresh /\ Warm \notin {Preload, Refresh} /\ Retype \notin {Preload, Refresh, Warm}
    /\ None \notin Requests \cup {Preload, Refresh, Warm, Retype}

Background == {Preload, Refresh, Warm, Retype}
Tasks == Requests \cup Background

VARIABLES
    phase,     \* startup, service and the steps of shutdown
    preload,   \* the setting: "off", "background" or "blocking"
    periodic,  \* the setting: is there a refresh interval?
    plant,     \* version of the server's address space
    types,     \* version of the object types the client serves
    cache,     \* model_cache, 0 for none
    ctx,       \* object_type_context_cache: [model, types, names] or None
    modelLock, typeLock,  \* holders of model_lock and object_type_lock
    pc, model, reads,     \* each task: where it is, its model, what its build has read
    fails,
    held,      \* the client: tag and body of the last full response
    last       \* history: what the last response stood for

settingVars == <<preload, periodic>>
cacheVars == <<cache, ctx>>
lockVars  == <<modelLock, typeLock>>
taskVars  == <<pc, model, reads>>
worldVars == <<plant, types, fails>>
httpVars  == <<held, last>>
vars == <<phase, settingVars, worldVars, cacheVars, lockVars, taskVars, httpVars>>

Init ==
    /\ preload \in {"off", "background", "blocking"} /\ periodic \in BOOLEAN
    /\ phase = "starting"
    /\ plant = 1 /\ types = 1 /\ fails = 0
    /\ cache = 0 /\ ctx = None
    /\ modelLock = None /\ typeLock = None
    /\ pc = [t \in Tasks |-> "idle"]
    /\ model = [t \in Tasks |-> 0] /\ reads = [t \in Tasks |-> 0]
    /\ held = [tag |-> None, body |-> None] /\ last = None

Goto(t, l) == pc' = [pc EXCEPT ![t] = l]
\* The locals of a task end with it.
Drop(t) == model' = [model EXCEPT ![t] = 0] /\ reads' = [reads EXCEPT ![t] = 0]
Running(t) == pc[t] \notin {"idle", "done"}

-----------------------------------------------------------------------------
(* lifespan, up to its yield                                                *)

\* Without a preload, or with one in the background, the application serves at once.
Startup ==
    /\ phase = "starting" /\ pc[Preload] = "idle"
    /\ phase' = IF preload = "blocking" THEN "starting" ELSE "serving"
    /\ IF preload = "off" THEN UNCHANGED <<pc, reads>>
       ELSE Goto(Preload, "build") /\ reads' = [reads EXCEPT ![Preload] = plant]
    /\ UNCHANGED <<settingVars, worldVars, cacheVars, lockVars, model, httpVars>>

\* _run_model_preload builds and stores without the lock; the warm-up of the context
\* is awaited, or a task of its own.
PreloadBuilt ==
    /\ pc[Preload] = "build"
    /\ cache' = reads[Preload]
    /\ IF preload = "blocking"
       THEN Goto(Preload, "read") /\ model' = [model EXCEPT ![Preload] = reads[Preload]]
       ELSE /\ pc' = [pc EXCEPT ![Preload] = "done", ![Warm] = "read"]
            /\ model' = [model EXCEPT ![Warm] = reads[Preload]]
    /\ reads' = [reads EXCEPT ![Preload] = 0]
    /\ UNCHANGED <<phase, settingVars, worldVars, ctx, lockVars, httpVars>>

\* A failure is logged; a blocking preload may be set to end the startup.
PreloadFails ==
    /\ pc[Preload] = "build" /\ fails < MaxFail
    /\ fails' = fails + 1
    /\ Goto(Preload, "done") /\ Drop(Preload)
    /\ phase' \in IF preload = "blocking" THEN {"serving", "failed"} ELSE {phase}
    /\ UNCHANGED <<settingVars, plant, types, cacheVars, lockVars, httpVars>>

-----------------------------------------------------------------------------
(* The model: _run_periodic_model_refresh and get_or_build_model            *)

\* Fault: the refresh does not wait for the preload.
RefreshDue_noWait ==
    /\ pc[Refresh] = "idle" /\ phase = "serving" /\ periodic
    /\ Goto(Refresh, "modelLock")
    /\ UNCHANGED <<phase, settingVars, worldVars, cacheVars, lockVars, model, reads, httpVars>>

\* The interval has passed, and the preload (if any) is over.
RefreshDue ==
    /\ periodic /\ pc[Refresh] = "idle" /\ phase = "serving" /\ ~Running(Preload)
    /\ Goto(Refresh, "modelLock")
    /\ UNCHANGED <<phase, settingVars, worldVars, cacheVars, lockVars, model, reads, httpVars>>

\* Fault: an empty cache is taken for a model.
GetModel_unchecked(r) ==
    /\ pc[r] = "idle" /\ phase = "serving" /\ ~Running(Preload)
    /\ model' = [model EXCEPT ![r] = cache]
    /\ Goto(r, "read")
    /\ UNCHANGED <<phase, settingVars, worldVars, cacheVars, lockVars, reads, httpVars>>

\* _get_or_build_model: once the preload is over the cached model will do, else the lock.
GetModel(r) ==
    /\ pc[r] = "idle" /\ phase = "serving" /\ ~Running(Preload)
    /\ model' = [model EXCEPT ![r] = cache]
    /\ Goto(r, IF cache # 0 THEN "read" ELSE "modelLock")
    /\ UNCHANGED <<phase, settingVars, worldVars, cacheVars, lockVars, reads, httpVars>>

\* A request looks again when it has the lock; the refresh builds in any case.
FoundUnderLock(t) == t \in Requests /\ cache # 0

TakeModelLock(t) ==
    /\ pc[t] = "modelLock" /\ modelLock = None
    /\ IF FoundUnderLock(t)
       THEN Goto(t, "read") /\ model' = [model EXCEPT ![t] = cache] /\ UNCHANGED <<modelLock, reads>>
       ELSE /\ Goto(t, "build") /\ modelLock' = t
            /\ reads' = [reads EXCEPT ![t] = plant] /\ UNCHANGED model
    /\ UNCHANGED <<phase, settingVars, worldVars, cacheVars, typeLock, httpVars>>

\* The build is stored under the lock; a lazy one drops the context.
ModelBuilt(t) ==
    /\ pc[t] = "build" /\ modelLock = t
    /\ cache' = reads[t] /\ model' = [model EXCEPT ![t] = reads[t]]
    /\ ctx' = IF t \in Requests THEN None ELSE ctx
    /\ modelLock' = None /\ Goto(t, "read")
    /\ UNCHANGED <<phase, settingVars, worldVars, typeLock, reads, httpVars>>

\* Fault: a failed build does not give the lock back.
ModelFails_locked(t) ==
    /\ pc[t] = "build" /\ modelLock = t /\ fails < MaxFail
    /\ fails' = fails + 1
    /\ Goto(t, "idle") /\ Drop(t)
    /\ UNCHANGED <<phase, settingVars, plant, types, cacheVars, lockVars, httpVars>>

ModelFails(t) ==
    /\ pc[t] = "build" /\ modelLock = t /\ fails < MaxFail
    /\ fails' = fails + 1
    /\ modelLock' = None /\ Goto(t, "idle") /\ Drop(t)
    /\ UNCHANGED <<phase, settingVars, plant, types, cacheVars, typeLock, httpVars>>

-----------------------------------------------------------------------------
(* The response: http_caching.py                                            *)

\* Fault: a context is tagged with what it was made from, not with what it says.
Revision_inputs(c) == <<c.model, c.types>>
\* _object_type_context_revision: a hash of the whole content.
Revision(c) == <<c.model, c.types, c.names>>

\* representation_etag: the revisions recorded, none for a degraded answer.
Etag(m, c) == IF c = None THEN None ELSE <<m, Revision(c)>>

\* A request is answered from model m and context c (None: the lookup failed).  The
\* client sent the tag it holds: when it matches, 304 leaves it with its body.
Respond(m, c) ==
    LET tag == Etag(m, c) IN
    /\ last' = <<m, c>>
    /\ held' = IF tag # None /\ tag = held.tag THEN held
               ELSE [tag |-> tag, body |-> <<m, c>>]

-----------------------------------------------------------------------------
(* The object type context                                                  *)

Matches(t, ty) == ctx # None /\ ctx.model = model[t] /\ ctx.types = ty

\* A task is done with the context c, or has failed to get it.
Finish(t, c) ==
    /\ Goto(t, IF t = Preload THEN "done" ELSE "idle") /\ Drop(t)
    /\ phase' = IF t = Preload /\ phase = "starting" THEN "serving" ELSE phase
    /\ IF t \in Requests THEN Respond(model[t], c) ELSE UNCHANGED httpVars

\* Fault: a change of the types alone is not noticed.
ScheduleRefresh_model(m) == IF Running(Retype) \/ ctx.model = m THEN pc[Retype] ELSE "start"
\* _schedule_object_type_context_refresh: unless it is under way.
ScheduleRefresh(m) == IF Running(Retype) THEN pc[Retype] ELSE "start"

\* _resolve_object_type_context up to its lock: the types arrive, and a context that
\* fits, or for a request any context, is the answer.
ReadTypes(t) ==
    /\ pc[t] = "read"
    /\ IF Matches(t, types) THEN Finish(t, ctx)
       ELSE IF t \in Requests /\ ctx # None
       THEN /\ pc' = [pc EXCEPT ![t] = "idle", ![Retype] = ScheduleRefresh(model[t])]
            /\ Respond(model[t], ctx) /\ Drop(t) /\ UNCHANGED phase
       ELSE /\ Goto(t, "typeLock") /\ reads' = [reads EXCEPT ![t] = types]
            /\ UNCHANGED <<phase, model, httpVars>>
    /\ UNCHANGED <<settingVars, worldVars, cacheVars, lockVars>>

\* _refresh_object_type_context begins with the newest model.
StartRetype ==
    /\ pc[Retype] = "start"
    /\ Goto(Retype, "read") /\ model' = [model EXCEPT ![Retype] = cache]
    /\ UNCHANGED <<phase, settingVars, worldVars, cacheVars, lockVars, reads, httpVars>>

TakeTypeLock(t) ==
    /\ pc[t] = "typeLock" /\ typeLock = None
    /\ IF Matches(t, reads[t]) THEN Finish(t, ctx) /\ UNCHANGED typeLock
       ELSE Goto(t, "context") /\ typeLock' = t /\ UNCHANGED <<phase, model, reads, httpVars>>
    /\ UNCHANGED <<settingVars, worldVars, cacheVars, modelLock>>

\* _build_object_type_context, stored with the tokens it was built for.
ContextBuilt(t) ==
    /\ pc[t] = "context" /\ typeLock = t
    /\ \E n \in Names :
         LET c == [model |-> model[t], types |-> reads[t], names |-> n]
         IN  ctx' = c /\ Finish(t, c)
    /\ typeLock' = None
    /\ UNCHANGED <<settingVars, worldVars, cache, modelLock>>

\* The types cannot be read or the build fails: a request is answered without the
\* context, a task logs it.
ContextFails(t) ==
    /\ pc[t] = "read" \/ (pc[t] = "context" /\ typeLock = t)
    /\ fails < MaxFail /\ fails' = fails + 1
    /\ Finish(t, None)
    /\ typeLock' = IF typeLock = t THEN None ELSE typeLock
    /\ UNCHANGED <<settingVars, plant, types, cacheVars, modelLock>>

-----------------------------------------------------------------------------
(* lifespan, after its yield                                                *)

\* Cancelling a task that awaits another cancels that one too; here only the refresh
\* waits for a task, and has not begun while it does.
Cancel(t) ==
    /\ Goto(t, "idle") /\ Drop(t)
    /\ modelLock' = IF modelLock = t THEN None ELSE modelLock
    /\ typeLock' = IF typeLock = t THEN None ELSE typeLock
    /\ UNCHANGED <<settingVars, worldVars, cacheVars, httpVars>>

\* Fault: the warm-up is cancelled before the preload that starts it.
ShutdownOrder_warmFirst == <<Refresh, Warm, Preload, Retype>>
ShutdownOrder == <<Refresh, Preload, Warm, Retype>>

\* The server has no request left when the shutdown begins.
BeginShutdown ==
    /\ phase = "serving" /\ \A r \in Requests : pc[r] = "idle"
    /\ phase' = "stop1"
    /\ UNCHANGED <<settingVars, worldVars, cacheVars, lockVars, taskVars, httpVars>>

CancelNext(i, from, to) == phase = from /\ phase' = to /\ Cancel(ShutdownOrder[i])

\* One task after the other, then the subscriptions and the OPC UA client are closed.
Shutdown == \/ CancelNext(1, "stop1", "stop2") \/ CancelNext(2, "stop2", "stop3")
            \/ CancelNext(3, "stop3", "stop4") \/ CancelNext(4, "stop4", "stopped")

-----------------------------------------------------------------------------

World == /\ plant + types - 2 < MaxChanges
         /\ \/ plant' = plant + 1 /\ types' = types
            \/ types' = types + 1 /\ plant' = plant
         /\ UNCHANGED <<phase, settingVars, fails, cacheVars, lockVars, taskVars, httpVars>>

ModelStep(t)   == TakeModelLock(t) \/ ModelBuilt(t) \/ ModelFails(t)
ContextStep(t) == ReadTypes(t) \/ TakeTypeLock(t) \/ ContextBuilt(t) \/ ContextFails(t)

Next ==
    \/ Startup \/ PreloadBuilt \/ PreloadFails
    \/ RefreshDue \/ StartRetype
    \/ \E r \in Requests : GetModel(r)
    \/ \E t \in Requests \cup {Refresh} : ModelStep(t)
    \/ \E t \in Tasks : ContextStep(t)
    \/ World \/ BeginShutdown \/ Shutdown

Spec == Init /\ [][Next]_vars

\* The loop runs every ready task, reads return or fail, the interval passes, and
\* clients keep asking.
FairSpec ==
    /\ Spec
    /\ WF_vars(Startup) /\ WF_vars(PreloadBuilt) /\ WF_vars(RefreshDue) /\ WF_vars(StartRetype)
    /\ \A r \in Requests : WF_vars(GetModel(r))
    /\ \A t \in Requests \cup {Refresh} : SF_vars(TakeModelLock(t)) /\ WF_vars(ModelBuilt(t))
    /\ \A t \in Tasks : /\ WF_vars(ReadTypes(t)) /\ SF_vars(TakeTypeLock(t))
                        /\ WF_vars(ContextBuilt(t))
    /\ WF_vars(Shutdown)

-----------------------------------------------------------------------------
(* Correctness                                                              *)

Versions == 1 .. MaxChanges + 1
Contexts == [model : Versions, types : Versions, names : Names]

TypeOK ==
    /\ phase \in {"starting", "serving", "failed", "stop1", "stop2", "stop3", "stop4", "stopped"}
    /\ preload \in {"off", "background", "blocking"} /\ periodic \in BOOLEAN
    /\ plant \in Versions /\ types \in Versions /\ fails \in 0 .. MaxFail
    /\ cache \in Versions \cup {0} /\ ctx \in Contexts \cup {None}
    /\ modelLock \in Tasks \cup {None} /\ typeLock \in Tasks \cup {None}
    /\ pc \in [Tasks -> {"idle", "done", "start", "build", "modelLock", "read", "typeLock", "context"}]
    /\ model \in [Tasks -> Versions \cup {0}]
    /\ reads \in [Tasks -> Versions \cup {0}]

\* The preload, the refresh and lazy builds never put an older model in the place of a
\* newer one, although the preload stores without the lock.
ModelNeverOlder == [][cache' >= cache]_cache

\* Only one build of the model runs at a time, whoever asks for it.
OneModelBuild == Cardinality({t \in Tasks : pc[t] = "build"}) <= 1

\* A client that got 304 holds the body the server would have sent: equal tags mean
\* equal representations, also across rebuilds, stale contexts and failures.
NotModifiedIsTrue == last # None => held.body = last

\* A context that does not fit is not served for ever: when the plant has stopped
\* changing, the background refreshes lead to the context of the cached model and the
\* newest types, although builds for older ones may be stored after newer ones; and
\* with a refresh interval the model is the newest.
ContextCatchesUp ==
    <>[](\/ phase \notin {"starting", "serving"}
         \/ /\ ctx # None /\ ctx.model = cache /\ ctx.types = types
            /\ periodic => cache = plant)

\* Every request is answered.
RequestsAnswered == \A r \in Requests : (pc[r] # "idle") ~> (pc[r] = "idle")

\* When the OPC UA client is closed no background task is left that would use it.
NoTaskAfterClose == phase = "stopped" => \A t \in Background : ~Running(t)

\* The tasks that share the caches and the client keep out of each other's way.
TasksDisciplined == TypeOK /\ OneModelBuild /\ NoTaskAfterClose

=============================================================================
