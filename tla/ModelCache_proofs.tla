-------------------------- MODULE ModelCache_proofs ---------------------------
(***************************************************************************)
(* Theorems about ModelCache, for any requests, names, number of changes    *)
(* and of failures.                                                         *)
(***************************************************************************)
EXTENDS ModelCache, Lemmas

-----------------------------------------------------------------------------
(* The inductive invariant                                                  *)

\* What a task carries from one await to the next: a model once it is past the model
\* cache, the types it has read once it is past them; a build has read what is, at that
\* point, not older than the cache and not newer than the plant.
CarriedInv ==
    /\ cache <= plant
    /\ \A t \in Tasks :
         /\ pc[t] \in {"read", "typeLock", "context"} => model[t] \in Versions
         /\ pc[t] \in {"typeLock", "context"} => reads[t] \in Versions
         /\ pc[t] \in {"start", "read", "typeLock", "context"} => cache # 0
         /\ pc[t] = "build" => reads[t] \in Versions /\ cache <= reads[t] /\ reads[t] <= plant

\* model_lock is held by who builds the model, and whoever builds it holds the lock,
\* except for the preload, which nobody overtakes.
LockInv ==
    /\ modelLock # None => modelLock \in Requests \cup {Refresh} /\ pc[modelLock] = "build"
    /\ \A t \in Tasks \ {Preload} : pc[t] = "build" => modelLock = t
    /\ pc[Preload] = "build" => \A t \in Requests \cup {Refresh} : pc[t] = "idle"

Stopping == {"stop1", "stop2", "stop3", "stop4", "stopped"}

\* Nothing but a blocking preload runs during the startup; each step of the shutdown
\* leaves one more kind of task that does not run.
PhaseInv ==
    /\ phase = "starting" => \A t \in Tasks \ {Preload} : pc[t] = "idle"
    /\ phase = "starting" /\ pc[Preload] # "idle" => preload = "blocking"
    /\ phase \in Stopping => \A r \in Requests : pc[r] = "idle"
    /\ phase \in Stopping \ {"stop1"} => ~Running(Refresh)
    /\ phase \in Stopping \ {"stop1", "stop2"} => ~Running(Preload)
    /\ phase \in {"stop4", "stopped"} => ~Running(Warm)
    /\ phase = "stopped" => ~Running(Retype)

\* The tag a client holds is the tag of the body it holds.
HeldInv ==
    \/ held.tag = None
    \/ \E m \in Versions, c \in Contexts :
          held.tag = <<m, Revision(c)>> /\ held.body = <<m, c>>

ModelInv == TypeOK /\ CarriedInv /\ LockInv /\ PhaseInv

Labels == {"idle", "done", "start", "build", "modelLock", "read", "typeLock", "context"}

\* The tasks are different and none of them is None.
LEMMA TaskFacts ==
  /\ {Preload, Refresh, Warm, Retype} \subseteq Tasks /\ Requests \subseteq Tasks
  /\ Preload \notin Requests /\ Refresh \notin Requests /\ Warm \notin Requests
  /\ Retype \notin Requests /\ None \notin Tasks
  /\ Preload # Refresh /\ Warm # Preload /\ Warm # Refresh
  /\ Retype # Preload /\ Retype # Refresh /\ Retype # Warm
BY ModelCacheAssumption DEF Tasks, Background

\* Initially nothing is cached, locked or running.
LEMMA InitModelInv == Init => ModelInv /\ HeldInv
<1> SUFFICES ASSUME Init PROVE ModelInv /\ HeldInv
  OBVIOUS
<1>1. TypeOK
  BY ModelCacheAssumption DEF Init, TypeOK, Versions
<1>2. CarriedInv /\ LockInv /\ PhaseInv /\ HeldInv
  BY TaskFacts DEF Init, CarriedInv, LockInv, PhaseInv, HeldInv, Running, Stopping
<1> QED BY <1>1, <1>2 DEF ModelInv

\* The part of the invariant that a step which touches one task and no model cache
\* keeps: the task goes from one label to another that needs no model lock.
LEMMA MoveKeeps ==
  ASSUME ModelInv, NEW t \in Tasks, NEW l \in Labels \ {"build"},
         NEW m \in Versions \cup {0}, NEW r \in Versions \cup {0},
         pc' = [pc EXCEPT ![t] = l],
         model' = [model EXCEPT ![t] = m], reads' = [reads EXCEPT ![t] = r],
         l \in {"read", "typeLock", "context"} => m \in Versions,
         l \in {"typeLock", "context"} => r \in Versions,
         l \in {"start", "read", "typeLock", "context"} => cache # 0,
         UNCHANGED <<plant, cache, modelLock>>, pc[t] # "build",
         t \in Requests \cup {Refresh} => pc[Preload] # "build" \/ l = "idle"
  PROVE  CarriedInv' /\ LockInv'
<1>1. /\ pc \in [Tasks -> Labels] /\ model \in [Tasks -> Versions \cup {0}]
      /\ reads \in [Tasks -> Versions \cup {0}]
  BY DEF ModelInv, TypeOK, Labels
<1>2. /\ \A q \in Tasks : q # t => pc'[q] = pc[q] /\ model'[q] = model[q] /\ reads'[q] = reads[q]
      /\ pc'[t] = l /\ model'[t] = m /\ reads'[t] = r
  BY <1>1
<1>3. CarriedInv'
  BY <1>2 DEF ModelInv, CarriedInv
<1>4. LockInv'
  BY <1>2, TaskFacts DEF ModelInv, LockInv
<1> QED BY <1>3, <1>4

\* The phases when one task moves and the phase stays: a task that begins to run may do
\* so in this phase.
LEMMA PhaseKept ==
  ASSUME ModelInv, NEW t \in Tasks, NEW l \in Labels, pc' = [pc EXCEPT ![t] = l],
         UNCHANGED <<phase, preload>>,
         pc[t] \in {"idle", "done"} =>
            \/ l = "idle" \/ phase = "serving"
            \/ t = Preload /\ preload = "blocking" /\ phase = "starting",
         phase = "starting" /\ t # Preload => l = "idle",
         t \in Requests /\ phase \in Stopping => l = "idle"
  PROVE  PhaseInv'
<1>1. pc \in [Tasks -> Labels] /\ \A q \in Tasks : q # t => pc'[q] = pc[q]
  BY DEF ModelInv, TypeOK, Labels
<1>2. pc'[t] = l
  BY <1>1
<1>3. \A q \in Tasks : Running(q)' => Running(q) \/ (q = t /\ phase \in {"serving", "starting"})
  BY <1>1, <1>2 DEF Running
<1>4. PhaseInv
  BY DEF ModelInv
<1>5. /\ phase = "starting" => \A q \in Tasks \ {Preload} : pc'[q] = "idle"
      /\ phase = "starting" /\ pc'[Preload] # "idle" => preload = "blocking"
      /\ phase \in Stopping => \A r \in Requests : pc'[r] = "idle"
  BY <1>1, <1>2, <1>4, TaskFacts DEF PhaseInv
<1> QED BY <1>3, <1>4, <1>5, TaskFacts DEF PhaseInv, Stopping

-----------------------------------------------------------------------------
(* Every step keeps the invariant                                           *)

\* What the types of a step that moves one task come to.
LEMMA MoveTypes ==
  ASSUME ModelInv, NEW t \in Tasks, NEW l \in Labels,
         NEW m \in Versions \cup {0}, NEW r \in Versions \cup {0},
         pc' = [pc EXCEPT ![t] = l],
         model' = [model EXCEPT ![t] = m], reads' = [reads EXCEPT ![t] = r]
  PROVE  /\ pc' \in [Tasks -> Labels]
         /\ model' \in [Tasks -> Versions \cup {0}]
         /\ reads' \in [Tasks -> Versions \cup {0}]
<1>1. /\ pc \in [Tasks -> Labels] /\ model \in [Tasks -> Versions \cup {0}]
      /\ reads \in [Tasks -> Versions \cup {0}]
  BY DEF ModelInv, TypeOK, Labels
<1> QED BY <1>1

\* lifespan begins: a preload in the background or, before anything is served, a blocking one.
LEMMA StartupKeeps == ASSUME ModelInv, Startup PROVE ModelInv'
<1>1. /\ phase = "starting" /\ pc[Preload] = "idle"
      /\ phase' = IF preload = "blocking" THEN "starting" ELSE "serving"
      /\ UNCHANGED <<settingVars, worldVars, cacheVars, lockVars, model>>
  BY DEF Startup
<1>2. \A t \in Tasks : pc[t] = "idle"
  BY <1>1 DEF ModelInv, PhaseInv
<1>3. /\ pc \in [Tasks -> Labels] /\ reads \in [Tasks -> Versions \cup {0}]
      /\ plant \in Versions /\ cache <= plant
  BY DEF ModelInv, TypeOK, Labels, CarriedInv
<1>4. modelLock = None
  BY <1>2, TaskFacts DEF ModelInv, LockInv
<1>5. CASE preload = "off"
  <2>1. UNCHANGED <<pc, reads>> /\ phase' = "serving"
    BY <1>1, <1>5 DEF Startup
  <2>2. TypeOK'
    BY <1>1, <2>1 DEF ModelInv, TypeOK, settingVars, worldVars, cacheVars, lockVars, Tasks,
                      Versions
  <2>3. CarriedInv' /\ LockInv' /\ PhaseInv'
    BY <1>1, <1>2, <2>1, TaskFacts
       DEF ModelInv, CarriedInv, LockInv, PhaseInv, Stopping, worldVars, cacheVars, lockVars
  <2> QED BY <2>2, <2>3 DEF ModelInv
<1>6. CASE preload # "off"
  <2>1. pc' = [pc EXCEPT ![Preload] = "build"] /\ reads' = [reads EXCEPT ![Preload] = plant]
    BY <1>6 DEF Startup, Goto
  <2>2. /\ pc'[Preload] = "build" /\ reads'[Preload] = plant
        /\ \A t \in Tasks \ {Preload} : pc'[t] = "idle"
        /\ pc' \in [Tasks -> Labels] /\ reads' \in [Tasks -> Versions \cup {0}]
    BY <1>2, <1>3, <2>1, TaskFacts DEF Labels
  <2>3. TypeOK'
    BY <1>1, <2>2 DEF ModelInv, TypeOK, settingVars, worldVars, cacheVars, lockVars, Labels,
                      Versions, Tasks
  <2>4. CarriedInv'
    <3>1. cache' = cache /\ plant' = plant
      BY <1>1 DEF worldVars, cacheVars
    <3>2. plant <= plant
      BY <1>3 DEF Versions
    <3> QED BY <1>3, <2>2, <3>1, <3>2 DEF CarriedInv
  <2>5. LockInv'
    BY <1>1, <1>4, <2>2, TaskFacts DEF LockInv, lockVars
  <2>6. PhaseInv'
    BY <1>1, <2>2, TaskFacts DEF PhaseInv, Stopping, settingVars
  <2> QED BY <2>3, <2>4, <2>5, <2>6 DEF ModelInv
<1> QED BY <1>5, <1>6

\* The preload stores its model without the lock; no other build is under way.
LEMMA PreloadBuiltKeeps == ASSUME ModelInv, PreloadBuilt PROVE ModelInv' /\ cache' >= cache
<1>1. /\ pc[Preload] = "build" /\ cache' = reads[Preload]
      /\ reads' = [reads EXCEPT ![Preload] = 0]
      /\ UNCHANGED <<phase, settingVars, worldVars, ctx, lockVars>>
  BY DEF PreloadBuilt
<1>2. /\ pc \in [Tasks -> Labels] /\ reads \in [Tasks -> Versions \cup {0}]
      /\ model \in [Tasks -> Versions \cup {0}] /\ cache \in Nat
  BY ModelCacheAssumption DEF ModelInv, TypeOK, Labels, Versions
<1>3. /\ reads[Preload] \in Versions /\ cache <= reads[Preload] /\ reads[Preload] <= plant
      /\ reads[Preload] # 0
  BY <1>1, TaskFacts DEF ModelInv, CarriedInv, Versions
<1>4. /\ \A t \in Requests \cup {Refresh} : pc[t] = "idle"
      /\ \A t \in Tasks \ {Preload} : pc[t] # "build" /\ modelLock = None
  BY <1>1, TaskFacts DEF ModelInv, LockInv
<1>5. PICK t \in {Preload, Warm} :
         /\ \A q \in Tasks : q # t /\ q # Preload => pc'[q] = pc[q] /\ model'[q] = model[q]
         /\ pc'[t] = "read" /\ model'[t] = reads[Preload]
         /\ pc'[Preload] \in {"read", "done"} /\ (pc'[Preload] = "read" => t = Preload)
         /\ t = Preload <=> preload = "blocking"
         /\ pc' \in [Tasks -> Labels] /\ model' \in [Tasks -> Versions \cup {0}]
  <2>1. CASE preload = "blocking"
    <3>1. pc' = [pc EXCEPT ![Preload] = "read"] /\ model' = [model EXCEPT ![Preload] = reads[Preload]]
      BY <2>1 DEF PreloadBuilt, Goto
    <3> QED BY <1>2, <1>3, <2>1, <3>1, TaskFacts DEF Labels
  <2>2. CASE preload # "blocking"
    <3>1. /\ pc' = [pc EXCEPT ![Preload] = "done", ![Warm] = "read"]
          /\ model' = [model EXCEPT ![Warm] = reads[Preload]]
      BY <2>2 DEF PreloadBuilt
    <3> QED BY <1>2, <1>3, <2>2, <3>1, TaskFacts DEF Labels
  <2> QED BY <2>1, <2>2
<1>6. TypeOK'
  <2>1. reads' \in [Tasks -> Versions \cup {0}]
    BY <1>1, <1>2
  <2> QED BY <1>1, <1>3, <1>5, <2>1
          DEF ModelInv, TypeOK, Labels, settingVars, worldVars, lockVars, Versions
<1>7. CarriedInv'
  <2>1. UNCHANGED plant /\ \A q \in Tasks : q # Preload => reads'[q] = reads[q]
    BY <1>1, <1>2 DEF worldVars
  <2> QED BY <1>1, <1>3, <1>4, <1>5, <2>1, TaskFacts DEF ModelInv, CarriedInv
<1>8. LockInv'
  BY <1>1, <1>4, <1>5, TaskFacts DEF LockInv, lockVars, ModelInv
<1>9. PhaseInv'
  <2>1. phase = "starting" => preload = "blocking"
    BY <1>1 DEF ModelInv, PhaseInv
  <2>2. phase \notin {"stop3", "stop4", "stopped"}
    BY <1>1 DEF ModelInv, PhaseInv, Running, Stopping
  <2> QED BY <1>1, <1>5, <2>1, <2>2, TaskFacts
          DEF ModelInv, PhaseInv, Running, Stopping, settingVars
<1> QED BY <1>1, <1>2, <1>3, <1>6, <1>7, <1>8, <1>9 DEF ModelInv, Versions

\* A task is done with the context, or has failed to get it.
LEMMA FinishKeeps ==
  ASSUME ModelInv, NEW t \in Tasks, NEW c, Finish(t, c),
         pc[t] \in {"read", "typeLock", "context"},
         UNCHANGED <<settingVars, plant, cache, modelLock>>
  PROVE  /\ CarriedInv' /\ LockInv' /\ PhaseInv'
         /\ phase' \in {phase, "serving"}
         /\ pc' \in [Tasks -> Labels]
         /\ model' \in [Tasks -> Versions \cup {0}]
         /\ reads' \in [Tasks -> Versions \cup {0}]
<1> DEFINE l == IF t = Preload THEN "done" ELSE "idle"
<1>1. /\ pc' = [pc EXCEPT ![t] = l] /\ model' = [model EXCEPT ![t] = 0]
      /\ reads' = [reads EXCEPT ![t] = 0] /\ l \in Labels \ {"build"}
      /\ phase' = IF t = Preload /\ phase = "starting" THEN "serving" ELSE phase
  BY DEF Finish, Goto, Drop, Labels
<1>2. l \in {"idle", "done"} /\ (t # Preload => l = "idle")
  OBVIOUS
<1> HIDE DEF l
<1>3. CarriedInv' /\ LockInv'
  BY <1>1, <1>2, MoveKeeps, TaskFacts
<1>4. /\ pc' \in [Tasks -> Labels] /\ model' \in [Tasks -> Versions \cup {0}]
      /\ reads' \in [Tasks -> Versions \cup {0}]
  BY <1>1, MoveTypes
<1>5. PhaseInv'
  <2>1. CASE t = Preload /\ phase = "starting"
    BY <1>1, <2>1 DEF PhaseInv, Stopping
  <2>2. CASE ~(t = Preload /\ phase = "starting")
    <3>1. UNCHANGED <<phase, preload>>
      BY <1>1, <2>2 DEF settingVars
    <3>2. t \in Requests => l = "idle"
      BY <1>2, TaskFacts
    <3> QED BY <1>1, <1>2, <2>2, <3>1, <3>2, PhaseKept
  <2> QED BY <2>1, <2>2
<1> QED BY <1>1, <1>3, <1>4, <1>5

\* A task that waits for nothing but its next read, lock or build moves on.
LEMMA StepKeeps ==
  ASSUME ModelInv, NEW t \in Tasks, NEW l \in Labels \ {"build"},
         NEW m \in Versions \cup {0}, NEW r \in Versions \cup {0},
         pc' = [pc EXCEPT ![t] = l],
         model' = [model EXCEPT ![t] = m], reads' = [reads EXCEPT ![t] = r],
         l \in {"read", "typeLock", "context"} => m \in Versions,
         l \in {"typeLock", "context"} => r \in Versions,
         l \in {"start", "read", "typeLock", "context"} => cache # 0,
         UNCHANGED <<phase, settingVars, worldVars, cacheVars, modelLock>>,
         typeLock' \in {typeLock, None, t}, pc[t] # "build",
         pc[t] = "idle" => phase = "serving" /\ pc[Preload] # "build",
         pc[t] # "done"
  PROVE  ModelInv'
<1>1. t \in Requests \cup {Refresh} /\ pc[t] # "idle" => pc[Preload] # "build"
  BY DEF ModelInv, LockInv
<1>2. t \in Requests \cup {Refresh} => pc[Preload] # "build"
  BY <1>1
<1>3. UNCHANGED <<plant, cache, modelLock, preload>> /\ l \in Labels
  BY DEF worldVars, cacheVars, settingVars
<1>4. CarriedInv' /\ LockInv'
  BY <1>2, <1>3, MoveKeeps
<1>5. /\ phase = "starting" /\ t # Preload => pc[t] = "idle"
      /\ t \in Requests /\ phase \in Stopping => pc[t] = "idle"
  BY DEF ModelInv, PhaseInv
<1>6. /\ phase = "starting" /\ t # Preload => l = "idle"
      /\ t \in Requests /\ phase \in Stopping => l = "idle"
  BY <1>5 DEF Stopping
<1>7. PhaseInv'
  BY <1>3, <1>6, PhaseKept
<1>8. TypeOK'
  <2>1. /\ pc' \in [Tasks -> Labels] /\ model' \in [Tasks -> Versions \cup {0}]
        /\ reads' \in [Tasks -> Versions \cup {0}]
    BY <1>3, MoveTypes
  <2>2. UNCHANGED <<phase, preload, periodic, plant, types, fails, cache, ctx, modelLock>>
    BY DEF settingVars, worldVars, cacheVars
  <2> QED BY <2>1, <2>2 DEF ModelInv, TypeOK, Labels, Versions
<1> QED BY <1>4, <1>7, <1>8 DEF ModelInv

\* A failed preload ends, and with it perhaps the startup.
LEMMA PreloadFailsKeeps == ASSUME ModelInv, PreloadFails PROVE ModelInv'
<1>1. /\ pc[Preload] = "build" /\ fails < MaxFail /\ fails' = fails + 1
      /\ pc' = [pc EXCEPT ![Preload] = "done"]
      /\ model' = [model EXCEPT ![Preload] = 0] /\ reads' = [reads EXCEPT ![Preload] = 0]
      /\ phase' \in IF preload = "blocking" THEN {"serving", "failed"} ELSE {phase}
      /\ UNCHANGED <<settingVars, plant, types, cacheVars, lockVars>>
  BY DEF PreloadFails, Goto, Drop
<1>2. /\ UNCHANGED <<preload, periodic, plant, types, cache, ctx, modelLock, typeLock>>
      /\ Preload \in Tasks /\ "done" \in Labels /\ 0 \in Versions \cup {0}
  BY <1>1, TaskFacts DEF settingVars, cacheVars, lockVars, Labels
<1>3. /\ pc' \in [Tasks -> Labels] /\ model' \in [Tasks -> Versions \cup {0}]
      /\ reads' \in [Tasks -> Versions \cup {0}]
  BY <1>1, <1>2, MoveTypes
<1>4. /\ pc \in [Tasks -> Labels] /\ model \in [Tasks -> Versions \cup {0}]
      /\ reads \in [Tasks -> Versions \cup {0}]
  BY DEF ModelInv, TypeOK, Labels
<1>5. /\ pc'[Preload] = "done"
      /\ \A q \in Tasks : q # Preload => pc'[q] = pc[q] /\ model'[q] = model[q] /\ reads'[q] = reads[q]
  BY <1>1, <1>2, <1>4
<1>6. TypeOK'
  <2>1. fails' \in 0 .. MaxFail
    BY <1>1, ModelCacheAssumption DEF ModelInv, TypeOK
  <2>2. phase' \in {"serving", "failed", phase}
    BY <1>1
  <2> QED BY <1>2, <1>3, <2>1, <2>2 DEF ModelInv, TypeOK, Labels, Versions
<1>7. CarriedInv' /\ LockInv'
  <2>1. CarriedInv'
    BY <1>2, <1>5 DEF ModelInv, CarriedInv
  <2>2. LockInv'
    BY <1>1, <1>2, <1>5, TaskFacts DEF ModelInv, LockInv
  <2> QED BY <2>1, <2>2
<1>8. PhaseInv'
  <2>1. CASE preload = "blocking"
    BY <1>1, <2>1 DEF PhaseInv, Stopping
  <2>2. CASE preload # "blocking"
    <3>1. phase' = phase /\ phase # "starting"
      BY <1>1, <2>2 DEF ModelInv, PhaseInv
    <3> QED BY <1>2, <1>5, <3>1, TaskFacts DEF ModelInv, PhaseInv, Running, Stopping
  <2> QED BY <2>1, <2>2
<1> QED BY <1>6, <1>7, <1>8 DEF ModelInv

\* The facts about a step that leaves the model or the types read of its task alone.
LEMMA SameLocals ==
  ASSUME ModelInv, NEW t \in Tasks
  PROVE  /\ model = [model EXCEPT ![t] = model[t]] /\ model[t] \in Versions \cup {0}
         /\ reads = [reads EXCEPT ![t] = reads[t]] /\ reads[t] \in Versions \cup {0}
         /\ pc[t] \in Labels
BY DEF ModelInv, TypeOK, Labels

\* The refresh queues for the lock.
LEMMA RefreshDueKeeps == ASSUME ModelInv, RefreshDue PROVE ModelInv'
<1> DEFINE l == "modelLock"
<1>1. /\ pc[Refresh] = "idle" /\ phase = "serving" /\ pc[Preload] # "build"
      /\ pc' = [pc EXCEPT ![Refresh] = l] /\ model' = model /\ reads' = reads
      /\ UNCHANGED <<phase, settingVars, worldVars, cacheVars, modelLock, typeLock>>
      /\ Refresh \in Tasks /\ l \in Labels \ {"build"}
      /\ l \notin {"start", "read", "typeLock", "context"}
  BY TaskFacts DEF RefreshDue, Running, Goto, lockVars, Labels
<1> HIDE DEF l
<1>2. /\ model' = [model EXCEPT ![Refresh] = model[Refresh]] /\ model[Refresh] \in Versions \cup {0}
      /\ reads' = [reads EXCEPT ![Refresh] = reads[Refresh]] /\ reads[Refresh] \in Versions \cup {0}
  BY <1>1, SameLocals
<1>3. typeLock' \in {typeLock, None, Refresh} /\ pc[Refresh] # "build" /\ pc[Refresh] # "done"
  BY <1>1
<1> QED BY <1>1, <1>2, <1>3, StepKeeps

\* A request begins: with the cached model, or behind the lock.
LEMMA GetModelKeeps == ASSUME ModelInv, NEW r \in Requests, GetModel(r) PROVE ModelInv'
<1> DEFINE l == IF cache # 0 THEN "read" ELSE "modelLock"
<1>1. /\ pc[r] = "idle" /\ phase = "serving" /\ pc[Preload] # "build"
      /\ pc' = [pc EXCEPT ![r] = l] /\ model' = [model EXCEPT ![r] = cache] /\ reads' = reads
      /\ UNCHANGED <<phase, settingVars, worldVars, cacheVars, modelLock, typeLock>>
      /\ r \in Tasks /\ l \in Labels \ {"build"} /\ l \in {"read", "modelLock"}
      /\ l = "read" => cache # 0
  BY TaskFacts DEF GetModel, Running, Goto, lockVars, Labels
<1> HIDE DEF l
<1>2. /\ reads' = [reads EXCEPT ![r] = reads[r]] /\ reads[r] \in Versions \cup {0}
      /\ cache \in Versions \cup {0} /\ (l = "read" => cache \in Versions)
  BY <1>1, SameLocals DEF ModelInv, TypeOK
<1> QED BY <1>1, <1>2, StepKeeps

\* The background refresh of the context takes the newest model.
LEMMA StartRetypeKeeps == ASSUME ModelInv, StartRetype PROVE ModelInv'
<1>1. /\ pc[Retype] = "start"
      /\ pc' = [pc EXCEPT ![Retype] = "read"] /\ model' = [model EXCEPT ![Retype] = cache]
      /\ reads' = reads
      /\ UNCHANGED <<phase, settingVars, worldVars, cacheVars, modelLock, typeLock>>
      /\ Retype \in Tasks /\ "read" \in Labels \ {"build"}
  BY TaskFacts DEF StartRetype, Goto, lockVars, Labels
<1>2. cache # 0 /\ cache \in Versions
  BY <1>1 DEF ModelInv, CarriedInv, TypeOK
<1>3. /\ reads' = [reads EXCEPT ![Retype] = reads[Retype]] /\ reads[Retype] \in Versions \cup {0}
      /\ cache \in Versions \cup {0}
  BY <1>1, <1>2, SameLocals
<1> QED BY <1>1, <1>2, <1>3, StepKeeps

\* The lock is free: the cached model will do after all, or the build begins.
LEMMA TakeModelLockKeeps ==
  ASSUME ModelInv, NEW t \in Requests \cup {Refresh}, TakeModelLock(t)
  PROVE  ModelInv'
<1>1. /\ pc[t] = "modelLock" /\ modelLock = None /\ t \in Tasks /\ t # Preload
      /\ UNCHANGED <<phase, settingVars, worldVars, cacheVars, typeLock>>
  BY TaskFacts DEF TakeModelLock
<1>2. CASE FoundUnderLock(t)
  <2> DEFINE l == "read"
  <2>1. /\ pc' = [pc EXCEPT ![t] = l] /\ model' = [model EXCEPT ![t] = cache]
        /\ UNCHANGED <<modelLock, reads>> /\ cache # 0 /\ l \in Labels \ {"build"}
    BY <1>2 DEF TakeModelLock, FoundUnderLock, Goto, Labels
  <2> HIDE DEF l
  <2>2. /\ reads' = [reads EXCEPT ![t] = reads[t]] /\ reads[t] \in Versions \cup {0}
        /\ cache \in Versions \cup {0} /\ cache \in Versions
        /\ l \in {"typeLock", "context"} => reads[t] \in Versions
    BY <1>1, <2>1, SameLocals DEF ModelInv, TypeOK, l
  <2>3. typeLock' \in {typeLock, None, t} /\ pc[t] # "build" /\ pc[t] # "done" /\ pc[t] # "idle"
    BY <1>1
  <2> QED BY <1>1, <2>1, <2>2, <2>3, StepKeeps
<1>3. CASE ~FoundUnderLock(t)
  <2>1. /\ pc' = [pc EXCEPT ![t] = "build"] /\ modelLock' = t
        /\ reads' = [reads EXCEPT ![t] = plant] /\ model' = model
    BY <1>3 DEF TakeModelLock, Goto
  <2>2. /\ pc \in [Tasks -> Labels] /\ reads \in [Tasks -> Versions \cup {0}]
        /\ model \in [Tasks -> Versions \cup {0}] /\ plant \in Versions /\ plant <= plant
    BY DEF ModelInv, TypeOK, Labels, Versions
  <2>3. /\ pc'[t] = "build" /\ reads'[t] = plant
        /\ \A q \in Tasks : q # t => pc'[q] = pc[q] /\ reads'[q] = reads[q]
        /\ pc' \in [Tasks -> Labels] /\ reads' \in [Tasks -> Versions \cup {0}]
    BY <1>1, <2>1, <2>2 DEF Labels
  <2>4. UNCHANGED <<preload, periodic, plant, types, fails, cache, ctx>>
    BY <1>1 DEF settingVars, worldVars, cacheVars
  <2>5. TypeOK'
    BY <1>1, <2>1, <2>2, <2>3, <2>4 DEF ModelInv, TypeOK, Labels, Versions
  <2>6. CarriedInv'
    BY <1>1, <2>1, <2>2, <2>3, <2>4 DEF ModelInv, CarriedInv
  <2>7. LockInv'
    BY <1>1, <2>1, <2>3, TaskFacts DEF ModelInv, LockInv
  <2>8. PhaseInv'
    <3>1. phase # "starting" /\ (phase \in Stopping => t \notin Requests)
      BY <1>1 DEF ModelInv, PhaseInv
    <3>2. "build" \in Labels /\ UNCHANGED <<phase, preload>> /\ pc[t] \notin {"idle", "done"}
      BY <1>1, <2>4 DEF Labels
    <3> QED BY <1>1, <2>1, <3>1, <3>2, PhaseKept
  <2> QED BY <2>5, <2>6, <2>7, <2>8 DEF ModelInv
<1> QED BY <1>2, <1>3

\* A builder is alone and the phase lets it go on.
LEMMA ReleaseKeeps ==
  ASSUME ModelInv, NEW t \in Requests \cup {Refresh}, pc[t] = "build", modelLock = t,
         NEW l \in {"read", "idle"}, NEW m \in Versions \cup {0}, NEW r \in Versions \cup {0},
         pc' = [pc EXCEPT ![t] = l], modelLock' = None,
         model' = [model EXCEPT ![t] = m], reads' = [reads EXCEPT ![t] = r],
         UNCHANGED <<phase, settingVars, plant, types, typeLock>>,
         cache' \in {cache, reads[t]}, ctx' \in {ctx, None}, fails' \in 0 .. MaxFail,
         l = "read" => m \in Versions /\ cache' = reads[t]
  PROVE  ModelInv' /\ cache' >= cache
<1>1. /\ pc \in [Tasks -> Labels] /\ reads \in [Tasks -> Versions \cup {0}]
      /\ model \in [Tasks -> Versions \cup {0}] /\ t \in Tasks /\ t # Preload /\ l \in Labels
      /\ cache \in Nat
  BY TaskFacts, ModelCacheAssumption DEF ModelInv, TypeOK, Labels, Versions
<1>2. /\ pc' \in [Tasks -> Labels] /\ reads' \in [Tasks -> Versions \cup {0}]
      /\ model' \in [Tasks -> Versions \cup {0}]
  BY <1>1
<1>3. /\ pc'[t] = l /\ model'[t] = m /\ reads'[t] = r
      /\ \A q \in Tasks : q # t => pc'[q] = pc[q] /\ reads'[q] = reads[q] /\ model'[q] = model[q]
  BY <1>1
<1>4. reads[t] \in Versions /\ cache <= reads[t] /\ reads[t] <= plant /\ reads[t] # 0
  BY <1>1 DEF ModelInv, CarriedInv, Versions
<1>5. \A q \in Tasks : q # t => pc[q] # "build"
  BY <1>1 DEF ModelInv, LockInv
<1>6. UNCHANGED <<preload, periodic>>
  BY DEF settingVars
<1>7. TypeOK'
  <2>1. cache' \in Versions \cup {0} /\ ctx' \in Contexts \cup {None}
    BY <1>4 DEF ModelInv, TypeOK
  <2>2. modelLock' \in Tasks \cup {None} /\ typeLock' \in Tasks \cup {None}
    BY DEF ModelInv, TypeOK
  <2> QED BY <1>2, <1>6, <2>1, <2>2 DEF ModelInv, TypeOK, Labels, Versions, Contexts
<1>8. cache' >= cache /\ cache' <= plant /\ (cache # 0 => cache' # 0)
  BY <1>1, <1>4 DEF ModelInv, CarriedInv
<1>9. CarriedInv'
  BY <1>3, <1>4, <1>5, <1>8 DEF ModelInv, CarriedInv
<1>10. LockInv'
  <2>1. \A q \in Requests \cup {Refresh} : pc[Preload] = "build" => FALSE
    BY <1>1, <1>5, TaskFacts
  <2> QED BY <1>3, <1>5, TaskFacts DEF LockInv
<1>11. PhaseInv'
  <2>1. phase # "starting" /\ (phase \in Stopping => t \notin Requests)
    BY <1>1 DEF ModelInv, PhaseInv
  <2> QED BY <1>1, <1>6, <2>1, PhaseKept
<1> QED BY <1>7, <1>8, <1>9, <1>10, <1>11 DEF ModelInv

\* The build is stored under the lock.
LEMMA ModelBuiltKeeps ==
  ASSUME ModelInv, NEW t \in Requests \cup {Refresh}, ModelBuilt(t)
  PROVE  ModelInv' /\ cache' >= cache
<1> DEFINE l == "read"
           m == reads[t]
<1>1. /\ pc[t] = "build" /\ modelLock = t /\ l \in {"read", "idle"} /\ t \in Tasks
      /\ pc' = [pc EXCEPT ![t] = l] /\ modelLock' = None
      /\ model' = [model EXCEPT ![t] = m] /\ reads' = reads
      /\ cache' = reads[t] /\ ctx' \in {ctx, None}
      /\ UNCHANGED <<phase, settingVars, plant, types, fails, typeLock>>
  BY TaskFacts DEF ModelBuilt, Goto, worldVars
<1>2. m \in Versions /\ m \in Versions \cup {0} /\ cache' \in {cache, reads[t]}
  BY <1>1 DEF ModelInv, CarriedInv
<1>3. /\ reads' = [reads EXCEPT ![t] = reads[t]] /\ reads[t] \in Versions \cup {0}
      /\ fails' \in 0 .. MaxFail
  BY <1>1, SameLocals DEF ModelInv, TypeOK
<1> HIDE DEF l, m
<1> QED BY <1>1, <1>2, <1>3, ReleaseKeeps

\* A failed build gives the lock back.
LEMMA ModelFailsKeeps ==
  ASSUME ModelInv, NEW t \in Requests \cup {Refresh}, ModelFails(t)
  PROVE  ModelInv'
<1> DEFINE l == "idle"
           m == 0
<1>1. /\ pc[t] = "build" /\ modelLock = t /\ l \in {"read", "idle"} /\ l # "read"
      /\ pc' = [pc EXCEPT ![t] = l] /\ modelLock' = None
      /\ model' = [model EXCEPT ![t] = m] /\ reads' = [reads EXCEPT ![t] = m]
      /\ cache' \in {cache, reads[t]} /\ ctx' \in {ctx, None} /\ m \in Versions \cup {0}
      /\ UNCHANGED <<phase, settingVars, plant, types, typeLock>>
  BY DEF ModelFails, Goto, Drop, cacheVars
<1>2. fails' \in 0 .. MaxFail
  BY ModelCacheAssumption DEF ModelFails, ModelInv, TypeOK
<1> HIDE DEF l, m
<1> QED BY <1>1, <1>2, ReleaseKeeps

\* A task is done with the context and the context stored, if any, is one.
LEMMA FinishModelInv ==
  ASSUME ModelInv, NEW t \in Tasks, NEW c, Finish(t, c),
         pc[t] \in {"read", "typeLock", "context"},
         UNCHANGED <<settingVars, plant, types, cache, modelLock>>,
         fails' \in 0 .. MaxFail, ctx' \in Contexts \cup {None},
         typeLock' \in {typeLock, None}
  PROVE  ModelInv'
<1>1. /\ CarriedInv' /\ LockInv' /\ PhaseInv' /\ phase' \in {phase, "serving"}
      /\ pc' \in [Tasks -> Labels] /\ model' \in [Tasks -> Versions \cup {0}]
      /\ reads' \in [Tasks -> Versions \cup {0}]
  BY FinishKeeps
<1>2. UNCHANGED <<preload, periodic>>
  BY DEF settingVars
<1>3. TypeOK'
  BY <1>1, <1>2 DEF ModelInv, TypeOK, Labels, Versions, Contexts
<1> QED BY <1>1, <1>3 DEF ModelInv

\* The types arrive: the context fits, or will do, or the task queues for the lock.
LEMMA ReadTypesKeeps == ASSUME ModelInv, NEW t \in Tasks, ReadTypes(t) PROVE ModelInv'
<1>1. /\ pc[t] = "read" /\ model[t] \in Versions /\ types \in Versions /\ cache # 0
      /\ UNCHANGED <<settingVars, worldVars, cacheVars, lockVars>>
  BY DEF ReadTypes, ModelInv, CarriedInv, TypeOK
<1>2. CASE Matches(t, types)
  <2>1. Finish(t, ctx)
    BY <1>2 DEF ReadTypes
  <2>2. /\ UNCHANGED <<settingVars, plant, types, cache, modelLock>>
        /\ fails' \in 0 .. MaxFail /\ ctx' \in Contexts \cup {None}
        /\ typeLock' \in {typeLock, None} /\ pc[t] \in {"read", "typeLock", "context"}
    BY <1>1 DEF worldVars, cacheVars, lockVars, ModelInv, TypeOK
  <2> QED BY <2>1, <2>2, FinishModelInv
<1>3. CASE ~Matches(t, types) /\ t \in Requests /\ ctx # None
  <2>1. /\ pc' = [pc EXCEPT ![t] = "idle", ![Retype] = ScheduleRefresh(model[t])]
        /\ model' = [model EXCEPT ![t] = 0] /\ reads' = [reads EXCEPT ![t] = 0]
        /\ UNCHANGED <<phase, preload, periodic, plant, types, fails, cache, ctx, modelLock, typeLock>>
    BY <1>1, <1>3
       DEF ReadTypes, Drop, settingVars, worldVars, cacheVars, lockVars
  <2>2. /\ pc \in [Tasks -> Labels] /\ model \in [Tasks -> Versions \cup {0}]
        /\ reads \in [Tasks -> Versions \cup {0}] /\ t # Retype /\ t # Preload /\ t # Refresh /\ t # Warm
    BY <1>3, TaskFacts DEF ModelInv, TypeOK, Labels
  <2>3. /\ pc'[t] = "idle" /\ pc'[Retype] \in {pc[Retype], "start"}
        /\ \A q \in Tasks : q # t /\ q # Retype => pc'[q] = pc[q]
        /\ \A q \in Tasks : q # t => model'[q] = model[q] /\ reads'[q] = reads[q]
        /\ pc' \in [Tasks -> Labels] /\ model' \in [Tasks -> Versions \cup {0}]
        /\ reads' \in [Tasks -> Versions \cup {0}]
    <3>1. ScheduleRefresh(model[t]) \in {pc[Retype], "start"}
      BY DEF ScheduleRefresh
    <3>2. ScheduleRefresh(model[t]) \in Labels
      BY <2>2, <3>1, TaskFacts DEF Labels
    <3> HIDE DEF ScheduleRefresh
    <3> QED BY <2>1, <2>2, <3>1, <3>2, TaskFacts DEF Labels
  <2>4. TypeOK'
    BY <2>1, <2>3 DEF ModelInv, TypeOK, Labels, Versions, Contexts
  <2>5. CarriedInv'
    BY <1>1, <2>1, <2>3, TaskFacts DEF ModelInv, CarriedInv
  <2>6. LockInv'
    BY <1>1, <2>1, <2>2, <2>3, TaskFacts DEF ModelInv, LockInv
  <2>7. phase # "starting" /\ phase \notin Stopping
    BY <1>1, <1>3, <2>2 DEF ModelInv, PhaseInv
  <2>8. PhaseInv'
    BY <2>1, <2>7 DEF PhaseInv, Stopping
  <2> QED BY <2>4, <2>5, <2>6, <2>8 DEF ModelInv
<1>4. CASE ~Matches(t, types) /\ ~(t \in Requests /\ ctx # None)
  <2> DEFINE l == "typeLock"
  <2>1. /\ pc' = [pc EXCEPT ![t] = l] /\ model' = model /\ reads' = [reads EXCEPT ![t] = types]
        /\ phase' = phase /\ l \in Labels \ {"build"}
    BY <1>4 DEF ReadTypes, Goto, Labels
  <2> HIDE DEF l
  <2>2. /\ model' = [model EXCEPT ![t] = model[t]] /\ model[t] \in Versions \cup {0}
        /\ types \in Versions \cup {0} /\ modelLock' = modelLock
        /\ typeLock' \in {typeLock, None, t} /\ pc[t] # "build" /\ pc[t] # "done" /\ pc[t] # "idle"
    BY <1>1, <2>1, SameLocals DEF lockVars
  <2> QED BY <1>1, <2>1, <2>2, StepKeeps
<1> QED BY <1>2, <1>3, <1>4

\* The type lock is free: another task has stored the context, or the build begins.
LEMMA TakeTypeLockKeeps == ASSUME ModelInv, NEW t \in Tasks, TakeTypeLock(t) PROVE ModelInv'
<1>1. /\ pc[t] = "typeLock" /\ model[t] \in Versions /\ reads[t] \in Versions /\ cache # 0
      /\ UNCHANGED <<settingVars, worldVars, cacheVars, modelLock>>
  BY DEF TakeTypeLock, ModelInv, CarriedInv
<1>2. CASE Matches(t, reads[t])
  <2>1. Finish(t, ctx) /\ typeLock' \in {typeLock, None}
    BY <1>2 DEF TakeTypeLock
  <2>2. /\ UNCHANGED <<settingVars, plant, types, cache, modelLock>>
        /\ fails' \in 0 .. MaxFail /\ ctx' \in Contexts \cup {None}
        /\ pc[t] \in {"read", "typeLock", "context"}
    BY <1>1 DEF worldVars, cacheVars, ModelInv, TypeOK
  <2> QED BY <2>1, <2>2, FinishModelInv
<1>3. CASE ~Matches(t, reads[t])
  <2> DEFINE l == "context"
  <2>1. /\ pc' = [pc EXCEPT ![t] = l] /\ model' = model /\ reads' = reads
        /\ phase' = phase /\ typeLock' \in {typeLock, None, t} /\ l \in Labels \ {"build"}
    BY <1>3 DEF TakeTypeLock, Goto, Labels
  <2> HIDE DEF l
  <2>2. /\ model' = [model EXCEPT ![t] = model[t]] /\ model[t] \in Versions \cup {0}
        /\ reads' = [reads EXCEPT ![t] = reads[t]] /\ reads[t] \in Versions \cup {0}
        /\ pc[t] # "build" /\ pc[t] # "done" /\ pc[t] # "idle"
    BY <1>1, <2>1, SameLocals
  <2> QED BY <1>1, <2>1, <2>2, StepKeeps
<1> QED BY <1>2, <1>3

\* The context is stored with the tokens it was built for.
LEMMA ContextBuiltKeeps == ASSUME ModelInv, NEW t \in Tasks, ContextBuilt(t) PROVE ModelInv'
<1>1. PICK n \in Names : /\ ctx' = [model |-> model[t], types |-> reads[t], names |-> n]
                         /\ Finish(t, [model |-> model[t], types |-> reads[t], names |-> n])
  BY DEF ContextBuilt
<1>2. /\ pc[t] = "context" /\ model[t] \in Versions /\ reads[t] \in Versions
      /\ typeLock' \in {typeLock, None} /\ UNCHANGED <<settingVars, plant, types, fails, cache, modelLock>>
  BY DEF ContextBuilt, ModelInv, CarriedInv, worldVars
<1>3. ctx' \in Contexts \cup {None}
  BY <1>1, <1>2 DEF Contexts
<1>4. fails' \in 0 .. MaxFail /\ pc[t] \in {"read", "typeLock", "context"}
  BY <1>2 DEF ModelInv, TypeOK
<1> QED BY <1>1, <1>2, <1>3, <1>4, FinishModelInv

\* Without the context the task ends all the same.
LEMMA ContextFailsKeeps == ASSUME ModelInv, NEW t \in Tasks, ContextFails(t) PROVE ModelInv'
<1>1. /\ pc[t] \in {"read", "typeLock", "context"} /\ Finish(t, None)
      /\ typeLock' \in {typeLock, None} /\ UNCHANGED <<settingVars, plant, types, cache, ctx, modelLock>>
  BY DEF ContextFails, cacheVars
<1>2. fails' \in 0 .. MaxFail /\ ctx' \in Contexts \cup {None}
  BY <1>1, ModelCacheAssumption DEF ContextFails, ModelInv, TypeOK
<1> QED BY <1>1, <1>2, FinishModelInv

\* The plant or the types change; what was read is older then, never newer.
LEMMA WorldKeeps == ASSUME ModelInv, World PROVE ModelInv'
<1>1. /\ plant \in Nat /\ types \in Nat /\ plant >= 1 /\ types >= 1
      /\ cache \in Nat /\ MaxChanges \in Nat
  BY ModelCacheAssumption DEF ModelInv, TypeOK, Versions
<1>2. plant' \in Versions /\ types' \in Versions /\ plant' >= plant
  <2>1. plant + types - 2 < MaxChanges
    BY DEF World
  <2>2. plant + 1 <= MaxChanges + 1 /\ types + 1 <= MaxChanges + 1
    BY <1>1, <2>1
  <2>3. /\ plant + 1 \in Versions /\ types + 1 \in Versions
        /\ plant \in Versions /\ types \in Versions /\ plant + 1 >= plant /\ plant >= plant
    BY <1>1, <2>2 DEF Versions
  <2> QED BY <2>3 DEF World
<1>3. UNCHANGED <<phase, preload, periodic, fails, cache, ctx, modelLock, typeLock, pc, model, reads>>
  BY DEF World, settingVars, cacheVars, lockVars, taskVars
<1>4. TypeOK'
  BY <1>2, <1>3 DEF ModelInv, TypeOK, Versions, Contexts
<1>5. CarriedInv'
  <2>1. cache <= plant'
    BY <1>1, <1>2 DEF Versions, ModelInv, CarriedInv
  <2>2. \A t \in Tasks : pc[t] = "build" => reads[t] <= plant'
    BY <1>1, <1>2 DEF ModelInv, CarriedInv, Versions
  <2> QED BY <1>3, <2>1, <2>2 DEF ModelInv, CarriedInv, Versions
<1>6. LockInv' /\ PhaseInv'
  BY <1>3 DEF ModelInv, LockInv, PhaseInv, Running
<1> QED BY <1>4, <1>5, <1>6 DEF ModelInv

\* The shutdown begins when no request is left.
LEMMA BeginShutdownKeeps == ASSUME ModelInv, BeginShutdown PROVE ModelInv'
<1>1. UNCHANGED <<preload, periodic, plant, types, fails, cache, ctx, modelLock, typeLock, pc, model, reads>>
  BY DEF BeginShutdown, settingVars, worldVars, cacheVars, lockVars, taskVars
<1>2. phase' = "stop1" /\ \A r \in Requests : pc[r] = "idle"
  BY DEF BeginShutdown
<1>3. TypeOK' /\ CarriedInv' /\ LockInv'
  BY <1>1, <1>2 DEF ModelInv, TypeOK, CarriedInv, LockInv, Versions, Contexts
<1>4. PhaseInv'
  BY <1>1, <1>2 DEF PhaseInv, Stopping
<1> QED BY <1>3, <1>4 DEF ModelInv

\* Whatever a cancelled task was doing, it gives back its locks; the next phase asks only
\* that it does not run.
LEMMA CancelKeeps ==
  ASSUME ModelInv, NEW t \in Background, Cancel(t), phase \in Stopping,
         phase' \in Stopping,
         \/ phase = "stop1" /\ phase' = "stop2" /\ t = Refresh
         \/ phase = "stop2" /\ phase' = "stop3" /\ t = Preload
         \/ phase = "stop3" /\ phase' = "stop4" /\ t = Warm
         \/ phase = "stop4" /\ phase' = "stopped" /\ t = Retype
  PROVE  ModelInv'
<1>1. /\ pc' = [pc EXCEPT ![t] = "idle"]
      /\ model' = [model EXCEPT ![t] = 0] /\ reads' = [reads EXCEPT ![t] = 0]
      /\ modelLock' = (IF modelLock = t THEN None ELSE modelLock)
      /\ typeLock' = (IF typeLock = t THEN None ELSE typeLock)
      /\ UNCHANGED <<preload, periodic, plant, types, fails, cache, ctx>>
  BY DEF Cancel, Goto, Drop, settingVars, worldVars, cacheVars
<1>2. /\ t \in Tasks /\ pc \in [Tasks -> Labels] /\ model \in [Tasks -> Versions \cup {0}]
      /\ reads \in [Tasks -> Versions \cup {0}]
  BY DEF ModelInv, TypeOK, Labels, Tasks
<1>3. /\ pc' \in [Tasks -> Labels] /\ model' \in [Tasks -> Versions \cup {0}]
      /\ reads' \in [Tasks -> Versions \cup {0}]
  BY <1>1, <1>2 DEF Labels
<1>4. /\ pc'[t] = "idle"
      /\ \A q \in Tasks : q # t => pc'[q] = pc[q] /\ model'[q] = model[q] /\ reads'[q] = reads[q]
  BY <1>1, <1>2
<1>5. TypeOK'
  <2>1. modelLock' \in Tasks \cup {None} /\ typeLock' \in Tasks \cup {None}
    BY <1>1 DEF ModelInv, TypeOK
  <2>2. phase' \in {"stop1", "stop2", "stop3", "stop4", "stopped"}
    BY DEF Stopping
  <2> QED BY <1>1, <1>3, <2>1, <2>2 DEF ModelInv, TypeOK, Labels, Versions, Contexts
<1>6. CarriedInv'
  BY <1>1, <1>4 DEF ModelInv, CarriedInv
<1>7. LockInv'
  BY <1>1, <1>2, <1>4, TaskFacts DEF ModelInv, LockInv
<1>8. \A q \in Tasks : (Running(q)' => Running(q)) /\ ~Running(t)'
  BY <1>4 DEF Running
<1>9. \A r \in Requests : pc'[r] = "idle"
  BY <1>4, TaskFacts DEF ModelInv, PhaseInv
<1>10. PhaseInv'
  BY <1>8, <1>9, TaskFacts DEF ModelInv, PhaseInv, Stopping
<1> QED BY <1>5, <1>6, <1>7, <1>10 DEF ModelInv

\* lifespan after its yield.
LEMMA ShutdownKeeps == ASSUME ModelInv, Shutdown PROVE ModelInv'
<1>1. /\ ShutdownOrder[1] = Refresh /\ ShutdownOrder[2] = Preload
      /\ ShutdownOrder[3] = Warm /\ ShutdownOrder[4] = Retype
  BY DEF ShutdownOrder
<1>2. PICK t \in Background :
        /\ Cancel(t) /\ phase \in Stopping /\ phase' \in Stopping
        /\ \/ phase = "stop1" /\ phase' = "stop2" /\ t = Refresh
           \/ phase = "stop2" /\ phase' = "stop3" /\ t = Preload
           \/ phase = "stop3" /\ phase' = "stop4" /\ t = Warm
           \/ phase = "stop4" /\ phase' = "stopped" /\ t = Retype
  BY <1>1 DEF Shutdown, CancelNext, Background, Stopping
<1> QED BY <1>2, CancelKeeps

\* No step puts an older model into the cache.
LEMMA NextModelInv == ModelInv /\ [Next]_vars => ModelInv' /\ (cache' # cache => cache' >= cache)
<1> SUFFICES ASSUME ModelInv, [Next]_vars PROVE ModelInv' /\ (cache' # cache => cache' >= cache)
  OBVIOUS
<1>1. CASE Startup
  BY <1>1, StartupKeeps DEF Startup, cacheVars
<1>2. CASE PreloadBuilt
  BY <1>2, PreloadBuiltKeeps
<1>3. CASE PreloadFails
  BY <1>3, PreloadFailsKeeps DEF PreloadFails, cacheVars
<1>4. CASE RefreshDue
  BY <1>4, RefreshDueKeeps DEF RefreshDue, cacheVars
<1>5. CASE StartRetype
  BY <1>5, StartRetypeKeeps DEF StartRetype, cacheVars
<1>6. ASSUME NEW r \in Requests, GetModel(r) PROVE ModelInv' /\ cache' = cache
  BY <1>6, GetModelKeeps DEF GetModel, cacheVars
<1>7. ASSUME NEW t \in Requests \cup {Refresh}, ModelStep(t)
      PROVE  ModelInv' /\ (cache' # cache => cache' >= cache)
  <2>1. CASE TakeModelLock(t)
    BY <2>1, TakeModelLockKeeps DEF TakeModelLock, cacheVars
  <2>2. CASE ModelBuilt(t)
    BY <2>2, ModelBuiltKeeps
  <2>3. CASE ModelFails(t)
    BY <2>3, ModelFailsKeeps DEF ModelFails, cacheVars
  <2> QED BY <1>7, <2>1, <2>2, <2>3 DEF ModelStep
<1>8. ASSUME NEW t \in Tasks, ContextStep(t) PROVE ModelInv' /\ cache' = cache
  <2>1. CASE ReadTypes(t)
    BY <2>1, ReadTypesKeeps DEF ReadTypes, cacheVars
  <2>2. CASE TakeTypeLock(t)
    BY <2>2, TakeTypeLockKeeps DEF TakeTypeLock, cacheVars
  <2>3. CASE ContextBuilt(t)
    BY <2>3, ContextBuiltKeeps DEF ContextBuilt
  <2>4. CASE ContextFails(t)
    BY <2>4, ContextFailsKeeps DEF ContextFails, cacheVars
  <2> QED BY <1>8, <2>1, <2>2, <2>3, <2>4 DEF ContextStep
<1>9. CASE World
  BY <1>9, WorldKeeps DEF World, cacheVars
<1>10. CASE BeginShutdown
  BY <1>10, BeginShutdownKeeps DEF BeginShutdown, cacheVars
<1>11. CASE Shutdown
  BY <1>11, ShutdownKeeps DEF Shutdown, CancelNext, Cancel, cacheVars
<1>12. CASE UNCHANGED vars
  <2>1. UNCHANGED <<phase, preload, periodic, plant, types, fails, cache, ctx, modelLock, typeLock,
                    pc, model, reads>>
    BY <1>12 DEF vars, settingVars, worldVars, cacheVars, lockVars, taskVars
  <2>2. TypeOK' /\ CarriedInv' /\ LockInv'
    BY <2>1 DEF ModelInv, TypeOK, CarriedInv, LockInv, Versions, Contexts
  <2>3. PhaseInv'
    BY <2>1 DEF ModelInv, PhaseInv, Running
  <2> QED BY <2>1, <2>2, <2>3 DEF ModelInv
<1> QED BY <1>1, <1>2, <1>3, <1>4, <1>5, <1>6, <1>7, <1>8, <1>9, <1>10, <1>11, <1>12 DEF Next

-----------------------------------------------------------------------------
(* The model and the tasks                                                  *)

\* The builders of the model: the lock keeps requests and refresh apart, and the wait for
\* the preload keeps both from it.
LEMMA OneBuilder == ModelInv => OneModelBuild
<1> DEFINE S == {t \in Tasks : pc[t] = "build"}
<1> SUFFICES ASSUME ModelInv PROVE Cardinality(S) <= 1
  BY DEF OneModelBuild
<1>1. \A x, y \in S : x = y
  BY TaskFacts DEF ModelInv, LockInv
<1> HIDE DEF S
<1> QED BY <1>1, AtMostOne

\* At most one build of the model runs, and when the OPC UA client is closed no background
\* task is left, however many requests there are and however builds fail.
THEOREM TasksStayDisciplined == Spec => []TasksDisciplined
<1>1. ModelInv => TasksDisciplined
  BY OneBuilder DEF ModelInv, TasksDisciplined, NoTaskAfterClose, PhaseInv, Background, Stopping
<1> QED BY <1>1, InitModelInv, NextModelInv, PTL DEF Spec

\* The model cache never goes back to an older model, also where the preload stores
\* without the lock.
THEOREM ModelOnlyGetsNewer == Spec => ModelNeverOlder
<1>1. ModelInv /\ [Next]_vars => [cache' >= cache]_cache
  BY NextModelInv
<1> QED BY <1>1, InitModelInv, NextModelInv, PTL DEF Spec, ModelNeverOlder

-----------------------------------------------------------------------------
(* Tags and bodies                                                          *)

HttpInv == HeldInv /\ NotModifiedIsTrue

\* Equal revisions are equal contexts, since a revision is made of all of a context.
LEMMA RevisionDetermines ==
  ASSUME NEW c \in Contexts, NEW d \in Contexts, Revision(c) = Revision(d)
  PROVE  c = d
BY DEF Revision, Contexts

\* One response: a tag that matches the client's is the tag of the body it holds.
LEMMA RespondKeeps ==
  ASSUME HttpInv, NEW m \in Versions, NEW c \in Contexts \cup {None}, Respond(m, c)
  PROVE  HttpInv'
<1> DEFINE tag == Etag(m, c)
<1>1. /\ last' = <<m, c>>
      /\ held' = IF tag # None /\ tag = held.tag THEN held ELSE [tag |-> tag, body |-> <<m, c>>]
  BY DEF Respond
<1>2. c # None => tag = <<m, Revision(c)>> /\ c \in Contexts
  BY DEF Etag
<1>3. c = None => tag = None
  BY DEF Etag
<1> HIDE DEF tag
<1>4. CASE tag # None /\ tag = held.tag
  <2>1. PICK n \in Versions, d \in Contexts :
            held.tag = <<n, Revision(d)>> /\ held.body = <<n, d>>
    BY <1>4 DEF HttpInv, HeldInv
  <2>2. c \in Contexts /\ <<m, Revision(c)>> = <<n, Revision(d)>>
    BY <1>2, <1>3, <1>4, <2>1
  <2>3. m = n /\ Revision(c) = Revision(d)
    BY <2>2
  <2>4. m = n /\ c = d
    BY <2>2, <2>3, RevisionDetermines
  <2> QED BY <1>1, <1>4, <2>1, <2>4 DEF HttpInv, HeldInv, NotModifiedIsTrue
<1>5. CASE ~(tag # None /\ tag = held.tag)
  <2>1. held' = [tag |-> tag, body |-> <<m, c>>]
    BY <1>1, <1>5
  <2>2. held'.tag = tag /\ held'.body = <<m, c>>
    BY <2>1
  <2>3. HeldInv'
    BY <1>2, <1>3, <2>2 DEF HeldInv
  <2> QED BY <1>1, <2>2, <2>3 DEF HttpInv, NotModifiedIsTrue
<1> QED BY <1>4, <1>5

\* A task that ends responds only when it is a request.
LEMMA FinishResponds ==
  ASSUME ModelInv, HttpInv, NEW t \in Tasks, NEW c \in Contexts \cup {None}, Finish(t, c),
         model[t] \in Versions
  PROVE  HttpInv'
<1>1. CASE t \in Requests
  BY <1>1, RespondKeeps DEF Finish
<1>2. CASE t \notin Requests
  <2>1. UNCHANGED <<held, last>>
    BY <1>2 DEF Finish, httpVars
  <2> QED BY <2>1 DEF HttpInv, HeldInv, NotModifiedIsTrue
<1> QED BY <1>1, <1>2

\* Only the steps that end a request answer one.
LEMMA NextHttpInv == ModelInv /\ HttpInv /\ [Next]_vars => HttpInv'
<1> SUFFICES ASSUME ModelInv, HttpInv, [Next]_vars PROVE HttpInv'
  OBVIOUS
<1>1. ASSUME UNCHANGED httpVars PROVE HttpInv'
  BY <1>1 DEF httpVars, HttpInv, HeldInv, NotModifiedIsTrue
<1>2. ASSUME NEW t \in Tasks, ContextStep(t) PROVE HttpInv'
  <2>1. /\ pc[t] \in {"read", "typeLock", "context"} => model[t] \in Versions
        /\ pc[t] \in {"typeLock", "context"} => reads[t] \in Versions
        /\ ctx \in Contexts \cup {None}
    BY DEF ModelInv, CarriedInv, TypeOK
  <2>2. CASE ReadTypes(t)
    <3>1. model[t] \in Versions
      BY <2>1, <2>2 DEF ReadTypes
    <3>2. Finish(t, ctx) \/ Respond(model[t], ctx) \/ UNCHANGED httpVars
      BY <2>2 DEF ReadTypes
    <3> QED BY <1>1, <2>1, <3>1, <3>2, FinishResponds, RespondKeeps
  <2>3. CASE TakeTypeLock(t)
    <3>1. model[t] \in Versions
      BY <2>1, <2>3 DEF TakeTypeLock
    <3>2. Finish(t, ctx) \/ UNCHANGED httpVars
      BY <2>3 DEF TakeTypeLock
    <3> QED BY <1>1, <2>1, <3>1, <3>2, FinishResponds
  <2>4. CASE ContextBuilt(t)
    <3>1. model[t] \in Versions /\ reads[t] \in Versions
      BY <2>1, <2>4 DEF ContextBuilt
    <3>2. PICK n \in Names : Finish(t, [model |-> model[t], types |-> reads[t], names |-> n])
      BY <2>4 DEF ContextBuilt
    <3>3. [model |-> model[t], types |-> reads[t], names |-> n] \in Contexts \cup {None}
      BY <3>1 DEF Contexts
    <3> QED BY <3>1, <3>2, <3>3, FinishResponds
  <2>5. CASE ContextFails(t)
    <3>1. model[t] \in Versions /\ Finish(t, None) /\ None \in Contexts \cup {None}
      BY <2>1, <2>5 DEF ContextFails
    <3> QED BY <3>1, FinishResponds
  <2> QED BY <1>2, <2>2, <2>3, <2>4, <2>5 DEF ContextStep
<1>3. \/ UNCHANGED httpVars
      \/ \E t \in Tasks : ContextStep(t)
  BY DEF Next, vars, Startup, PreloadBuilt, PreloadFails, RefreshDue, StartRetype, GetModel,
         ModelStep, TakeModelLock, ModelBuilt, ModelFails, World, BeginShutdown, Shutdown,
         CancelNext, Cancel
<1> QED BY <1>1, <1>2, <1>3

\* A client told 304 holds the body the server would have sent, whatever was rebuilt,
\* served stale or failed in between, and whatever the name lookups of a build return.
THEOREM NotModifiedMeansSame == Spec => []NotModifiedIsTrue
<1>1. Init => HttpInv
  BY InitModelInv DEF Init, HttpInv, NotModifiedIsTrue
<1>2. HttpInv => NotModifiedIsTrue
  BY DEF HttpInv
<1> QED BY <1>1, <1>2, InitModelInv, NextModelInv, NextHttpInv, PTL DEF Spec

=============================================================================
