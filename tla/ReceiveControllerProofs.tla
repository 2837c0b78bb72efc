----------------------- MODULE ReceiveControllerProofs -----------------------
(***************************************************************************)
(* Proofs about the ThanosReceive reconcile loop, for every value of the   *)
(* constants that satisfies ReceiveAssumption.                             *)
(***************************************************************************)
EXTENDS ReceiveController, SequenceTheorems, TLAPS

USE HashringAssumption, ReceiveAssumption

-----------------------------------------------------------------------------
(* Routing tables.                                                         *)

(* A function from some shards to sets of hosts is a routing table.        *)
LEMMA TableIntro ==
    ASSUME NEW D \in SUBSET Shards, NEW f \in [D -> SUBSET Hosts]
    PROVE  f \in Table
BY DEF Table

(* A routing table maps shards to sets of hosts.                           *)
LEMMA TableElim ==
    ASSUME NEW f \in Table
    PROVE  /\ DOMAIN f \subseteq Shards
           /\ f \in [DOMAIN f -> SUBSET Hosts]
BY DEF Table

(* BuildHashrings yields a routing table.                                  *)
LEMMA BuildHashringsType ==
    ASSUME NEW old \in Table, NEW list \in Seq(Shards),
           NEW seen \in [Shards -> SUBSET Hosts]
    PROVE  BuildHashrings(old, list, seen) \in Table
<1>1. ShardSet(list) \subseteq Shards
  BY DEF ShardSet, Range
<1>2. \A s \in ShardSet(list) : Entry(old, seen, s) \in SUBSET Hosts
  <2>1. DOMAIN old \subseteq Shards /\ old \in [DOMAIN old -> SUBSET Hosts]
    BY TableElim
  <2>2. QED BY <1>1, <2>1 DEF Entry
<1>3. QED BY <1>1, <1>2, TableIntro DEF BuildHashrings

-----------------------------------------------------------------------------
(* Type correctness.                                                       *)

LEMMA EmptyTableType == EmptyTable \in Table
BY TableIntro DEF EmptyTable

LEMMA IdleType == Idle \in Worker
BY EmptyTableType DEF Idle, Worker, NoneSeen

(* The objects one pass applies: its ingesters, then the ConfigMap.        *)
LEMMA ApplyListType ==
    ASSUME NEW list \in Seq(Shards)
    PROVE  IngesterObjs(list) \o <<ConfigMapObj>> \in Seq(Objs)
<1>1. IngesterObjs(list) \in Seq(Objs)
  BY DEF IngesterObjs, Objs
<1>2. <<ConfigMapObj>> \in Seq(Objs)
  BY DEF Objs
<1>3. QED BY <1>1, <1>2, ConcatProperties

(* A record of well-typed fields is a worker state.                       *)
LEMMA WorkerIntro ==
    ASSUME NEW pc \in {"idle", "getcm", "list", "apply"}, NEW snap \in Seq(Shards),
           NEW old \in Table, NEW i \in Nat \ {0},
           NEW seen \in [Shards -> SUBSET Hosts], NEW desired \in Table,
           NEW todo \in Seq(Objs), NEW errs \in Nat
    PROVE  [pc |-> pc, snap |-> snap, old |-> old, i |-> i, seen |-> seen,
            desired |-> desired, todo |-> todo, errs |-> errs] \in Worker
BY DEF Worker

(* A worker state is the record of its fields.                             *)
LEMMA WorkerElim ==
    ASSUME NEW r \in Worker
    PROVE  r = [pc |-> r.pc, snap |-> r.snap, old |-> r.old, i |-> r.i,
                seen |-> r.seen, desired |-> r.desired, todo |-> r.todo,
                errs |-> r.errs]
BY DEF Worker

(* The worker's part of the type invariant.                               *)
WorkerOK == w \in Worker /\ (w.pc = "idle" => w = Idle)

(* Every step keeps the worker well formed.                                *)
LEMMA WorkerStep ==
    ASSUME TypeOK, [Next]_vars
    PROVE  WorkerOK'
<1> USE DEF TypeOK, WorkerOK
<1>0. w = [pc |-> w.pc, snap |-> w.snap, old |-> w.old, i |-> w.i,
           seen |-> w.seen, desired |-> w.desired, todo |-> w.todo,
           errs |-> w.errs]
  BY WorkerElim
<1>1. CASE StartReconcile
  <2>1. CASE UNCHANGED w
    BY <2>1
  <2>2. CASE w' = [Idle EXCEPT !.pc = "getcm", !.snap = crSpec]
    <3>1. crSpec \in Seq(Shards)
      OBVIOUS
    <3>2. w' \in Worker
      BY <2>2, <3>1, IdleType DEF Worker
    <3>3. w'.pc # "idle"
      BY <2>2, IdleType DEF Worker
    <3>4. QED BY <3>2, <3>3
  <2>3. QED BY <1>1, <2>1, <2>2 DEF StartReconcile, HandleDeletionTimestamp
<1>2. CASE GetConfigMap
  <2>1. CASE w' = Idle
    BY <2>1, IdleType
  <2>2. CASE w' = [w EXCEPT !.pc = "list",
                            !.old = IF cmCache.exists THEN cmCache.table
                                    ELSE EmptyTable]
    <3>1. (IF cmCache.exists THEN cmCache.table ELSE EmptyTable) \in Table
      BY EmptyTableType
    <3>2. w' \in Worker
      BY <2>2, <3>1 DEF Worker
    <3>3. QED BY <2>2, <3>2
  <2>3. QED BY <1>2, <2>1, <2>2 DEF GetConfigMap, Finish
<1>3. CASE ListSlices
  <2>1. w.i \in 1..Len(w.snap) /\ w.snap \in Seq(Shards)
    BY <1>3 DEF ListSlices, Worker
  <2>2. w.snap[w.i] \in Shards
    BY <2>1
  <2>3. CASE w' = Idle
    BY <2>3, IdleType
  <2>4. CASE w' = [w EXCEPT !.seen[w.snap[w.i]] = sliceCache[w.snap[w.i]],
                            !.i = w.i + 1]
    <3>1. [w.seen EXCEPT ![w.snap[w.i]] = sliceCache[w.snap[w.i]]]
            \in [Shards -> SUBSET Hosts]
      BY <2>2 DEF Worker
    <3>2. w.i + 1 \in Nat \ {0}
      BY DEF Worker
    <3>3. w' = [pc |-> w.pc, snap |-> w.snap, old |-> w.old, i |-> w.i + 1,
                seen |-> [w.seen EXCEPT ![w.snap[w.i]] = sliceCache[w.snap[w.i]]],
                desired |-> w.desired, todo |-> w.todo, errs |-> w.errs]
      BY <2>4, <1>0
    <3>4. w' \in Worker
      BY <2>1, <3>1, <3>2, <3>3, WorkerIntro DEF Worker
    <3>5. w'.pc # "idle"
      BY <1>3, <3>3 DEF ListSlices
    <3>6. QED BY <3>4, <3>5
  <2>5. QED BY <1>3, <2>3, <2>4 DEF ListSlices, Finish
<1>4. CASE BuildConfig
  <2>1. BuildHashrings(w.old, w.snap, w.seen) \in Table
    BY BuildHashringsType DEF Worker
  <2>2. IngesterObjs(w.snap) \o <<ConfigMapObj>> \in Seq(Objs)
    BY ApplyListType DEF Worker
  <2>3. QED BY <1>4, <2>1, <2>2 DEF BuildConfig, Worker
<1>5. CASE ApplyIngester \/ ApplyConfigMap
  <2>1. Tail(w.todo) \in Seq(Objs)
    BY <1>5, HeadTailProperties DEF ApplyIngester, ApplyConfigMap, Worker
  <2>2. w.errs + 1 \in Nat
    BY DEF Worker
  <2>3. w.pc = "apply"
    BY <1>5 DEF ApplyIngester, ApplyConfigMap
  <2>4. CASE w' = ObjFailed
    <3>1. w' = [pc |-> w.pc, snap |-> w.snap, old |-> w.old, i |-> w.i,
                seen |-> w.seen, desired |-> w.desired, todo |-> Tail(w.todo),
                errs |-> w.errs + 1]
      BY <2>4, <1>0 DEF ObjFailed
    <3>2. w' \in Worker
      BY <2>1, <2>2, <3>1, WorkerIntro DEF Worker
    <3>3. QED BY <2>3, <3>1, <3>2
  <2>5. CASE w' = ObjDone
    <3>1. w' = [pc |-> w.pc, snap |-> w.snap, old |-> w.old, i |-> w.i,
                seen |-> w.seen, desired |-> w.desired, todo |-> Tail(w.todo),
                errs |-> w.errs]
      BY <2>5, <1>0 DEF ObjDone
    <3>2. w' \in Worker
      BY <2>1, <3>1, WorkerIntro DEF Worker
    <3>3. QED BY <2>3, <3>1, <3>2
  <2>6. QED BY <1>5, <2>4, <2>5 DEF ApplyIngester, ApplyConfigMap
<1>6. CASE EndPass
  BY <1>6, IdleType DEF EndPass, Finish
<1>7. CASE ~Controller /\ UNCHANGED w
  BY <1>7
<1>8. QED
  <2>1. Informer \/ Environment \/ Resync \/ CollectGarbage \/ UNCHANGED vars
          => UNCHANGED w
    BY DEF Informer, SyncConfigMap, SyncSlices, Environment, CreateCR,
           UpdateSpec, DeleteCR, PodReady, PodUnready, Resync, CollectGarbage,
           vars
  <2>2. QED BY <1>1, <1>2, <1>3, <1>4, <1>5, <1>6, <1>7, <2>1
               DEF Next, Controller

(* Every step keeps the API server's objects and the informer caches     *)
(* well typed.                                                             *)
LEMMA ObjectsStep ==
    ASSUME TypeOK, [Next]_vars
    PROVE  /\ cmExists' \in BOOLEAN
           /\ cm' \in Table
           /\ ingesters' \in SUBSET Shards
           /\ sliceCache' \in [Shards -> SUBSET Hosts]
           /\ cmCache' \in [exists: BOOLEAN, table: Table]
           /\ cmStale' \in BOOLEAN
<1> USE DEF TypeOK
<1>1. CASE ApplyIngester
  <2>1. Head(w.todo) \in Objs /\ Head(w.todo) # ConfigMapObj
    BY <1>1, HeadTailProperties DEF ApplyIngester, Worker
  <2>2. Head(w.todo).shard \in Shards
    BY <2>1 DEF Objs, IngesterObj, ConfigMapObj
  <2>3. QED BY <1>1, <2>2 DEF ApplyIngester, cacheVars
<1>2. CASE ApplyConfigMap
  <2>1. w.desired \in Table
    BY DEF Worker
  <2>2. QED BY <1>2, <2>1 DEF ApplyConfigMap, cacheVars
<1>3. CASE CollectGarbage
  BY <1>3, EmptyTableType DEF CollectGarbage
<1>4. CASE SyncConfigMap
  BY <1>4 DEF SyncConfigMap
<1>5. CASE \E s \in Shards : SyncSlices(s)
  BY <1>5 DEF SyncSlices
<1>6. CASE ~ApplyIngester /\ ~ApplyConfigMap /\ ~CollectGarbage
           /\ ~SyncConfigMap /\ ~\E s \in Shards : SyncSlices(s)
  <2>1. UNCHANGED <<cmExists, cm, ingesters, sliceCache, cmCache, cmStale>>
    BY <1>6 DEF Next, Controller, Informer, Environment, StartReconcile,
                HandleDeletionTimestamp, GetConfigMap, ListSlices, BuildConfig,
                EndPass, CreateCR, UpdateSpec, DeleteCR, PodReady, PodUnready,
                Resync, vars, cacheVars
  <2>2. QED BY <2>1
<1>7. QED BY <1>1, <1>2, <1>3, <1>4, <1>5, <1>6

(* Every step keeps the subject, the pods, the queue and the budgets       *)
(* well typed.                                                             *)
LEMMA EnvironmentStep ==
    ASSUME TypeOK, [Next]_vars
    PROVE  /\ crPhase' \in {"absent", "active", "deleting", "gone"}
           /\ crSpec' \in ShardLists
           /\ crFinalizer' \in BOOLEAN
           /\ ready' \in [Shards -> SUBSET Hosts]
           /\ dirty' \in BOOLEAN
           /\ faults' \in 0..MaxFaults
           /\ envSteps' \in 0..MaxEnvSteps
<1> USE DEF TypeOK
<1>1. CASE Controller
  <2>1. UNCHANGED <<crPhase, crSpec, crFinalizer, ready, envSteps>>
    BY <1>1 DEF Controller, StartReconcile, HandleDeletionTimestamp,
                GetConfigMap, ListSlices,
                BuildConfig, ApplyIngester, ApplyConfigMap, EndPass
  <2>2. faults' \in 0..MaxFaults
    <3>1. faults' = faults \/ (faults < MaxFaults /\ faults' = faults + 1)
      BY <1>1 DEF Controller, StartReconcile, HandleDeletionTimestamp,
                  GetConfigMap, ListSlices,
                  BuildConfig, ApplyIngester, ApplyConfigMap, EndPass, CanFail, Fail
    <3>2. QED BY <3>1
  <2>3. dirty' \in BOOLEAN
    BY <1>1 DEF Controller, StartReconcile, HandleDeletionTimestamp,
                GetConfigMap, ListSlices,
                BuildConfig, ApplyIngester, ApplyConfigMap, EndPass, Finish
  <2>4. QED BY <2>1, <2>2, <2>3
<1>2. CASE CreateCR \/ UpdateSpec \/ DeleteCR
  <2>1. envSteps' \in 0..MaxEnvSteps
    BY <1>2 DEF CreateCR, UpdateSpec, DeleteCR, EnvStep
  <2>2. QED BY <1>2, <2>1 DEF CreateCR, UpdateSpec, DeleteCR
<1>3. CASE \E s \in Shards, h \in Hosts : PodReady(s, h) \/ PodUnready(s, h)
  <2>1. PICK s \in Shards, h \in Hosts : PodReady(s, h) \/ PodUnready(s, h)
    BY <1>3
  <2>2. envSteps' \in 0..MaxEnvSteps
    BY <2>1 DEF PodReady, PodUnready, EnvStep
  <2>3. ready' \in [Shards -> SUBSET Hosts]
    BY <2>1 DEF PodReady, PodUnready
  <2>4. dirty' \in BOOLEAN
    BY <2>1 DEF PodReady, PodUnready, EnqueueForEndpointSlice
  <2>5. QED BY <2>1, <2>2, <2>3, <2>4 DEF PodReady, PodUnready
<1>4. CASE Resync \/ CollectGarbage \/ SyncConfigMap
  BY <1>4 DEF Resync, CollectGarbage, SyncConfigMap
<1>7. CASE \E s \in Shards : SyncSlices(s)
  <2>1. PICK s \in Shards : SyncSlices(s)
    BY <1>7
  <2>2. QED BY <2>1 DEF SyncSlices, EnqueueForEndpointSlice
<1>5. CASE UNCHANGED vars
  BY <1>5 DEF vars
<1>6. QED BY <1>1, <1>2, <1>3, <1>4, <1>5, <1>7 DEF Next, Environment, Informer

(* The initial state is well typed.                                        *)
LEMMA TypeInit ==
    ASSUME Init PROVE TypeOK
<1>1. crFinalizer \in BOOLEAN /\ cmExists \in BOOLEAN /\ dirty \in BOOLEAN
      /\ cmStale \in BOOLEAN
  BY DEF Init
<1>2. envSteps \in 0..MaxEnvSteps /\ faults \in 0..MaxFaults
  BY DEF Init
<1>3. QED BY <1>1, <1>2, EmptyTableType, IdleType DEF Init, TypeOK

(* The type invariant holds in every reachable state.                      *)
THEOREM TypeCorrect == Spec => []TypeOK
<1>1. Init => TypeOK
  BY TypeInit
<1>2. TypeOK /\ [Next]_vars => TypeOK'
  BY WorkerStep, ObjectsStep, EnvironmentStep DEF TypeOK, WorkerOK
<1>3. QED BY <1>1, <1>2, PTL DEF Spec

=============================================================================
