--------------------- MODULE ReceiveConvergenceProofs ---------------------
(***************************************************************************)
(* No lost wake-up in the ThanosReceive reconcile loop, for every value of *)
(* the constants: when the endpoint-slice mapper finds the Service, an     *)
(* active subject whose key is not queued, whose worker is idle and whose  *)
(* informers have caught up has the ingesters and the hashring ConfigMap   *)
(* its spec and the ready endpoints call for.  The argument is the         *)
(* inductive invariant ReceiveInductive.                                   *)
(***************************************************************************)
EXTENDS ReceiveControllerProofs

USE HashringAssumption, ReceiveAssumption

-----------------------------------------------------------------------------
(* The parts of ReceiveInductive beyond the type invariant: what holds of  *)
(* the cluster and the caches (RReady, RCache, RCm), and what holds of the *)
(* pass in progress.                                                       *)
RReady == \A s \in Shards : ready[s] # {} => s \in ingesters
RCache == \A s \in Shards : sliceCache[s] # {} => s \in ingesters \/ crPhase = "gone"
RCm ==
    /\ ~cmStale => cmCache = [exists |-> cmExists, table |-> cm]
    /\ ~cmExists => cm = EmptyTable
RStart ==
    /\ w.pc = "getcm" => w.i = 1
    /\ w.pc \in {"getcm", "list"} => w.errs = 0
    /\ w.pc = "list" => w.i <= Len(w.snap) + 1
    /\ w.pc = "apply" => w.desired = BuildHashrings(w.old, w.snap, w.seen)
RPass == w.pc # "idle" /\ ~dirty => crPhase = "active" /\ w.snap = crSpec
RList ==
    w.pc = "list" /\ ~dirty =>
        \A k \in 1..(w.i - 1) : w.seen[w.snap[k]] = sliceCache[w.snap[k]]
RApply ==
    w.pc = "apply" /\ ~dirty =>
        /\ IsInjective(w.todo)
        /\ \A s \in ShardSet(w.snap) : w.seen[s] = sliceCache[s]
        /\ w.errs = 0 =>
              /\ \A s \in ShardSet(w.snap) :
                    IngesterObj(s) \notin Range(w.todo) => s \in ingesters
              /\ ConfigMapObj \notin Range(w.todo) =>
                    cmStale \/ (cmExists /\ cm = w.desired)

(* What a step must re-establish about the pass.                           *)
RWorker == QuiescentConverged /\ RStart /\ RPass /\ RList /\ RApply

LEMMA InductiveParts ==
    ReceiveInductive <=> /\ TypeOK /\ RReady /\ RCache /\ RCm /\ RWorker
BY DEF ReceiveInductive, RReady, RCache, RCm, RWorker, RStart, RPass, RList,
       RApply

(* The type invariant is kept by every step.                               *)
LEMMA TypeStep ==
    ASSUME TypeOK, [Next]_vars
    PROVE  TypeOK'
BY WorkerStep, ObjectsStep, EnvironmentStep DEF TypeOK, WorkerOK

(* The cluster and the caches.  A ready endpoint belongs to an existing    *)
(* ingester: pods become ready only in existing StatefulSets, and the      *)
(* garbage collector takes the endpoint slices with the Services.  The     *)
(* slice cache copies ready endpoints, and the ConfigMap cache the         *)
(* ConfigMap, when the informer catches up; every write of the ConfigMap   *)
(* leaves an event to come.                                                *)
LEMMA WorldStep ==
    ASSUME TypeOK, RReady, RCache, RCm, [Next]_vars
    PROVE  (RReady /\ RCache /\ RCm)'
<1> USE DEF TypeOK
<1>1. CASE \E s \in Shards, h \in Hosts : PodReady(s, h) \/ PodUnready(s, h)
  <2>1. PICK s \in Shards, h \in Hosts : PodReady(s, h) \/ PodUnready(s, h)
    BY <1>1
  <2>2. UNCHANGED <<crPhase, ingesters, cacheVars, cmExists, cm>>
    BY <2>1 DEF PodReady, PodUnready
  <2>3. RReady'
    BY <2>1 DEF PodReady, PodUnready, RReady
  <2>4. QED BY <2>2, <2>3 DEF RCache, RCm, cacheVars
<1>2. CASE ApplyIngester
  <2>1. ingesters \subseteq ingesters'
    BY <1>2 DEF ApplyIngester
  <2>2. UNCHANGED <<crPhase, ready, cacheVars, cmExists, cm>>
    BY <1>2 DEF ApplyIngester
  <2>3. QED BY <2>1, <2>2 DEF RReady, RCache, RCm, cacheVars
<1>3. CASE ApplyConfigMap
  <2>1. UNCHANGED <<crPhase, ready, ingesters, sliceCache, cmCache>>
    BY <1>3 DEF ApplyConfigMap
  <2>2. UNCHANGED <<cmExists, cm, cmStale>> \/ (cmStale' /\ cmExists')
    BY <1>3 DEF ApplyConfigMap
  <2>3. QED BY <2>1, <2>2 DEF RReady, RCache, RCm
<1>4. CASE CollectGarbage
  <2>1. /\ crPhase = "gone" /\ crPhase' = "gone"
        /\ ready' = [s \in Shards |-> {}]
        /\ UNCHANGED <<sliceCache, cmCache>>
        /\ cmExists' = FALSE /\ cm' = EmptyTable
        /\ cmStale' = (cmStale \/ cmExists)
    BY <1>4 DEF CollectGarbage
  <2>2. RCm'
    <3> SUFFICES ASSUME ~cmStale' PROVE cmCache' = [exists |-> cmExists', table |-> cm']
      BY <2>1 DEF RCm
    <3>1. cmStale = FALSE /\ cmExists = FALSE
      BY <2>1
    <3>2. cmCache = [exists |-> FALSE, table |-> EmptyTable]
      BY <3>1 DEF RCm
    <3>3. QED BY <2>1, <3>2
  <2>3. QED BY <2>1, <2>2 DEF RReady, RCache
<1>5. CASE \E s \in Shards : SyncSlices(s)
  <2>1. PICK s \in Shards : SyncSlices(s)
    BY <1>5
  <2>2. /\ sliceCache' = [sliceCache EXCEPT ![s] = ready[s]]
        /\ UNCHANGED <<crPhase, ready, ingesters, cmCache, cmStale, cmExists, cm>>
    BY <2>1 DEF SyncSlices
  <2>3. RCache'
    BY <2>2 DEF RCache, RReady
  <2>4. QED BY <2>2, <2>3 DEF RReady, RCm
<1>6. CASE SyncConfigMap
  BY <1>6 DEF SyncConfigMap, RReady, RCache, RCm
<1>7. CASE CreateCR \/ UpdateSpec \/ DeleteCR
  <2>1. crPhase \in {"absent", "active"}
    BY <1>7 DEF CreateCR, UpdateSpec, DeleteCR
  <2>2. UNCHANGED <<ready, ingesters, cacheVars, cmExists, cm>>
    BY <1>7 DEF CreateCR, UpdateSpec, DeleteCR
  <2>3. \A s \in Shards : sliceCache[s] # {} => s \in ingesters
    BY <2>1 DEF RCache
  <2>4. QED BY <2>2, <2>3 DEF RReady, RCache, RCm, cacheVars
<1>8. CASE \/ StartReconcile \/ GetConfigMap \/ ListSlices \/ BuildConfig
           \/ EndPass \/ Resync \/ UNCHANGED vars
  <2>1. UNCHANGED <<crPhase, ready, ingesters, cacheVars, cmExists, cm>>
    BY <1>8 DEF StartReconcile, GetConfigMap, ListSlices, BuildConfig,
                EndPass, Resync, vars, cacheVars
  <2>2. QED BY <2>1 DEF RReady, RCache, RCm, cacheVars
<1>9. QED BY <1>1, <1>2, <1>3, <1>4, <1>5, <1>6, <1>7, <1>8
          DEF Next, Controller, Informer, Environment

(* Every change the user, the pods, the resync, the garbage collector and  *)
(* the ConfigMap informer make queues the key and leaves the worker alone. *)
LEMMA EnvQueues ==
    ASSUME Environment \/ Resync \/ CollectGarbage \/ SyncConfigMap
    PROVE  dirty' = TRUE /\ UNCHANGED w
<1>1. CASE CreateCR \/ UpdateSpec \/ DeleteCR \/ Resync \/ CollectGarbage
           \/ SyncConfigMap
  BY <1>1 DEF CreateCR, UpdateSpec, DeleteCR, Resync, CollectGarbage,
              SyncConfigMap
<1>2. CASE \E s \in Shards, h \in Hosts : PodReady(s, h) \/ PodUnready(s, h)
  <2>1. PICK s \in Shards, h \in Hosts : PodReady(s, h) \/ PodUnready(s, h)
    BY <1>2
  <2>2. QED BY <2>1 DEF PodReady, PodUnready
<1>3. QED BY <1>1, <1>2 DEF Environment

(* A step that queues the key and leaves the worker alone.                 *)
LEMMA QueuingStep ==
    ASSUME RStart, dirty' = TRUE, UNCHANGED w
    PROVE  RWorker'
BY DEF RWorker, QuiescentConverged, Quiescent, RStart, RPass, RList, RApply

(* A step that leaves the worker idle, with the key queued, the subject    *)
(* not active, or an event still to come.                                  *)
LEMMA IdleStep ==
    ASSUME w' = Idle, dirty' = TRUE \/ crPhase' # "active" \/ EventsPending'
    PROVE  RWorker'
<1>1. w'.pc = "idle"
  BY DEF Idle
<1>2. QED BY <1>1 DEF RWorker, QuiescentConverged, Quiescent, RStart, RPass,
                      RList, RApply

(* The slice informer catches up with a shard.  When the mapper finds the  *)
(* Service the key is queued; it finds none only for a shard without an   *)
(* ingester, which has no ready endpoint, so the cache dropped endpoints   *)
(* of a gone subject, for which no pass is running unqueued.               *)
LEMMA SyncStep ==
    ASSUME EventsDelivered, ReceiveInductive, NEW s \in Shards, SyncSlices(s)
    PROVE  RWorker'
<1>1. TypeOK /\ RReady /\ RCache /\ RStart /\ RPass
  BY InductiveParts DEF RWorker
<1>2. /\ UNCHANGED <<w, crPhase>>
      /\ sliceCache[s] # ready[s]
      /\ EnqueueForEndpointSlice(s)
  BY DEF SyncSlices
<1>3. CASE s \in ingesters /\ dirty' = TRUE
  BY <1>1, <1>2, <1>3, QueuingStep
<1>4. CASE (s \notin ingesters \/ MapGetCanFail) /\ UNCHANGED dirty
  <2>1. s \notin ingesters
    BY <1>4 DEF EventsDelivered
  <2>2. ready[s] = {} /\ sliceCache[s] # {}
    BY <1>1, <1>2, <2>1 DEF RReady
  <2>3. crPhase = "gone"
    BY <1>1, <2>1, <2>2 DEF RCache
  <2>4. w.pc = "idle" \/ dirty
    BY <1>1, <2>3 DEF RPass
  <2>5. QED BY <1>1, <1>2, <1>4, <2>3, <2>4
             DEF RWorker, QuiescentConverged, RStart, RPass, RList, RApply
<1>5. QED BY <1>2, <1>3, <1>4 DEF EnqueueForEndpointSlice

-----------------------------------------------------------------------------
(* The objects of one pass.                                                *)

(* An ingester is not the ConfigMap, and ingesters of distinct shards are *)
(* distinct objects.                                                       *)
LEMMA ObjDistinct ==
    ASSUME NEW x, NEW y
    PROVE  /\ IngesterObj(x) # ConfigMapObj
           /\ IngesterObj(x) = IngesterObj(y) => x = y
BY DEF IngesterObj, ConfigMapObj

(* For a spec without duplicate hashrings, syncResources' list names each *)
(* object once, every declared ingester and the ConfigMap among them.     *)
LEMMA ApplyListShape ==
    ASSUME NEW l \in Seq(Shards), IsInjective(l)
    PROVE  LET F == IngesterObjs(l) \o <<ConfigMapObj>> IN
           /\ IsInjective(F)
           /\ \A s \in ShardSet(l) : IngesterObj(s) \in Range(F)
           /\ ConfigMapObj \in Range(F)
<1> DEFINE F == IngesterObjs(l) \o <<ConfigMapObj>>
<1>1. IngesterObjs(l) \in Seq(Objs) /\ Len(IngesterObjs(l)) = Len(l)
  BY DEF IngesterObjs, Objs
<1>2. <<ConfigMapObj>> \in Seq(Objs)
  BY DEF Objs
<1>3. /\ Len(F) = Len(l) + 1
      /\ DOMAIN F = 1..Len(l) + 1
      /\ \A k \in 1..Len(l) : F[k] = IngesterObj(l[k])
      /\ F[Len(l) + 1] = ConfigMapObj
  <2>1. F \in Seq(Objs) /\ Len(F) = Len(l) + 1
        /\ \A i \in 1..Len(l) + 1 :
              F[i] = IF i <= Len(l) THEN IngesterObjs(l)[i]
                     ELSE <<ConfigMapObj>>[i - Len(l)]
    BY <1>1, <1>2, ConcatProperties
  <2>2. QED BY <2>1, LenProperties DEF IngesterObjs
<1>4. IsInjective(F)
  <2> SUFFICES ASSUME NEW a \in DOMAIN F, NEW b \in DOMAIN F, F[a] = F[b]
               PROVE  a = b
    BY DEF IsInjective
  <2>1. CASE a <= Len(l) /\ b <= Len(l)
    <3>1. l[a] = l[b]
      BY <1>3, <2>1, ObjDistinct
    <3>2. QED BY <1>3, <2>1, <3>1 DEF IsInjective
  <2>2. CASE a <= Len(l) /\ b = Len(l) + 1
    BY <1>3, <2>2, ObjDistinct
  <2>3. CASE a = Len(l) + 1 /\ b <= Len(l)
    BY <1>3, <2>3, ObjDistinct
  <2>4. QED BY <1>3, <2>1, <2>2, <2>3
<1>5. \A s \in ShardSet(l) : IngesterObj(s) \in Range(F)
  BY <1>3 DEF ShardSet, Range
<1>6. ConfigMapObj \in Range(F)
  BY <1>3 DEF Range
<1>7. QED BY <1>4, <1>5, <1>6

(* The loop takes the head of a list that names each object once: the     *)
(* rest names each object once too, and not the head.                     *)
LEMMA TailShape ==
    ASSUME NEW t \in Seq(Objs), t # <<>>, IsInjective(t)
    PROVE  /\ IsInjective(Tail(t))
           /\ Range(Tail(t)) = Range(t) \ {Head(t)}
<1>1. /\ Len(Tail(t)) = Len(t) - 1
      /\ DOMAIN Tail(t) = 1..Len(t) - 1
      /\ \A i \in 1..Len(t) - 1 : Tail(t)[i] = t[i + 1]
      /\ Head(t) = t[1] /\ DOMAIN t = 1..Len(t) /\ Len(t) >= 1
  BY HeadTailProperties, LenProperties, EmptySeq
<1>2. IsInjective(Tail(t))
  BY <1>1 DEF IsInjective
<1>3. Range(Tail(t)) = Range(t) \ {Head(t)}
  <2>1. Range(Tail(t)) \subseteq Range(t) \ {Head(t)}
    BY <1>1 DEF IsInjective, Range
  <2>2. Range(t) \ {Head(t)} \subseteq Range(Tail(t))
    <3> SUFFICES ASSUME NEW k \in 1..Len(t), t[k] # Head(t)
                 PROVE  t[k] \in Range(Tail(t))
      BY <1>1 DEF Range
    <3>1. k - 1 \in 1..Len(t) - 1 /\ Tail(t)[k - 1] = t[k]
      BY <1>1
    <3>2. QED BY <1>1, <3>1 DEF Range
  <2>3. QED BY <2>1, <2>2
<1>4. QED BY <1>2, <1>3

-----------------------------------------------------------------------------
(* The worker's steps.                                                     *)

(* Taking the key: the pass starts from the spec it reads now.             *)
LEMMA StartStep ==
    ASSUME ReceiveInductive, StartReconcile
    PROVE  RWorker'
<1>1. TypeOK /\ RStart
  BY InductiveParts DEF RWorker
<1>2. UNCHANGED <<crPhase, crSpec>> /\ w.pc = "idle" /\ dirty
  BY DEF StartReconcile
<1>3. CASE CanFail /\ Fail /\ UNCHANGED <<w, dirty>>
  BY <1>1, <1>2, <1>3, QueuingStep
<1>4. CASE crPhase \in {"absent", "gone"} /\ dirty' = FALSE
           /\ UNCHANGED <<w, faults>>
  BY <1>1, <1>2, <1>4, IdleStep DEF TypeOK
<1>5. CASE crPhase = "deleting" /\ HandleDeletionTimestamp
  BY <1>1, <1>2, <1>5, IdleStep DEF TypeOK, HandleDeletionTimestamp
<1>6. CASE crPhase = "active" /\ w' = [Idle EXCEPT !.pc = "getcm", !.snap = crSpec]
           /\ dirty' = FALSE
  <2>1. w'.pc = "getcm" /\ w'.i = 1 /\ w'.errs = 0 /\ w'.snap = crSpec
    BY <1>6 DEF Idle
  <2>2. QED BY <1>2, <1>6, <2>1 DEF RWorker, QuiescentConverged, Quiescent,
                                    RStart, RPass, RList, RApply
<1>7. QED BY <1>3, <1>4, <1>5, <1>6 DEF StartReconcile

(* Getting the ConfigMap from the cache: the list phase starts with        *)
(* nothing listed.                                                         *)
LEMMA GetStep ==
    ASSUME ReceiveInductive, GetConfigMap
    PROVE  RWorker'
<1>1. TypeOK /\ RStart /\ RPass
  BY InductiveParts DEF RWorker
<1>2. w = [pc |-> w.pc, snap |-> w.snap, old |-> w.old, i |-> w.i,
           seen |-> w.seen, desired |-> w.desired, todo |-> w.todo,
           errs |-> w.errs]
  BY <1>1, WorkerElim DEF TypeOK
<1>3. UNCHANGED <<crPhase, crSpec>> /\ w.pc = "getcm"
  BY DEF GetConfigMap
<1>4. CASE CanFail /\ Fail /\ Finish(TRUE)
  BY <1>4, IdleStep DEF Finish
<1>5. CASE w' = [w EXCEPT !.pc = "list",
                          !.old = IF cmCache.exists THEN cmCache.table
                                  ELSE EmptyTable]
           /\ UNCHANGED <<faults, dirty>>
  <2>1. w'.pc = "list" /\ w'.i = w.i /\ w'.errs = w.errs /\ w'.snap = w.snap
    BY <1>2, <1>5
  <2>2. w.i = 1 /\ w.errs = 0 /\ w.snap \in Seq(Shards)
    BY <1>1, <1>3 DEF RStart, TypeOK, Worker
  <2>3. RStart'
    BY <2>1, <2>2 DEF RStart
  <2>4. RPass'
    BY <1>1, <1>3, <1>5, <2>1 DEF RPass
  <2>5. (QuiescentConverged /\ RList /\ RApply)'
    BY <2>1, <2>2 DEF QuiescentConverged, Quiescent, RList, RApply
  <2>6. QED BY <2>3, <2>4, <2>5 DEF RWorker
<1>6. QED BY <1>4, <1>5 DEF GetConfigMap

(* Listing a shard's endpoint slices from the cache: what the pass listed *)
(* is what the cache holds now, as long as no event queued the key.        *)
LEMMA ListStep ==
    ASSUME ReceiveInductive, ListSlices
    PROVE  RWorker'
<1>1. TypeOK /\ RStart /\ RPass /\ RList
  BY InductiveParts DEF RWorker
<1>2. w = [pc |-> w.pc, snap |-> w.snap, old |-> w.old, i |-> w.i,
           seen |-> w.seen, desired |-> w.desired, todo |-> w.todo,
           errs |-> w.errs]
  BY <1>1, WorkerElim DEF TypeOK
<1>3. /\ UNCHANGED <<crPhase, crSpec, sliceCache>>
      /\ w.pc = "list" /\ w.i \in 1..Len(w.snap)
      /\ w.snap \in Seq(Shards) /\ w.seen \in [Shards -> SUBSET Hosts]
  BY <1>1 DEF ListSlices, TypeOK, Worker, cacheVars
<1>4. CASE CanFail /\ Fail /\ Finish(TRUE)
  BY <1>4, IdleStep DEF Finish
<1>5. CASE w' = [w EXCEPT !.seen[w.snap[w.i]] = sliceCache[w.snap[w.i]],
                          !.i = w.i + 1]
           /\ UNCHANGED <<faults, dirty>>
  <2> DEFINE x == w.snap[w.i]
  <2>1. /\ w'.pc = "list" /\ w'.i = w.i + 1 /\ w'.errs = w.errs
        /\ w'.snap = w.snap
        /\ w'.seen = [w.seen EXCEPT ![x] = sliceCache[x]]
    BY <1>2, <1>3, <1>5
  <2>2. RStart'
    BY <1>1, <1>3, <2>1 DEF RStart
  <2>3. RPass'
    BY <1>1, <1>3, <1>5, <2>1 DEF RPass
  <2>4. RList'
    <3> SUFFICES ASSUME ~dirty', NEW k \in 1..w.i
                 PROVE  w'.seen[w.snap[k]] = sliceCache[w.snap[k]]
      BY <1>3, <2>1 DEF RList
    <3>1. w.snap[k] \in Shards /\ x \in Shards
      BY <1>3
    <3>2. CASE w.snap[k] = x
      BY <2>1, <3>1, <3>2, <1>3
    <3>3. CASE w.snap[k] # x
      <4>1. k \in 1..(w.i - 1)
        BY <1>3, <3>3
      <4>2. w.seen[w.snap[k]] = sliceCache[w.snap[k]]
        BY <1>1, <1>3, <1>5, <4>1 DEF RList
      <4>3. QED BY <2>1, <3>1, <3>3, <4>2
    <3>4. QED BY <3>2, <3>3
  <2>5. (QuiescentConverged /\ RApply)'
    BY <2>1 DEF QuiescentConverged, Quiescent, RApply
  <2>6. QED BY <2>2, <2>3, <2>4, <2>5 DEF RWorker
<1>6. QED BY <1>4, <1>5 DEF ListSlices

(* After the last List: the pass will write every declared ingester and   *)
(* then the ConfigMap, each once, and has listed every declared shard.     *)
LEMMA BuildStep ==
    ASSUME ReceiveInductive, BuildConfig
    PROVE  RWorker'
<1>1. TypeOK /\ RStart /\ RPass /\ RList
  BY InductiveParts DEF RWorker
<1>2. w = [pc |-> w.pc, snap |-> w.snap, old |-> w.old, i |-> w.i,
           seen |-> w.seen, desired |-> w.desired, todo |-> w.todo,
           errs |-> w.errs]
  BY <1>1, WorkerElim DEF TypeOK
<1>3. /\ w.pc = "list" /\ w.i > Len(w.snap) /\ w.i \in Nat /\ w.errs = 0
      /\ w.snap \in Seq(Shards)
      /\ UNCHANGED <<crPhase, crSpec, sliceCache, dirty>>
  BY <1>1 DEF BuildConfig, RStart, TypeOK, Worker, cacheVars
<1>4. /\ w'.pc = "apply" /\ w'.snap = w.snap /\ w'.seen = w.seen
      /\ w'.old = w.old /\ w'.errs = w.errs
      /\ w'.desired = BuildHashrings(w.old, w.snap, w.seen)
      /\ w'.todo = IngesterObjs(w.snap) \o <<ConfigMapObj>>
  BY <1>2 DEF BuildConfig
<1>5. (QuiescentConverged /\ RStart /\ RPass /\ RList)'
  BY <1>1, <1>3, <1>4 DEF QuiescentConverged, Quiescent, RStart, RPass,
                          RList
<1>6. RApply'
  <2> SUFFICES ASSUME ~dirty
               PROVE  /\ IsInjective(w'.todo)
                      /\ \A s \in ShardSet(w.snap) : w.seen[s] = sliceCache[s]
                      /\ \A s \in ShardSet(w.snap) :
                            IngesterObj(s) \in Range(w'.todo)
                      /\ ConfigMapObj \in Range(w'.todo)
    BY <1>3, <1>4 DEF RApply
  <2>1. IsInjective(w.snap)
    <3>1. w.snap = crSpec /\ crSpec \in ShardLists
      BY <1>1, <1>3 DEF RPass, TypeOK
    <3>2. QED BY <3>1, ReceiveAssumption
  <2>2. \A s \in ShardSet(w.snap) : w.seen[s] = sliceCache[s]
    <3> SUFFICES ASSUME NEW k \in 1..Len(w.snap)
                 PROVE  w.seen[w.snap[k]] = sliceCache[w.snap[k]]
      BY <1>3, LenProperties DEF ShardSet, Range
    <3>1. k \in 1..(w.i - 1)
      BY <1>3
    <3>2. QED BY <1>1, <1>3, <3>1 DEF RList
  <2>3. QED BY <1>3, <1>4, <2>1, <2>2, ApplyListShape
<1>7. QED BY <1>5, <1>6 DEF RWorker

(* One object of syncResources' loop that failed: the error is counted and *)
(* nothing else changes.                                                   *)
LEMMA ApplyFailStep ==
    ASSUME ReceiveInductive, w.pc = "apply", w.todo # <<>>, w' = ObjFailed,
           UNCHANGED <<crPhase, crSpec, sliceCache, cmExists, cm, cmStale,
                       ingesters, dirty>>
    PROVE  RWorker'
<1>1. TypeOK /\ RStart /\ RPass /\ RApply
  BY InductiveParts DEF RWorker
<1>2. w = [pc |-> w.pc, snap |-> w.snap, old |-> w.old, i |-> w.i,
           seen |-> w.seen, desired |-> w.desired, todo |-> w.todo,
           errs |-> w.errs]
  BY <1>1, WorkerElim DEF TypeOK
<1>3. w.todo \in Seq(Objs) /\ w.errs \in Nat
  BY <1>1 DEF TypeOK, Worker
<1>4. ~dirty => /\ IsInjective(Tail(w.todo))
                /\ Range(Tail(w.todo)) = Range(w.todo) \ {Head(w.todo)}
  BY <1>1, <1>3, TailShape DEF RApply
<1>5. /\ w'.pc = "apply" /\ w'.snap = w.snap /\ w'.seen = w.seen
      /\ w'.old = w.old /\ w'.desired = w.desired
      /\ w'.todo = Tail(w.todo) /\ w'.errs = w.errs + 1
  BY <1>2 DEF ObjFailed
<1>6. (QuiescentConverged /\ RStart /\ RPass /\ RList)'
  BY <1>1, <1>5 DEF QuiescentConverged, Quiescent, RStart, RPass, RList
<1>7. RApply'
  BY <1>1, <1>3, <1>4, <1>5 DEF RApply
<1>8. QED BY <1>6, <1>7 DEF RWorker

(* One object of syncResources' loop that succeeded: it is right now, or,  *)
(* for the ConfigMap, its event is still to come.                          *)
LEMMA ApplyDoneStep ==
    ASSUME ReceiveInductive, w.pc = "apply", w.todo # <<>>, w' = ObjDone,
           UNCHANGED <<crPhase, crSpec, sliceCache>>,
           ~dirty' => ~dirty,
           ingesters \subseteq ingesters',
           Head(w.todo) # ConfigMapObj =>
               /\ Head(w.todo).shard \in ingesters'
               /\ UNCHANGED <<cmExists, cm, cmStale>>,
           Head(w.todo) = ConfigMapObj =>
               cmStale' \/ (cmExists' /\ cm' = w.desired)
    PROVE  RWorker'
<1>1. TypeOK /\ RStart /\ RPass /\ RApply
  BY InductiveParts DEF RWorker
<1>2. w = [pc |-> w.pc, snap |-> w.snap, old |-> w.old, i |-> w.i,
           seen |-> w.seen, desired |-> w.desired, todo |-> w.todo,
           errs |-> w.errs]
  BY <1>1, WorkerElim DEF TypeOK
<1>3. w.todo \in Seq(Objs) /\ w.errs \in Nat
  BY <1>1 DEF TypeOK, Worker
<1> DEFINE o == Head(w.todo)
<1>4. ~dirty => /\ IsInjective(Tail(w.todo))
                /\ Range(Tail(w.todo)) = Range(w.todo) \ {o}
  BY <1>1, <1>3, TailShape DEF RApply
<1>5. /\ w'.pc = "apply" /\ w'.snap = w.snap /\ w'.seen = w.seen
      /\ w'.old = w.old /\ w'.desired = w.desired
      /\ w'.todo = Tail(w.todo) /\ w'.errs = w.errs
  BY <1>2 DEF ObjDone
<1>6. (QuiescentConverged /\ RStart /\ RPass /\ RList)'
  BY <1>1, <1>5 DEF QuiescentConverged, Quiescent, RStart, RPass, RList
<1>7. RApply'
  <2> SUFFICES ASSUME ~dirty'
               PROVE  /\ IsInjective(Tail(w.todo))
                      /\ \A s \in ShardSet(w.snap) : w.seen[s] = sliceCache[s]
                      /\ w.errs = 0 =>
                           /\ \A s \in ShardSet(w.snap) :
                                 IngesterObj(s) \notin Range(Tail(w.todo))
                                    => s \in ingesters'
                           /\ ConfigMapObj \notin Range(Tail(w.todo))
                                 => cmStale' \/ (cmExists' /\ cm' = w.desired)
    BY <1>5 DEF RApply
  <2>1. ~dirty
    OBVIOUS
  <2>2. /\ IsInjective(Tail(w.todo))
        /\ Range(Tail(w.todo)) = Range(w.todo) \ {o}
    BY <1>4, <2>1
  <2>3. ASSUME NEW s \in ShardSet(w.snap), w.errs = 0,
               IngesterObj(s) \notin Range(Tail(w.todo))
        PROVE  s \in ingesters'
    <3>1. CASE IngesterObj(s) = o
      <4>1. o # ConfigMapObj /\ o.shard = s
        BY <3>1, ObjDistinct DEF IngesterObj
      <4>2. QED BY <4>1
    <3>2. CASE IngesterObj(s) # o
      BY <1>1, <2>1, <2>2, <2>3, <3>2 DEF RApply
    <3>3. QED BY <3>1, <3>2
  <2>4. ASSUME w.errs = 0, ConfigMapObj \notin Range(Tail(w.todo))
        PROVE  cmStale' \/ (cmExists' /\ cm' = w.desired)
    <3>1. CASE o = ConfigMapObj
      BY <3>1
    <3>2. CASE o # ConfigMapObj
      <4>1. cmStale \/ (cmExists /\ cm = w.desired)
        BY <1>1, <2>1, <2>2, <2>4, <3>2 DEF RApply
      <4>2. QED BY <3>2, <4>1
    <3>3. QED BY <3>1, <3>2
  <2>5. QED BY <1>1, <2>1, <2>2, <2>3, <2>4 DEF RApply
<1>8. QED BY <1>6, <1>7 DEF RWorker

(* CreateOrUpdate of an ingester.                                          *)
LEMMA ApplyIngesterStep ==
    ASSUME ReceiveInductive, ApplyIngester
    PROVE  RWorker'
<1>1. /\ w.pc = "apply" /\ w.todo # <<>> /\ Head(w.todo) # ConfigMapObj
      /\ UNCHANGED <<crPhase, crSpec, sliceCache, cmExists, cm, cmStale>>
  BY DEF ApplyIngester, cacheVars
<1>2. CASE w' = ObjFailed /\ UNCHANGED <<ingesters, dirty>>
  BY <1>1, <1>2, ApplyFailStep
<1>3. CASE /\ w' = ObjDone
           /\ ingesters' = ingesters \cup {Head(w.todo).shard}
           /\ dirty' = (dirty \/ Head(w.todo).shard \notin ingesters)
  BY <1>1, <1>3, ApplyDoneStep
<1>4. QED BY <1>2, <1>3 DEF ApplyIngester

(* CreateOrUpdate of the hashring ConfigMap, deciding from the cached      *)
(* copy: left alone when the cache already holds the table, which then is  *)
(* the ConfigMap's unless an event is still to come; written otherwise,    *)
(* with an event to come.                                                  *)
LEMMA ApplyConfigMapStep ==
    ASSUME ReceiveInductive, ApplyConfigMap
    PROVE  RWorker'
<1>1. RCm
  BY InductiveParts
<1>2. /\ w.pc = "apply" /\ w.todo # <<>> /\ Head(w.todo) = ConfigMapObj
      /\ UNCHANGED <<crPhase, crSpec, sliceCache, ingesters, dirty>>
  BY DEF ApplyConfigMap
<1>3. CASE w' = ObjFailed /\ UNCHANGED <<cmExists, cm, cmStale>>
  BY <1>2, <1>3, ApplyFailStep
<1>4. CASE CmUpToDate /\ w' = ObjDone /\ UNCHANGED <<cmExists, cm, cmStale>>
  <2>1. cmStale \/ (cmExists /\ cm = w.desired)
    BY <1>1, <1>4 DEF RCm, CmUpToDate
  <2>2. QED BY <1>2, <1>4, <2>1, ApplyDoneStep
<1>5. CASE w' = ObjDone /\ cmStale' = TRUE
  BY <1>2, <1>5, ApplyDoneStep
<1>6. QED BY <1>3, <1>4, <1>5 DEF ApplyConfigMap

(* The end of a pass that no event interrupted and no write failed, with   *)
(* the informers caught up: every declared ingester exists and the         *)
(* ConfigMap holds the table built from the endpoints ready now.           *)
LEMMA EndStep ==
    ASSUME ReceiveInductive, EndPass
    PROVE  RWorker'
<1>1. TypeOK /\ RStart /\ RPass /\ RApply
  BY InductiveParts DEF RWorker
<1>2. /\ w.pc = "apply" /\ w.todo = <<>> /\ w' = Idle
      /\ dirty' = (dirty \/ w.errs > 0) /\ w.errs \in Nat
      /\ UNCHANGED <<crPhase, crSpec, cmExists, cm, ingesters, ready,
                     sliceCache, cmStale>>
  BY <1>1 DEF EndPass, Finish, TypeOK, Worker, cacheVars
<1>3. CASE dirty' \/ EventsPending'
  BY <1>2, <1>3, IdleStep
<1>4. CASE ~dirty' /\ ~EventsPending'
  <2>a. ~dirty /\ ~(w.errs > 0)
    BY <1>2, <1>4, Zenon
  <2>0. ~dirty /\ w.errs = 0
    BY <1>2, <2>a
  <2>1. ~dirty /\ w.errs = 0 /\ crPhase = "active" /\ w.snap = crSpec
    BY <1>1, <1>2, <2>0 DEF RPass
  <2>2. Range(w.todo) = {}
    BY <1>2 DEF Range
  <2>3. ~cmStale /\ sliceCache = ready
    BY <1>2, <1>4 DEF EventsPending
  <2>4. /\ ShardSet(crSpec) \subseteq ingesters
        /\ cmExists /\ cm = w.desired
        /\ \A s \in ShardSet(crSpec) : w.seen[s] = ready[s]
    BY <1>1, <1>2, <2>1, <2>2, <2>3 DEF RApply
  <2>5. cm = [s \in ShardSet(crSpec) |-> Entry(w.old, w.seen, s)]
    BY <1>1, <1>2, <2>1, <2>4 DEF RStart, BuildHashrings
  <2>6. Converged
    <3>1. \A s \in ShardSet(crSpec) : ready[s] # {} => cm[s] = ready[s]
      BY <2>4, <2>5 DEF Entry
    <3>2. QED BY <2>4, <2>5, <3>1 DEF Converged, RMatches, RoutingOut,
                                      RoutingTarget
  <2>7. Converged'
    BY <1>2, <2>6 DEF Converged, RMatches, RoutingOut, RoutingTarget
  <2>8. w'.pc = "idle"
    BY <1>2 DEF Idle
  <2>9. QED BY <2>7, <2>8 DEF RWorker, QuiescentConverged, Quiescent, RStart,
                              RPass, RList, RApply
<1>5. QED BY <1>3, <1>4

-----------------------------------------------------------------------------
(* No lost wake-up.                                                        *)

LEMMA InductiveStep ==
    ASSUME EventsDelivered, ReceiveInductive, [Next]_vars
    PROVE  ReceiveInductive'
<1>1. TypeOK /\ RReady /\ RCache /\ RCm /\ RStart
  BY InductiveParts DEF RWorker
<1>2. TypeOK' /\ (RReady /\ RCache /\ RCm)'
  BY <1>1, TypeStep, WorldStep
<1>3. RWorker'
  <2>1. CASE StartReconcile
    BY <2>1, StartStep
  <2>2. CASE GetConfigMap
    BY <2>2, GetStep
  <2>3. CASE ListSlices
    BY <2>3, ListStep
  <2>4. CASE BuildConfig
    BY <2>4, BuildStep
  <2>5. CASE ApplyIngester
    BY <2>5, ApplyIngesterStep
  <2>6. CASE ApplyConfigMap
    BY <2>6, ApplyConfigMapStep
  <2>7. CASE EndPass
    BY <2>7, EndStep
  <2>8. CASE \E s \in Shards : SyncSlices(s)
    BY <2>8, SyncStep
  <2>9. CASE Environment \/ Resync \/ CollectGarbage \/ SyncConfigMap
    BY <1>1, <2>9, EnvQueues, QueuingStep
  <2>10. CASE UNCHANGED vars
    BY <1>1, <2>10, InductiveParts DEF vars, RWorker, QuiescentConverged,
       Quiescent, EventsPending, Converged, RMatches, RoutingOut,
       RoutingTarget, RStart, RPass, RList, RApply
  <2>11. QED BY <2>1, <2>2, <2>3, <2>4, <2>5, <2>6, <2>7, <2>8, <2>9, <2>10
              DEF Next, Controller, Informer
<1>4. QED BY <1>2, <1>3 DEF ReceiveInductive, RReady, RCache, RCm, RWorker,
                            RStart, RPass, RList, RApply

LEMMA InductiveInit ==
    ASSUME Init PROVE ReceiveInductive
<1>1. TypeOK
  BY TypeInit
<1>2. /\ w.pc = "idle" /\ crPhase = "absent"
      /\ ready = [s \in Shards |-> {}] /\ sliceCache = [s \in Shards |-> {}]
      /\ ~cmStale /\ cmCache = [exists |-> cmExists, table |-> cm]
      /\ ~cmExists /\ cm = EmptyTable
  BY DEF Init, Idle
<1>3. QED BY <1>1, <1>2, InductiveParts
          DEF RWorker, QuiescentConverged, RReady, RCache, RCm, RStart,
              RPass, RList, RApply

(* No lost wake-up, for every instance: when the endpoint-slice mapper     *)
(* always finds the Service, an idle worker with an unqueued key and       *)
(* informers that have caught up leaves an active ThanosReceive with an    *)
(* ingester per declared hashring and a ConfigMap routing every shard with *)
(* ready endpoints to exactly those, even though every pass reads the      *)
(* ConfigMap and the endpoint slices from the informer cache.              *)
THEOREM ReceiveNoLostWakeup ==
    EventsDelivered => (Spec => []QuiescentConverged)
<1> SUFFICES ASSUME EventsDelivered PROVE Spec => []QuiescentConverged
  OBVIOUS
<1>1. Init => ReceiveInductive
  BY InductiveInit
<1>2. ReceiveInductive /\ [Next]_vars => ReceiveInductive'
  BY InductiveStep
<1>3. ReceiveInductive => QuiescentConverged
  BY DEF ReceiveInductive
<1>4. QED BY <1>1, <1>2, <1>3, PTL DEF Spec

(* The strengthened no-lost-wake-up invariant, for every instance in which *)
(* the endpoint-slice mapper finds the Service: a ready or cached endpoint *)
(* belongs to an existing ingester, a ConfigMap without a pending event is *)
(* the cached one, and while the key stays unqueued the pass of            *)
(* buildHashringConfig and syncResources works from the current spec, has  *)
(* listed what the cache holds now, and has left every object it wrote     *)
(* right or with its event to come.                                        *)
THEOREM ReceiveInductiveHolds ==
    EventsDelivered => (Spec => []ReceiveInductive)
<1> SUFFICES ASSUME EventsDelivered PROVE Spec => []ReceiveInductive
  OBVIOUS
<1>1. QED BY InductiveInit, InductiveStep, PTL DEF Spec

-----------------------------------------------------------------------------
(* Refinement: the receive controller implements ReconcileKey under the    *)
(* mapping of ReceiveController's Key, in which the key is busy while it   *)
(* is queued, a pass runs or a watch event is still to come.               *)

Busy == dirty \/ w.pc # "idle" \/ EventsPending

(* The subject's target and the routing objects are in the sets the        *)
(* abstract key ranges over.                                               *)
LEMMA KeyTypes ==
    ASSUME TypeOK
    PROVE  /\ RoutingTarget \in [spec: ShardLists, ready: [Shards -> SUBSET Hosts]]
           /\ RoutingOut \in [ingesters: SUBSET Shards, cmExists: BOOLEAN,
                              cm: Table]
BY DEF TypeOK, RoutingTarget, RoutingOut

LEMMA KeyInit ==
    ASSUME Init PROVE Key!Init
<1>1. TypeOK
  BY TypeInit
<1>2. crPhase # "active" /\ ~Busy
  BY DEF Init, Idle, Busy, EventsPending
<1>3. QED BY <1>1, <1>2, KeyTypes DEF Key!Init, Busy

(* A step that leaves the key busy is a Queue step.                        *)
LEMMA KeyQueue ==
    ASSUME TypeOK', Busy'
    PROVE  Key!Queue
<1>1. (RoutingTarget \in [spec: ShardLists, ready: [Shards -> SUBSET Hosts]])'
      /\ (RoutingOut \in [ingesters: SUBSET Shards, cmExists: BOOLEAN,
                          cm: Table])'
  BY DEF TypeOK, RoutingTarget, RoutingOut
<1>2. QED BY <1>1 DEF Key!Queue, Busy

(* A step of a busy key that leaves it idle and keeps the subject, the     *)
(* pods and the routing objects is a Settle step: the invariant in the     *)
(* next state says the routing is right.                                   *)
LEMMA KeySettle ==
    ASSUME ReceiveInductive', Busy, ~Busy',
           UNCHANGED <<crPhase, crSpec, cmExists, cm, ingesters, ready>>
    PROVE  Key!Settle
<1>1. RoutingTarget' = RoutingTarget /\ RoutingOut' = RoutingOut
  BY DEF RoutingTarget, RoutingOut
<1>2. crPhase' = "active" => Converged'
  BY DEF ReceiveInductive, QuiescentConverged, Quiescent, Busy
<1>3. crPhase = "active" => RMatches(RoutingOut, RoutingTarget)
  BY <1>1, <1>2 DEF Converged
<1>4. QED BY <1>1, <1>3 DEF Key!Settle, Busy

LEMMA KeyStep ==
    ASSUME EventsDelivered, ReceiveInductive, ReceiveInductive', [Next]_vars
    PROVE  [Key!Next]_Key!vars
<1>0. TypeOK /\ TypeOK'
  BY DEF ReceiveInductive
<1>1. CASE Busy'
  BY <1>0, <1>1, KeyQueue DEF Key!Next
<1> SUFFICES ASSUME ~dirty', w'.pc = "idle", ~EventsPending'
             PROVE  [Key!Next]_Key!vars
  BY <1>1 DEF Busy
<1>2. CASE StartReconcile \/ EndPass \/ \E s \in Shards : SyncSlices(s)
  <2>1. Busy
    BY <1>2 DEF StartReconcile, EndPass, SyncSlices, Busy, EventsPending
  <2>2. UNCHANGED <<crPhase, crSpec, cmExists, cm, ingesters, ready>>
    BY <1>2 DEF StartReconcile, EndPass, SyncSlices
  <2>3. QED BY <2>1, <2>2, KeySettle DEF Key!Next, Busy
<1>3. CASE GetConfigMap \/ ListSlices \/ BuildConfig \/ ApplyIngester
           \/ ApplyConfigMap
  <2>1. w = [pc |-> w.pc, snap |-> w.snap, old |-> w.old, i |-> w.i,
             seen |-> w.seen, desired |-> w.desired, todo |-> w.todo,
             errs |-> w.errs]
    BY <1>0, WorkerElim DEF TypeOK
  <2>2. CASE GetConfigMap
    BY <2>1, <2>2 DEF GetConfigMap, Finish
  <2>3. CASE ListSlices
    BY <2>1, <2>3 DEF ListSlices, Finish
  <2>4. CASE BuildConfig
    BY <2>1, <2>4 DEF BuildConfig
  <2>5. CASE ApplyIngester \/ ApplyConfigMap
    BY <2>1, <2>5 DEF ApplyIngester, ApplyConfigMap, ObjDone, ObjFailed
  <2>6. QED BY <1>3, <2>2, <2>3, <2>4, <2>5
<1>4. CASE Environment \/ Resync \/ CollectGarbage \/ SyncConfigMap
  BY <1>4, EnvQueues
<1>5. CASE UNCHANGED vars
  BY <1>5 DEF vars, Key!vars, RoutingTarget, RoutingOut, EventsPending
<1>6. QED BY <1>2, <1>3, <1>4, <1>5 DEF Next, Controller, Informer

(* Refinement, for every instance: when the endpoint-slice mapper always   *)
(* finds the Service, the receive controller's every step is a Queue or    *)
(* Settle step of ReconcileKey, or leaves its key's view unchanged; so the *)
(* key goes idle only with the routing right.                              *)
THEOREM ReceiveRefinesKey ==
    EventsDelivered => (Spec => ReceiveImplementsKey)
<1> SUFFICES ASSUME EventsDelivered PROVE Spec => Key!Spec
  BY DEF ReceiveImplementsKey
<1>1. Spec => []ReceiveInductive
  BY ReceiveInductiveHolds
<1>2. Init => Key!Init
  BY KeyInit
<1>3. ReceiveInductive /\ ReceiveInductive' /\ [Next]_vars => [Key!Next]_Key!vars
  BY KeyStep
<1>4. QED BY <1>1, <1>2, <1>3, PTL DEF Spec, Key!Spec

=============================================================================
