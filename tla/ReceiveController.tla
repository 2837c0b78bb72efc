-------------------------- MODULE ReceiveController --------------------------
(***************************************************************************)
(* The ThanosReceive reconcile loop (internal/controller/                  *)
(* thanosreceive_controller.go) together with the parts of the platform    *)
(* it talks to: the API server objects it reads and writes, the workqueue  *)
(* that serializes passes for the subject's key, the watches that enqueue  *)
(* the key, the user editing or deleting the subject, pods of the          *)
(* ingesters turning ready or unready, and the garbage collector.          *)
(*                                                                         *)
(* One subject (ThanosReceive) is modelled: passes of distinct keys share  *)
(* no state in this controller.  A pass is not atomic: every API call is a *)
(* step of its own, and the cluster may change between any two of them.    *)
(* Each call may fail (bounded by MaxFaults).                              *)
(*                                                                         *)
(* The pass reads through r.Client, whose Get and List are served by the   *)
(* manager's informer cache: the ConfigMap and the endpoint slices a pass  *)
(* reads are the cache's copies, which may lag the API server.  A watch    *)
(* event is delivered when the cache catches up.                           *)
(***************************************************************************)
EXTENDS Hashring

CONSTANTS
    ShardLists,     \* the hashring lists a user may declare
    MaxFaults,      \* API calls that may fail in one behaviour
    MaxEnvSteps,    \* changes the user and the pods make in one behaviour
    MapGetCanFail   \* may the endpoint-slice mapper fail to read the Service

ASSUME ReceiveAssumption ==
    /\ ShardLists \subseteq Seq(Shards) /\ <<>> \in ShardLists
    /\ \A l \in ShardLists : IsInjective(l)
    /\ MaxFaults \in Nat
    /\ MaxEnvSteps \in Nat
    /\ MapGetCanFail \in BOOLEAN

VARIABLES
    crPhase,        \* the subject: "absent", "active", "deleting" (blocked by
                    \* a finalizer) or "gone"
    crSpec,         \* its spec.ingester.hashrings, as the list of names
    crFinalizer,    \* does it carry receiveFinalizer
    cmExists,       \* does the hashring ConfigMap <subject> exist
    cm,             \* its routing table
    ingesters,      \* shards whose ingester Service/StatefulSet exist
    ready,          \* ready, serving, non-terminating endpoints per shard
    sliceCache,     \* the informer cache's copy of ready
    cmCache,        \* the informer cache's copy of the ConfigMap
    cmStale,        \* the ConfigMap changed since the cache last caught up
    dirty,          \* the subject's key is in the workqueue
    w,              \* the worker's pass in progress
    faults,         \* API call failures so far
    envSteps        \* environment changes so far

vars == <<crPhase, crSpec, crFinalizer, cmExists, cm, ingesters, ready,
          sliceCache, cmCache, cmStale, dirty, w, faults, envSteps>>

cacheVars == <<sliceCache, cmCache, cmStale>>

-----------------------------------------------------------------------------
(* Objects of the DesiredObjectSet: an ingester (its ServiceAccount,       *)
(* Service and StatefulSet, named <subject>-<shard>) and the ConfigMap.    *)
IngesterObj(s) == [kind |-> "ingester", shard |-> s]
ConfigMapObj == [kind |-> "configmap"]
Objs == {IngesterObj(s) : s \in Shards} \cup {ConfigMapObj}

EmptyTable == [s \in {} |-> {}]
NoneSeen == [s \in Shards |-> {}]

(* The worker between passes: every local of Reconcile is fresh.           *)
Idle == [pc |-> "idle", snap |-> <<>>, old |-> EmptyTable, i |-> 1,
         seen |-> NoneSeen, desired |-> EmptyTable, todo |-> <<>>,
         errs |-> 0]

Worker == [pc: {"idle", "getcm", "list", "apply"}, snap: Seq(Shards),
           old: Table, i: Nat \ {0}, seen: [Shards -> SUBSET Hosts],
           desired: Table, todo: Seq(Objs), errs: Nat]

TypeOK ==
    /\ crPhase \in {"absent", "active", "deleting", "gone"}
    /\ crSpec \in ShardLists
    /\ crFinalizer \in BOOLEAN
    /\ cmExists \in BOOLEAN
    /\ cm \in Table
    /\ ingesters \in SUBSET Shards
    /\ ready \in [Shards -> SUBSET Hosts]
    /\ sliceCache \in [Shards -> SUBSET Hosts]
    /\ cmCache \in [exists: BOOLEAN, table: Table]
    /\ cmStale \in BOOLEAN
    /\ dirty \in BOOLEAN
    /\ w \in Worker
    /\ w.pc = "idle" => w = Idle
    /\ faults \in 0..MaxFaults
    /\ envSteps \in 0..MaxEnvSteps

Init ==
    /\ crPhase = "absent"
    /\ crSpec = <<>>
    /\ crFinalizer = FALSE
    /\ cmExists = FALSE
    /\ cm = EmptyTable
    /\ ingesters = {}
    /\ ready = [s \in Shards |-> {}]
    /\ sliceCache = [s \in Shards |-> {}]
    /\ cmCache = [exists |-> FALSE, table |-> EmptyTable]
    /\ cmStale = FALSE
    /\ dirty = FALSE
    /\ w = Idle
    /\ faults = 0
    /\ envSteps = 0

-----------------------------------------------------------------------------
(* The worker.  Fail is an API call returning an error; it spends a fault. *)
CanFail == faults < MaxFaults
Fail == faults' = faults + 1

(* The pass returns: Reconcile's error makes controller-runtime requeue    *)
(* the key (AddRateLimited); success forgets it.  Events that arrived      *)
(* during the pass left the key dirty, so it is processed again.           *)
Finish(err) ==
    /\ w' = Idle
    /\ dirty' = (dirty \/ err)

(* handleDeletionTimestamp: with the finalizer, an event is recorded (not  *)
(* modelled); either way the pass returns success and removes nothing,    *)
(* the finalizer included.                                                 *)
HandleDeletionTimestamp ==
    /\ dirty' = FALSE
    /\ UNCHANGED <<w, faults>>

(* Reconcile, up to syncResources: the workqueue hands the key to the      *)
(* worker, which gets the subject.  Not found: nothing to do.  An error:   *)
(* the pass fails.  Being deleted: handleDeletionTimestamp.  Otherwise the *)
(* pass goes on with the spec it read.                                     *)
StartReconcile ==
    /\ w.pc = "idle"
    /\ dirty
    /\ \/ /\ CanFail
          /\ Fail
          /\ UNCHANGED <<w, dirty>>
       \/ /\ crPhase \in {"absent", "gone"}
          /\ dirty' = FALSE
          /\ UNCHANGED <<w, faults>>
       \/ /\ crPhase = "deleting"
          /\ HandleDeletionTimestamp
       \/ /\ crPhase = "active"
          /\ w' = [Idle EXCEPT !.pc = "getcm", !.snap = crSpec]
          /\ dirty' = FALSE
          /\ UNCHANGED faults
    /\ UNCHANGED <<crPhase, crSpec, crFinalizer, cmExists, cm, ingesters,
                   ready, cacheVars, envSteps>>

(* buildHashringConfig, line 277: get the ConfigMap named after the        *)
(* subject from the cache.  A NotFound leaves the previous table empty;    *)
(* any other error aborts the whole pass before an object is applied.     *)
GetConfigMap ==
    /\ w.pc = "getcm"
    /\ \/ /\ CanFail
          /\ Fail
          /\ Finish(TRUE)
       \/ /\ w' = [w EXCEPT !.pc = "list",
                            !.old = IF cmCache.exists THEN cmCache.table
                                    ELSE EmptyTable]
          /\ UNCHANGED <<faults, dirty>>
    /\ UNCHANGED <<crPhase, crSpec, crFinalizer, cmExists, cm, ingesters,
                   ready, cacheVars, envSteps>>

(* buildHashringConfig, line 301: list, from the cache, the endpoint       *)
(* slices of the i-th declared shard's Service; an error aborts the pass. *)
ListSlices ==
    /\ w.pc = "list"
    /\ w.i <= Len(w.snap)
    /\ \/ /\ CanFail
          /\ Fail
          /\ Finish(TRUE)
       \/ /\ w' = [w EXCEPT !.seen[w.snap[w.i]] = sliceCache[w.snap[w.i]],
                            !.i = w.i + 1]
          /\ UNCHANGED <<faults, dirty>>
    /\ UNCHANGED <<crPhase, crSpec, crFinalizer, cmExists, cm, ingesters,
                   ready, cacheVars, envSteps>>

(* buildHashrings: the ingesters, in declared order.                       *)
IngesterObjs(list) == [k \in 1..Len(list) |-> IngesterObj(list[k])]

(* After the last List, buildHashringConfig (lines 283-317) hands the       *)
(* ConfigMap it read and the per-shard slices to BuildHashrings, and       *)
(* syncResources collects the ingesters followed by the ConfigMap (which   *)
(* is kept even when the hashring list is empty and ErrHashringsEmpty is   *)
(* returned).                                                              *)
(* Mutant: the loop over the declared shards stops one short.             *)
BuildConfigOneShort ==
    /\ w.pc = "list"
    /\ w.i >= Len(w.snap)
    /\ w' = [w EXCEPT !.pc = "apply",
                      !.desired = BuildHashrings(w.old, w.snap, w.seen),
                      !.todo = IngesterObjs(w.snap) \o <<ConfigMapObj>>]
    /\ UNCHANGED <<crPhase, crSpec, crFinalizer, cmExists, cm, ingesters,
                   ready, cacheVars, dirty, faults, envSteps>>

BuildConfig ==
    /\ w.pc = "list"
    /\ w.i > Len(w.snap)
    /\ w' = [w EXCEPT !.pc = "apply",
                      !.desired = BuildHashrings(w.old, w.snap, w.seen),
                      !.todo = IngesterObjs(w.snap) \o <<ConfigMapObj>>]
    /\ UNCHANGED <<crPhase, crSpec, crFinalizer, cmExists, cm, ingesters,
                   ready, cacheVars, dirty, faults, envSteps>>

(* syncResources' loop, lines 197-228, one object per step.  A failed     *)
(* CreateOrUpdate is counted and the loop goes on.                         *)
ObjDone == [w EXCEPT !.todo = Tail(w.todo)]
ObjFailed == [w EXCEPT !.todo = Tail(w.todo), !.errs = w.errs + 1]

(* An ingester is created when missing (its Service, ServiceAccount and    *)
(* StatefulSet share its fate here); the Owns() watch enqueues the owner   *)
(* of a created object.                                                    *)
ApplyIngester ==
    /\ w.pc = "apply"
    /\ w.todo # <<>>
    /\ Head(w.todo) # ConfigMapObj
    /\ \/ /\ CanFail
          /\ Fail
          /\ w' = ObjFailed
          /\ UNCHANGED <<ingesters, dirty>>
       \/ /\ w' = ObjDone
          /\ ingesters' = ingesters \cup {Head(w.todo).shard}
          /\ dirty' = (dirty \/ Head(w.todo).shard \notin ingesters)
          /\ UNCHANGED faults
    /\ UNCHANGED <<crPhase, crSpec, crFinalizer, cmExists, cm, ready, cacheVars,
                   envSteps>>

(* CreateOrUpdate gets the ConfigMap from the cache.  It leaves an object  *)
(* that already holds the table alone, creates a missing one, and else     *)
(* sends an Update carrying the resourceVersion it read.                   *)
CmUpToDate == cmCache.exists /\ cmCache.table = w.desired

(* The API server takes the Create only if the ConfigMap does not exist,   *)
(* and the Update only if the cached version is the current one.           *)
CmWriteAccepted == IF cmCache.exists THEN cmExists /\ ~cmStale ELSE ~cmExists

(* Its Owns() event comes when the cache sees the new version.             *)
ApplyConfigMap ==
    /\ w.pc = "apply"
    /\ w.todo # <<>>
    /\ Head(w.todo) = ConfigMapObj
    /\ \/ /\ CanFail
          /\ Fail
          /\ w' = ObjFailed
          /\ UNCHANGED <<cmExists, cm, cmStale>>
       \/ /\ CmUpToDate
          /\ w' = ObjDone
          /\ UNCHANGED <<cmExists, cm, cmStale, faults>>
       \/ /\ ~CmUpToDate /\ ~CmWriteAccepted
          /\ w' = ObjFailed
          /\ UNCHANGED <<cmExists, cm, cmStale, faults>>
       \/ /\ ~CmUpToDate /\ CmWriteAccepted
          /\ w' = ObjDone
          /\ cmExists' = TRUE
          /\ cm' = w.desired
          /\ cmStale' = TRUE
          /\ UNCHANGED faults
    /\ UNCHANGED <<crPhase, crSpec, crFinalizer, ingesters, ready, sliceCache,
                   cmCache, dirty, envSteps>>

(* The end of syncResources and Reconcile: an error when any object        *)
(* failed, which requeues the whole pass.                                  *)
(* Mutant: a single failed object does not fail the pass.                 *)
EndPassOffByOne ==
    /\ w.pc = "apply"
    /\ w.todo = <<>>
    /\ Finish(w.errs > 1)
    /\ UNCHANGED <<crPhase, crSpec, crFinalizer, cmExists, cm, ingesters,
                   ready, cacheVars, faults, envSteps>>

(* Mutant: the error count outlives the pass.                              *)
EndPassKeepingErrCount ==
    /\ w.pc = "apply"
    /\ w.todo = <<>>
    /\ w' = [Idle EXCEPT !.errs = w.errs]
    /\ dirty' = (dirty \/ w.errs > 0)
    /\ UNCHANGED <<crPhase, crSpec, crFinalizer, cmExists, cm, ingesters,
                   ready, cacheVars, faults, envSteps>>

EndPass ==
    /\ w.pc = "apply"
    /\ w.todo = <<>>
    /\ Finish(w.errs > 0)
    /\ UNCHANGED <<crPhase, crSpec, crFinalizer, cmExists, cm, ingesters,
                   ready, cacheVars, faults, envSteps>>

-----------------------------------------------------------------------------
(* The informer catches up with a shard's endpoint slices.  The watch on  *)
(* EndpointSlices passes the event to enqueueForEndpointSlice, which maps  *)
(* it to the subject when the slice's owning Service exists and is owned   *)
(* by a ThanosReceive.  Reading that Service goes through the cache, which *)
(* may not have it yet; the event is then dropped.                         *)
EnqueueForEndpointSlice(s) ==
    \/ /\ s \in ingesters
       /\ dirty' = TRUE
    \/ /\ s \notin ingesters \/ MapGetCanFail
       /\ UNCHANGED dirty

SyncSlices(s) ==
    /\ sliceCache[s] # ready[s]
    /\ sliceCache' = [sliceCache EXCEPT ![s] = ready[s]]
    /\ EnqueueForEndpointSlice(s)
    /\ UNCHANGED <<crPhase, crSpec, crFinalizer, cmExists, cm, ingesters, ready,
                   cmCache, cmStale, w, faults, envSteps>>

(* The informer catches up with the ConfigMap; Owns() enqueues its owner.  *)
SyncConfigMap ==
    /\ cmStale
    /\ cmCache' = [exists |-> cmExists, table |-> cm]
    /\ cmStale' = FALSE
    /\ dirty' = TRUE
    /\ UNCHANGED <<crPhase, crSpec, crFinalizer, cmExists, cm, ingesters, ready,
                   sliceCache, w, faults, envSteps>>

(* The environment.  Every change to the subject is an event of the        *)
(* For() watch and enqueues it.                                            *)
EnvStep == envSteps < MaxEnvSteps /\ envSteps' = envSteps + 1

CreateCR ==
    /\ EnvStep
    /\ crPhase = "absent"
    /\ crPhase' = "active"
    /\ crSpec' \in ShardLists
    /\ crFinalizer' \in BOOLEAN
    /\ dirty' = TRUE
    /\ UNCHANGED <<cmExists, cm, ingesters, ready, cacheVars, w, faults>>

UpdateSpec ==
    /\ EnvStep
    /\ crPhase = "active"
    /\ crSpec' \in ShardLists \ {crSpec}
    /\ dirty' = TRUE
    /\ UNCHANGED <<crPhase, crFinalizer, cmExists, cm, ingesters, ready,
                   cacheVars, w, faults>>

(* Deletion sets the deletion timestamp; without finalizers the API server *)
(* removes the object at once.                                             *)
DeleteCR ==
    /\ EnvStep
    /\ crPhase = "active"
    /\ crPhase' = IF crFinalizer THEN "deleting" ELSE "gone"
    /\ dirty' = TRUE
    /\ UNCHANGED <<crSpec, crFinalizer, cmExists, cm, ingesters, ready,
                   cacheVars, w, faults>>

(* A pod of an existing ingester becomes ready, or stops being ready.  The *)
(* endpoint slice changes, and so does the StatefulSet's readyReplicas:   *)
(* Owns(&appsv1.StatefulSet{}), line 170, has no predicate and enqueues    *)
(* the subject.                                                            *)
PodReady(s, h) ==
    /\ EnvStep
    /\ s \in ingesters
    /\ h \notin ready[s]
    /\ ready' = [ready EXCEPT ![s] = @ \cup {h}]
    /\ dirty' = TRUE
    /\ UNCHANGED <<crPhase, crSpec, crFinalizer, cmExists, cm, ingesters,
                   cacheVars, w, faults>>

PodUnready(s, h) ==
    /\ EnvStep
    /\ h \in ready[s]
    /\ ready' = [ready EXCEPT ![s] = @ \ {h}]
    /\ dirty' = TRUE
    /\ UNCHANGED <<crPhase, crSpec, crFinalizer, cmExists, cm, ingesters,
                   cacheVars, w, faults>>

(* The informer's periodic resync redelivers the subject.                  *)
Resync ==
    /\ crPhase \in {"active", "deleting"}
    /\ ~dirty
    /\ dirty' = TRUE
    /\ UNCHANGED <<crPhase, crSpec, crFinalizer, cmExists, cm, ingesters,
                   ready, cacheVars, w, faults, envSteps>>

(* Once the subject is gone, the garbage collector removes what it owns,   *)
(* including objects a pass still in flight created after the deletion;   *)
(* with the Services go their endpoint slices.                             *)
CollectGarbage ==
    /\ crPhase = "gone"
    /\ cmExists \/ ingesters # {}
    /\ cmExists' = FALSE
    /\ cm' = EmptyTable
    /\ ingesters' = {}
    /\ ready' = [s \in Shards |-> {}]
    /\ cmStale' = (cmStale \/ cmExists)
    /\ dirty' = TRUE
    /\ UNCHANGED <<crPhase, crSpec, crFinalizer, sliceCache, cmCache, w, faults,
                   envSteps>>

-----------------------------------------------------------------------------
Controller ==
    \/ StartReconcile \/ GetConfigMap \/ ListSlices \/ BuildConfig
    \/ ApplyIngester \/ ApplyConfigMap \/ EndPass

(* The manager's informers catch up with the API server.                   *)
Informer == SyncConfigMap \/ \E s \in Shards : SyncSlices(s)

Environment ==
    \/ CreateCR \/ UpdateSpec \/ DeleteCR
    \/ \E s \in Shards, h \in Hosts : PodReady(s, h) \/ PodUnready(s, h)

Next == Controller \/ Informer \/ Environment \/ Resync \/ CollectGarbage

(* The worker runs whenever it has work, the informers catch up and the    *)
(* garbage collector runs; the user and the pods owe nothing.              *)
Progress ==
    /\ WF_vars(Controller)
    /\ WF_vars(SyncConfigMap)
    /\ \A s \in Shards : WF_vars(SyncSlices(s))
    /\ WF_vars(CollectGarbage)

(* The informer's periodic resync comes as well, once every SyncPeriod.    *)
Fairness == Progress /\ WF_vars(Resync)

Spec == Init /\ [][Next]_vars /\ Fairness

(* The system without counting on the periodic resync, whose default       *)
(* SyncPeriod in controller-runtime is ten hours.                          *)
PromptSpec == Init /\ [][Next]_vars /\ Progress

-----------------------------------------------------------------------------
(* The routing state the subject's current spec and the cluster call for: *)
(* every declared shard has its ingester, the ConfigMap has exactly one    *)
(* entry per declared shard, and a shard that has ready endpoints is       *)
(* routed to exactly those.                                                *)
RMatches(o, t) ==
    /\ ShardSet(t.spec) \subseteq o.ingesters
    /\ o.cmExists
    /\ DOMAIN o.cm = ShardSet(t.spec)
    /\ \A s \in DOMAIN o.cm : t.ready[s] # {} => o.cm[s] = t.ready[s]

(* The receive controller's output, and what the subject and the pods call *)
(* for.                                                                    *)
RoutingOut == [ingesters |-> ingesters, cmExists |-> cmExists, cm |-> cm]
RoutingTarget == [spec |-> crSpec, ready |-> ready]

Converged == RMatches(RoutingOut, RoutingTarget)

(* A watch event is still to come: an informer has not caught up.          *)
EventsPending == sliceCache # ready \/ cmStale

Quiescent == w.pc = "idle" /\ ~dirty /\ ~EventsPending

(* No lost wake-up: whenever the controller has nothing left to do for an *)
(* active subject (no key queued, no pass running, no watch event still to *)
(* come), the ingesters and the hashring ConfigMap match the subject's     *)
(* spec and the endpoints that are ready now.  Breaking it takes an event  *)
(* that arrives while a pass runs, a pass that read a stale cache and is   *)
(* not followed by another, an API error that is not retried, or an event  *)
(* the watches never deliver.                                              *)
QuiescentConverged == Quiescent /\ crPhase = "active" => Converged

(* Preservation (spec 4.3, step 2): a write of the hashring ConfigMap      *)
(* never takes away all the endpoints of a shard that it keeps, even when *)
(* the pass observed no ready endpoint for that shard.  buildHashringConfig *)
(* takes the entry to preserve from the ConfigMap it got from the cache.   *)
NoEntryEmptied ==
    [][ cmExists /\ cmExists' =>
          \A s \in DOMAIN cm \cap DOMAIN cm' : cm[s] # {} => cm'[s] # {} ]_vars

(* The one channel through which a change can fail to reach the queue,    *)
(* closed: the endpoint-slice mapper always finds the owning Service.     *)
EventsDelivered == ~MapGetCanFail

(* QuiescentConverged strengthened so that a step preserves it.  A ready  *)
(* endpoint, or one still in the cache, belongs to an existing ingester    *)
(* (until the subject is gone), so the slice watch delivers its change; a  *)
(* ConfigMap the cache is not behind on is the one in the cache (a        *)
(* missing one has no table).  While the key stays unqueued, a pass works  *)
(* on the current spec, what it listed is what the cache holds now, every  *)
(* ingester it wrote without an error exists, and the ConfigMap, once      *)
(* handled, holds the table or has an event still to come.                 *)
ReceiveInductive ==
    /\ TypeOK
    /\ QuiescentConverged
    /\ \A s \in Shards : ready[s] # {} => s \in ingesters
    /\ \A s \in Shards : sliceCache[s] # {} => s \in ingesters \/ crPhase = "gone"
    /\ ~cmStale => cmCache = [exists |-> cmExists, table |-> cm]
    /\ ~cmExists => cm = EmptyTable
    /\ w.pc = "getcm" => w.i = 1
    /\ w.pc \in {"getcm", "list"} => w.errs = 0
    /\ w.pc = "list" => w.i <= Len(w.snap) + 1
    /\ w.pc = "apply" => w.desired = BuildHashrings(w.old, w.snap, w.seen)
    /\ w.pc # "idle" /\ ~dirty => crPhase = "active" /\ w.snap = crSpec
    /\ w.pc = "list" /\ ~dirty =>
          \A k \in 1..(w.i - 1) : w.seen[w.snap[k]] = sliceCache[w.snap[k]]
    /\ w.pc = "apply" /\ ~dirty =>
          /\ IsInjective(w.todo)
          /\ \A s \in ShardSet(w.snap) : w.seen[s] = sliceCache[s]
          /\ w.errs = 0 =>
                /\ \A s \in ShardSet(w.snap) :
                      IngesterObj(s) \notin Range(w.todo) => s \in ingesters
                /\ ConfigMapObj \notin Range(w.todo) =>
                      cmStale \/ (cmExists /\ cm = w.desired)

(* Convergence: once the user and the pods stop changing things, the     *)
(* active subject's routing converges, and a gone subject's objects are    *)
(* all collected, for good.                                                *)
EventuallyConverged ==
    <>[]( /\ crPhase = "active" => Converged
          /\ crPhase = "gone" => ~cmExists /\ ingesters = {} )

-----------------------------------------------------------------------------
(* The receive controller against the abstract promise of ReconcileKey.    *)
Key == INSTANCE ReconcileKey
         WITH active <- crPhase = "active",
              target <- RoutingTarget,
              out <- RoutingOut,
              busy <- dirty \/ w.pc # "idle" \/ EventsPending,
              Targets <- [spec: ShardLists, ready: [Shards -> SUBSET Hosts]],
              Outs <- [ingesters: SUBSET Shards, cmExists: BOOLEAN, cm: Table],
              Matches <- RMatches

(* The receive controller implements ReconcileKey: its key goes idle only  *)
(* with the routing right for an active subject, and a pod or spec change  *)
(* that queues nothing keeps right routing right.                          *)
ReceiveImplementsKey == Key!Spec

=============================================================================
