# Formal models of the thanos-operator controllers

This directory holds TLA+ models of the two reconcile loops in
`src/internal/controller/`. It also holds the TLC configurations that
model-check them, and TLAPS proofs about them.

## 1. The system

The operator runs two controller-runtime controllers. Each one serves one
workqueue of `(namespace, name)` keys.

- **ThanosReceive** (`thanosreceive_controller.go`). `Reconcile` gets the
  subject:
  - not found: the pass succeeds and does nothing;
  - any other error: the pass fails and controller-runtime requeues the key;
  - being deleted: `handleDeletionTimestamp` records an event, and nothing else.

  Otherwise `syncResources` runs, in this order:
  1. `buildHashrings` builds one ingester per declared hashring.
  2. `buildHashringConfig` gets the existing hashring ConfigMap (NotFound is
     tolerated), lists the EndpointSlices of every shard in order (any error
     aborts the pass), and calls `receive.BuildHashrings`.
  3. Every object goes through `CreateOrUpdate`. Failures are counted and the
     loop goes on.
  4. A non-zero failure count fails the pass.

  The watches are:
  - `For` the subject;
  - `Owns` ConfigMaps, Services, StatefulSets and more;
  - `Watches` EndpointSlices, behind a label predicate and
    `GenerationChangedPredicate`.

  `Owns(StatefulSet)` (line 170) has no predicate, so a change of an
  ingester's `readyReplicas` enqueues the subject as well.
  `enqueueForEndpointSlice` maps a slice event to its subject through the
  slice's owning Service. It reads that Service with a cached `Get`.
- **ThanosQuery** (`thanosquery_controller.go`). The pass has the same shape.
  `getStoreAPIServiceEndpoints` lists the store Services selected by the
  subject and classifies each by its labels (strict > group-strict > group >
  regular). A failed list is swallowed and treated as "no endpoints".
  `enqueueForService` maps a Service event to every ThanosQuery whose selector
  matches it.

These pieces interact through the manager's informer cache. `r.Client` serves
every `Get` and `List` of a pass from the cache, and a watch event is
delivered when the cache catches up with the API server. So a pass can read
a copy that is older than the cluster, and the event that reports the
difference comes later. Every write a pass makes to an owned object comes
back as such an event and enqueues the subject. A readiness change of an
ingester pod reaches the receive controller twice: at once through the
StatefulSet's status (the `Owns` watch), and later, when the slice cache
catches up, through the slice watch and its mapper.

The hashring synthesizer (`receive.BuildHashrings`), the querier manifest
builder and the object applier (`MutateFuncFor`) live under
`internal/pkg/manifests`, which is not part of `src/`. Only the synthesizer is
modelled, from spec 4.3, and its map entries are marked `spec_modelled`.

## 2. Modules

| module | models |
|---|---|
| `Hashring` | `BuildHashrings`. A routing table is a function from shard to its set of ready hosts. `Entry` holds the precedence: fresh ready endpoints, else the persisted entry, else empty. |
| `ReceiveController` | One key of the receive controller: the subject, the owned objects, pod readiness, the queue and the worker's pass. |
| `MCReceiveController` | The TLC instance: 2 shards, 2 hosts, and every list of distinct shards of length 0 to 2. |
| `ReceiveControllerProofs` | TLAPS proof of the type invariant of `ReceiveController`. |
| `ReceiveConvergenceProofs` | TLAPS proofs of the receive no-lost-wake-up invariant and of the receive refinement of `ReconcileKey`. |
| `QueryController` | One key of the query controller: the ThanosQuery, the store Services with their labels, the querier's Deployment (with the endpoints it was given) and its other objects, the queue and the worker's pass. |
| `MCQueryController` | The TLC instance: 2 Services, 2 selectors, and label sets with and without `strict` and a selector label; `MCAnyLabelSets` also has sets without the part-of label. |
| `QueryControllerProofs` | TLAPS proofs about `QueryController`. |
| `ReceiveNames` | Several ThanosReceives in one namespace. Each pass writes ingesters named `<subject>-<hashring>` as their controller owner. `Owns()` queues an object's old and new owner, and the garbage collector removes the objects of gone subjects. |
| `ReceiveNamesKey` | One subject of `ReceiveNames`, the constant `KeySubject`, viewed through `ReconcileKey` by the mapping `Key`: its hashrings are the target, the owner and spec of its ingesters the output, and its queued flag the busy flag. |
| `ReceiveNamesProofs` | TLAPS proofs about `ReceiveNames` and `ReceiveNamesKey`. |
| `ReconcileKey` | The abstract promise of a level-triggered controller for one key. `busy` means the key is queued or a pass runs. There are three steps: `Queue` (anything changes, and the key becomes busy), `Drift` (inputs change with no event, and a right output stays right) and `Settle` (the key goes idle only with the output right). |

### How `ReceiveController` maps to the code

The state has three parts.

- **Subject:** `crPhase` is absent, active, deleting (the deletion timestamp is
  set and the finalizer is present) or gone. `crSpec` is the declared shard
  list, and `crFinalizer` records whether the finalizer is present.
- **Cluster:** `cmExists` and `cm` hold the hashring ConfigMap, `ingesters` the
  set of shards whose ingester exists, and `ready` the ready hosts of each
  shard's slice.
- **Caches:** `sliceCache` is the informer's copy of `ready`, `cmCache` its
  copy of the ConfigMap, and `cmStale` says the ConfigMap changed since the
  cache last caught up. The pass reads only these.
- **Queue:** `dirty` is the workqueue's dirty flag for the key. The worker `w`
  is a record:
  - `pc`: the step of the pass;
  - `snap`: the spec this pass read;
  - `old`: the ConfigMap table read at the start;
  - `seen`: the slices listed so far;
  - `desired`, `todo`, `errs`: the apply loop and its error count.

Worker actions, one per API call of a pass:

| action | code |
|---|---|
| `StartReconcile` | `Reconcile` lines 109-138 and `handleDeletionTimestamp` |
| `GetConfigMap` | `buildHashringConfig` lines 275-281, reading `cmCache` |
| `ListSlices` | one iteration of the loop at lines 294-302, reading `sliceCache` |
| `BuildConfig` | `buildHashringConfig` lines 283-317, with `buildHashrings` |
| `ApplyIngester`, `ApplyConfigMap` | one iteration of the loop at lines 197-228 |
| `EndPass` | lines 231-237 and the return in `Reconcile` |

`CreateOrUpdate` also decides from the cache. `ApplyConfigMap` skips the
write when the cached ConfigMap already holds the table (`CmUpToDate`). A
write made from a stale copy conflicts and counts as a failure
(`CmWriteAccepted`); an accepted write sets `cmStale`.

Every API call can fail. The failures share the budget `MaxFaults`. The queue
follows client-go semantics:
- an event sets `dirty`;
- the worker clears it when it takes the key;
- a failed pass sets it again (rate-limited requeue);
- an event during a pass also sets it again.

Environment actions:
- `CreateCR`, `UpdateSpec` and `DeleteCR` come through the `For` watch.
- `PodReady` and `PodUnready` change `ready` and enqueue the subject through
  `Owns(StatefulSet)`.
- `SyncSlices(s)` is the slice cache catching up for shard `s`. Its event
  goes through `EnqueueForEndpointSlice`. When `MapGetCanFail` is TRUE, the
  mapper's Service `Get` may miss and the event is dropped.
- `SyncConfigMap` is the ConfigMap cache catching up; `Owns` enqueues the
  subject.
- `Resync` is the informer's periodic resync.
- `CollectGarbage` is ownership-based garbage collection after the subject is
  gone.

Environment steps share the budget `MaxEnvSteps`.

### How `QueryController` maps to the code

- **Subject:** `qPhase` is absent, active or gone (the query controller has
  no finalizer), and `qSel` is `spec.storeLabelSelector.matchLabels`, a set
  of label keys.
- **Cluster:** `svcExists` and `svcLabels` are the Services of the namespace
  and their labels. `deployExists`/`deployed` are the querier Deployment and
  the endpoint set its arguments name. `otherExists` stands for the other
  objects of `BuildQuerier` (modelled from the spec as one object after the
  Deployment, `QuerierObjs`).
- **Queue and worker:** `dirty` as for receive. `w` holds `pc`, the selector
  `sel` read by the Get, the endpoints `eps` listed, the objects `todo` and
  the error count `errs`.

| action | code |
|---|---|
| `QStart` | `Reconcile` lines 63-83 |
| `QListServices` | `buildQuerier` and `getStoreAPIServiceEndpoints`, lines 132-196 |
| `QApply` | one iteration of the loop at lines 92-123 |
| `QEndPass` | lines 125-129 |
| `EnqueueForService`, `ServiceEvent` | `enqueueForService` (226-255) behind the predicates of lines 200-220 |
| `SvcCreate`, `SvcDelete`, `SvcRelabel` | Service events, through the watch of lines 216-220 |
| `QCreate`, `QUpdateSelector`, `QDelete` | the `For` watch |
| `QResync`, `QCollectGarbage` | informer resync and ownership-based garbage collection |

`Selected(sel)` is what a successful List yields: one endpoint per existing
Service whose labels include the selector. Its class comes from
`EndpointType` (strict > group-strict > group > regular). The port is not
modelled: the querier reaches stores through their DNS SRV names, which
carry the port, so the port the loop extracts decides nothing. Four
channels let a Service change miss the queue:
- `ListCanFail`: the List of a pass fails and is swallowed (line 161);
- `LabelUpdates`: Service labels change, and `GenerationChangedPredicate`
  drops the update (line 219);
- `MapListCanFail`: the mapper's List fails (line 238);
- a label set without the part-of label: the watch's
  `LabelSelectorPredicate` (lines 200-205) wants both part-of and store-API,
  while the pass lists by the subject's selector alone.

## 3. Runs

| run | cfg | expect | shows |
|---|---|---|---|
| receive_safety | `MCReceiveSafety.cfg` | pass | `TypeOK`, `QuiescentConverged` and `ReceiveInductive` hold with 2 API faults, 5 environment steps and lagging caches, when the slice mapper finds the Service: about 4.4M distinct states in a minute. |
| receive_lost_event | `MCReceiveLostEvent.cfg` | violation | A pass lists the slices before the cache has a newly ready endpoint and writes the old routing; the slice event that follows is dropped by the mapper, and the worker idles with a stale ConfigMap. |
| receive_stale_configmap | `MCReceiveStaleConfigMap.cfg` | violation | `NoEntryEmptied`: a pass reads the ConfigMap from a cache that lags the previous pass's own write, and empties a shard's entry that the preservation rule should keep. |
| receive_liveness | `MCReceiveLiveness.cfg` | pass | `EventuallyConverged` holds under `PromptSpec`, without the periodic resync, with 1 fault and 4 environment steps: about 1.7M states in 1.5 minutes. |
| query_safety | `MCQuerySafety.cfg` | pass | `TypeOK`, `QueryQuiescentConverged` and `QueryInductive` hold with 2 write failures and 5 environment steps, with every event delivered: about 0.3M states. |
| query_list_failure | `MCQueryListFailure.cfg` | violation | A failed Service List ends in a successful pass that gives the querier no stores, and nothing queues the key again. |
| query_relabel | `MCQueryRelabel.cfg` | violation | A Service relabelled to match (or stop matching, or become strict) is never seen: `GenerationChangedPredicate` drops the update. |
| query_part_of | `MCQueryPartOf.cfg` | violation | A store Service with the store-API label but not the part-of label is listed by a pass, yet its creation or deletion passes no predicate and queues nothing. |
| query_liveness | `MCQueryLiveness.cfg` | pass | `QueryEventuallyConverged` holds under `PromptSpec`, without the resync, with 2 write failures, 4 environment steps and the event channels closed: about 0.15M states. |
| query_resync | `MCQueryResync.cfg` | pass | `QueryEventuallyConverged` holds under `Spec`, with every lost-event channel open (List failures, relabels, mapper List failures, Services without the part-of label), 2 faults and 4 environment steps: the periodic resync alone repairs what the watches lose (about 0.26M states). |
| receive_names | `MCReceiveNames.cfg` | pass | `TypeOK` and `IngestersQuiescent` hold for subjects `"a"` and `"a-b"` with hashrings `"b-c"` and `"c"`, whose ingesters collide on `"a-b-c"`. There are 4 user steps (about 2.9K states). |
| receive_name_livelock | `MCReceiveNameLivelock.cfg` | violation | `IngestersSettle`: with those two subjects created, the passes take `"a-b-c"` from each other for ever. |

The properties:
- `QuiescentConverged`: when the worker is idle, the key is not dirty and
  no watch event is still to come (the caches have caught up), an active
  subject is converged. Its ingesters exist, the ConfigMap has exactly one
  entry per declared shard, and every shard with ready pods is routed to
  exactly those pods. This is the "no lost wake-up" property of the
  dirty-flag protocol. Breaking it takes an event that lands mid-pass, a
  pass that read a stale cache and is not followed by another, a failure
  that is not retried, or a dropped event. The mutant `EndPassOffByOne`
  (a pass with one failed write counts as a success) breaks it.
- `ReceiveInductive`: the strengthening of `QuiescentConverged` that its
  proof rests on. A ready endpoint, and one still in the slice cache,
  belongs to an existing ingester (until the subject is gone), so every pod
  change comes back as an event. A ConfigMap the cache is not behind on is
  the cached one, and a missing ConfigMap has no table. While the key stays
  unqueued, a pass under way works from the current spec, what it has
  listed is what the cache holds now, its write list names each object
  once, and every object it has written without an error is right, or (the
  ConfigMap) has its event still to come. A pass that builds the table one
  List early (the mutant `BuildConfigOneShort`) breaks it.
- `NoEntryEmptied`: the preservation rule of spec 4.3. A ConfigMap write
  never empties the entry of a shard that it keeps. It does not hold (run
  receive_stale_configmap): the entry to preserve comes from the cached
  ConfigMap, which can be older than the previous pass's write.
- `EventuallyConverged`: once the environment stops, the routing state
  converges for good, and a gone subject's objects are collected. It is
  checked under `PromptSpec`, which leaves out the periodic resync
  (`SyncPeriod` is ten hours by default). Every change must then reach the
  goal through its own event, and every failed pass through its own
  requeue. With the resync, any lost event would be repaired and the
  property would say little. The mutant `EndPassOffByOne`, which lets a
  failed pass end as a success, breaks it.
- `QueryQuiescentConverged`: the same no-lost-wake-up property for the
  querier. When the worker is idle and the key is not dirty, an active
  ThanosQuery's Deployment names exactly the Services its selector matches,
  with their current class. The mutant `QEndPassIgnoringErrors` breaks it.
- `QueryInductive`: its strengthening. While the key stays unqueued, a pass
  under way works from the current selector and Services, and the objects
  it has written are already right. A List that ignores the selector
  (`QListServicesUnfiltered`) breaks it.
- `QueryEventuallyConverged`: once the environment stops, the querier
  converges. Two runs ask two questions of it. Under `PromptSpec` (no
  resync, channels closed), every failure must be repaired by its own
  requeue: `QEndPassIgnoringErrors` breaks it, because the failed write is
  never retried. Under `Spec` with every channel open, the resync is the
  only repair of a lost event, and it suffices; a List that ignores the
  selector (`QListServicesUnfiltered`) breaks it, since no pass can then
  produce the right endpoint set.
- `IngestersQuiescent`: the no-lost-wake-up property across subjects. An
  active ThanosReceive whose key is not queued owns every ingester its spec
  declares, and the ingester carries its spec. It could fail in two ways:
  another subject's pass takes the ingester without queuing this subject,
  or the collector deletes a shared ingester of a deleted subject while
  this subject is idle. Neither happens, because `Owns()` maps an update to
  the old owner too. If only the new owner were queued (the mutant
  `WokenNewOwnerOnly`), it would fail.
- `IngestersSettle`: once the user stops, every active ThanosReceive owns
  its ingesters for good. This fails when names collide (finding at
  `thanosreceive_controller.go:252`). Each pass rewrites the shared
  StatefulSet with its own spec and owner, so the two keys reconcile for
  ever. There is no pass run of this property: the liveness property of a
  single subject is `EventuallyConverged`.

The refinements `ReceiveImplementsKey`, `QueryImplementsKey` and
`SubjectImplementsKey` (each controller implements `ReconcileKey` through a
mapping `Key == INSTANCE ReconcileKey WITH ...`) are proved by TLAPS for
every instance (section 4) and have no run of their own. The mapping is:
- `active` is "the subject exists and is not being deleted";
- `busy` is the key queued or a pass running, and for receive also a watch
  event still to come (`EventsPending`);
- the target is what the inputs call for: `Selected(qSel)` for the querier,
  the shard list and the ready hosts (`RoutingTarget`) for receive, and the
  subject's hashrings for `ReceiveNamesKey`;
- the output is the controller's objects (`QuerierOut`, `RoutingOut`,
  `SubjectOut`), and `Matches` the convergence predicate.

This is stronger than the no-lost-wake-up invariant: it also says that a
change of the inputs that queues nothing never turns a right output wrong.

`ReceiveNames` makes a whole pass of one key a single step. This is sound
because the controller is built without `WithOptions`, so it runs
controller-runtime's default single worker, and passes of different keys
never overlap. The strings are real strings, and TLC concatenates them as
`IngesterNameFromParent` does. That function is not under `src/`; it is
modelled from spec section 6. The fairness is one weakly fair `Reconcile`
per key, which the FIFO queue justifies, plus resync and garbage
collection.

The query bounds: two Services let one match the selector and one not, and
let one be strict; two selectors let an update change which Services match;
five environment steps let a Service appear and disappear while the selector
changes and the subject is deleted. Symmetry over the two Services
would be sound, since no label set or property names one, but the runs
finish without it.

The receive bounds allow every interleaving that matters:
- Two shards give a shard list that can change order, shrink or grow.
- Two hosts let a shard go from one ready pod to two, or to none, while
  another shard is active.
- Two faults let one pass fail on two different calls, or two passes fail
  in a row.
- Five environment steps let a subject be created, updated and deleted while
  pods change readiness; the caches catch up in steps of their own, which
  the budget does not count, so a pass can read any lagging copy.

Symmetry over shards and hosts is sound. No property and no constant names a
particular shard or host, and `MCShardLists` is closed under renaming. The
liveness runs use no symmetry.

Deadlock is not checked. Once the environment has spent its steps and the
subject is gone, the system really does wait for events forever.

### Fairness

- `WF_vars(Controller)`: the worker goroutine runs whenever the queue holds
  the key.
- `WF_vars(SyncConfigMap)`, `WF_vars(SyncSlices(s))`: the informers keep
  watching and their caches catch up.
- `WF_vars(CollectGarbage)`: the garbage controller runs.
- `WF_vars(Resync)`: the informer resyncs periodically. `Spec` includes it;
  `PromptSpec`, which the liveness runs check, does not.

The user and the pods owe no steps.

## 4. Proofs

`ReceiveControllerProofs` proves `THEOREM TypeCorrect == Spec => []TypeOK` for
every choice of constants that satisfies `HashringAssumption` and
`ReceiveAssumption`. `TypeOK` includes the non-trivial conjunct
`w.pc = "idle" => w = Idle`: an idle worker holds no leftover pass state, so
`errs` is reset between passes. The proof has the lemma `TypeInit` and three
step lemmas:
- `WorkerStep`: one case per worker action, with the record lemmas
  `WorkerIntro` and `WorkerElim`;
- `ObjectsStep`: the garbage collector and the informers;
- `EnvironmentStep`.

`QueryControllerProofs` proves three theorems, from `QueryAssumption`:
- `QueryTypeCorrect == Spec => []TypeOK`, along the same lines
  (`QWorkerStep`, `QStateStep`, `QRestStep`).
- `QueryNoLostWakeup == EventsDelivered => (Spec => []QueryQuiescentConverged)`.
  `EventsDelivered` closes the four channels of section 2.
  `QueryQuiescentConverged` is not inductive: a pass that has taken the key
  already broke the "idle" premise, and it must still end right. The proof
  uses `QueryInductive`, checked by TLC in query_safety and proved
  invariant as `QueryInductiveHolds == EventsDelivered => (Spec => []QueryInductive)`.
  The argument is:
  - when the worker takes the key it records the current selector (`IPass`);
  - a successful List yields `Selected(qSel)` (`IApply`);
  - each successful write makes its object right, and marks the key dirty
    when it changed the object;
  - any Service event either queues the key, or concerns a Service the
    selector does not match, so `Selected(qSel)` is unchanged
    (`SelectedRemove`, `SvcCreateStep`);
  - a failed write fails the pass, which queues the key again.

  There is one lemma per action (`StartStep`, `ListStep`, `ApplyStep`,
  `EndPassStep`, `SvcCreateStep`, `SvcDeleteStep`, `QueuingStep`,
  `SameViewStep`), and `InductiveStep` combines them. Three of the four
  conjuncts of `EventsDelivered` have a violation run that shows the
  property fails without it (query_list_failure, query_relabel,
  query_part_of). The mapper-List conjunct (`MapListCanFail`) has no
  violation run; it is open only in query_resync, whose property the
  resync repairs.
- `QueryRefinesKey == EventsDelivered => (Spec => QueryImplementsKey)`.
  `KeyStep` shows that a step between two states of `QueryInductive` is a
  step of `Key!Next`, or leaves `Key!vars` unchanged:
  - a step after which the key is queued or a pass runs is a `Queue` step
    (`KeyQueue`, with `TypeOK'` giving the types);
  - a step of `QStart`, `QListServices` or `QEndPass` that leaves the key
    idle changes none of the subject, the Services or the querier. It is a
    `Settle` step, and `QueryQuiescentConverged` in the next state says
    that the querier is right (`KeySettle`);
  - a Service creation or deletion that queues nothing is a `Drift` step:
    by `SvcCreateView` and `SvcDeleteView` it leaves `Selected(qSel)`
    unchanged for an active subject with an unqueued key (`KeyDrift`);
  - a relabel is excluded by `EventsDelivered`.

`ReceiveConvergenceProofs` proves the receive counterparts, with
`EventsDelivered == ~MapGetCanFail` (the endpoint-slice mapper always finds
the Service):
- `ReceiveNoLostWakeup == EventsDelivered => (Spec => []QuiescentConverged)`;
- `ReceiveInductiveHolds == EventsDelivered => (Spec => []ReceiveInductive)`;
- `ReceiveRefinesKey == EventsDelivered => (Spec => ReceiveImplementsKey)`.

`QuiescentConverged` alone is not inductive: a pass under way has already
cleared the key, and it must still end with the routing right, although it
read the caches. `ReceiveInductive` is split into parts, one lemma per
action shows each part preserved, and `InductiveStep` combines them:
- `RReady` and `RCache`: a pod becomes ready only in an existing ingester,
  a cached endpoint stays in one until the subject is gone, and the
  collector takes the slices with the Services. So with `EventsDelivered`
  every environment step, resync, collection and ConfigMap sync queues the
  key and leaves the worker alone (`EnvQueues`, `QueuingStep`), and a slice
  sync either queues it or drops an event for a gone shard (`SyncStep`);
- `RCm`: with no ConfigMap event pending, the cache holds the ConfigMap, so
  a pass that reads it reads the live table;
- `RPass`: taking the key records the current spec (`StartStep`);
- `RList`: each List reads what the cache holds now (`ListStep`). After the
  last one, every declared shard has been read (`BuildStep`);
- `RApply`: the write list names every declared ingester and the ConfigMap,
  each once, because a spec's hashring names are distinct
  (`ApplyListShape`, `TailShape`). A successful CreateOrUpdate leaves its
  object right or its event pending (`ApplyIngesterStep`,
  `ApplyConfigMapStep`), and a failed one counts an error
  (`ApplyFailStep`);
- a pass that ends with no error and no event pending has every declared
  ingester and a ConfigMap equal to `BuildHashrings` of what it read, which
  is what is ready now. `Entry` picks the fresh endpoints for every shard
  that has some (`EndStep`).

`KeyStep` for the receive refinement is shorter than its query counterpart.
Because `busy` includes a pending watch event, no environment step leaves
the key idle: every step is a `Queue` step, a `Settle` step (at
`StartReconcile`, at `EndPass`, or at a slice sync whose event is for a
shard without an ingester), or a stutter.

`ReceiveNamesProofs` proves `NamesTypeCorrect == Spec => []TypeOK` and
`IngestersQuiescentHolds == Spec => []IngestersQuiescent`. They hold for
every set of subject and hashring names that satisfies `NamesAssumption`:
names are non-empty, and the derived name is injective in the hashring for
a fixed subject. `IngestersQuiescent` is inductive given `TypeOK`. The
argument is:
- a pass that leaves its own key idle changed nothing, so it owns what it
  wrote (`ReconcileSettlesSelf`, using `DesiredName`);
- an ingester of another idle subject `x` that the pass wrote was owned by
  `x`, so `x` is in `Woken` and queued, which is a contradiction
  (`ReconcileKeepsOthers`);
- the collector only removes an object whose owner is gone, and so never
  removes an active subject's own ingester (`CollectStep`).

`ReceiveNamesProofs` also proves `SubjectRefinesKey == Spec =>
SubjectImplementsKey`. `KeySubject` is an arbitrary constant with the single
assumption `KeySubject \in Subjects`, so the theorem covers every subject of
every instance. `SubjectInit` maps the initial state to `Key!Init`.
`SubjectStep` takes a step between two states that satisfy `TypeOK` and
`IngestersQuiescent`, and splits on the subject's queued flag:
- queued after the step: a `Queue` step (`ViewTypePrime` gives the types);
- queued before and not after: only the subject's own pass clears its flag
  (`SettleOnlyByPass`). That pass changed no object, since any change queues
  the subject itself (`PassSettles`). `IngestersQuiescent'` then says the
  ingesters match, so it is a `Settle` step;
- idle before and after: no step touches the subject's phase or hashrings
  (`QuietKeeps`). `IngestersQuiescent` on both sides pins each of its
  ingesters to itself, so its output is unchanged (`OutStable`). This is a
  stutter of `Key`.

tlapm cannot expand an instance with a parameter (`Key(s) == INSTANCE ...`).
For that reason the subject is a constant of `ReceiveNamesKey`, not a
bound variable.

Liveness (`EventuallyConverged`, `QueryEventuallyConverged`) is checked by
TLC only. TLAPS does not handle ENABLED and fairness reasoning here. The
same holds for `IngestersSettle`, whose only run is a violation. Every safety invariant that a passing run checks is also
proved as a theorem.

## 5. Not modelled, and the plan

Not modelled yet:
- **Deletion with a finalizer.** `handleDeletionTimestamp` only records an
  event, and nothing under `src/` adds or removes `receiveFinalizer`. The
  model keeps the deleting phase (`crFinalizer`) because another actor may
  put the finalizer on the subject, and then the subject would stay in
  deletion for good. No property is checked about it: the code never puts
  the subject in that state itself.
- **The querier's manifest.** `BuildQuerier` is not under `src/`. The
  endpoint flags it derives from the classes are not modelled: the model
  stops at the endpoint set.
- **Several query subjects.** Two ThanosQueries derive their object names from
  their own names, so the query names do not collide in the same way. Their
  keys are independent.
- **Metrics, logging, events, RBAC YAML and the Ginkgo tests.** These change no
  control state.
