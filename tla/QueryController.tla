--------------------------- MODULE QueryController ---------------------------
(***************************************************************************)
(* The ThanosQuery reconcile loop for one subject (one workqueue key),     *)
(* thanosquery_controller.go.                                              *)
(*                                                                         *)
(* A pass gets the subject, lists the Services selected by its store label *)
(* selector, classifies each by its labels (getStoreAPIServiceEndpoints),  *)
(* and applies the querier's objects one by one with CreateOrUpdate; the   *)
(* Deployment carries the endpoint list.  Store Services are created,      *)
(* deleted and relabelled by others; their events reach the queue through  *)
(* GenerationChangedPredicate, the part-of/store-API label predicate and   *)
(* enqueueForService.                                                      *)
(*                                                                         *)
(* A label is a key carrying the operator's default value; a selector is   *)
(* the set of keys it requires.                                            *)
(***************************************************************************)
EXTENDS Naturals, Sequences, FiniteSets

CONSTANTS
    Svcs,           \* names of store Services in the namespace
    LabelSets,      \* label sets a store Service may carry
    Selectors,      \* store label selectors a subject may declare
    MaxFaults,      \* API calls that may fail in one behaviour
    MaxEnvSteps,    \* changes the user and other controllers may make
    ListCanFail,    \* the pass's List of Services may fail
    LabelUpdates,   \* others may change the labels of an existing Service
    MapListCanFail  \* the Service mapper's List of ThanosQueries may fail

(* The label keys of the operator's label contract.                        *)
PartOf == "part-of"
StoreAPI == "store-api"
Strict == "strict"
GroupStrict == "group-strict"
Group == "group"

ASSUME QueryAssumption ==
    /\ LabelSets # {} /\ Selectors # {}
    /\ MaxFaults \in Nat /\ MaxEnvSteps \in Nat
    /\ {ListCanFail, LabelUpdates, MapListCanFail} \subseteq BOOLEAN

VARIABLES
    qPhase,         \* the subject: "absent", "active" or "gone"
    qSel,           \* its Spec.StoreLabelSelector.MatchLabels
    svcExists,      \* the store Services that exist
    svcLabels,      \* their labels
    deployExists,   \* the querier Deployment exists
    deployed,       \* the endpoints its arguments name
    otherExists,    \* the querier's Service and ServiceAccount exist
    dirty,          \* the key is queued
    w,              \* the worker's pass
    faults, envSteps

vars == <<qPhase, qSel, svcExists, svcLabels, deployExists, deployed,
          otherExists, dirty, w, faults, envSteps>>

-----------------------------------------------------------------------------
(* getStoreAPIServiceEndpoints, lines 171-179: the strictness class, by    *)
(* precedence strict > group-strict > group > regular.                     *)
EndpointType(labels) ==
    CASE Strict \in labels      -> "strict"
      [] GroupStrict \in labels -> "group-strict"
      [] Group \in labels       -> "group"
      [] OTHER                  -> "regular"

(* Lines 181-192: an endpoint is the Service's name and class.  The port   *)
(* the loop finds is overwritten by the literal of line 188; the querier   *)
(* resolves a store through the DNS SRV record of its grpc port.           *)
Endpoint(s, labels) == [svc |-> s, type |-> EndpointType(labels)]

Endpoints == [svc: Svcs, type: {"strict", "group-strict", "group", "regular"}]

(* The endpoints the List of lines 156-161 yields: the existing Services   *)
(* whose labels include every key of the selector.                         *)
Selected(sel) ==
    { Endpoint(s, svcLabels[s]) : s \in {x \in svcExists : sel \subseteq svcLabels[x]} }

(* BuildQuerier's objects, in the order syncResources applies them.        *)
QuerierObjs == <<"deployment", "others">>

Idle == [pc |-> "idle", sel |-> {}, eps |-> {}, todo |-> <<>>, errs |-> 0]

QWorker == [pc: {"idle", "list", "apply"}, sel: SUBSET (UNION Selectors),
            eps: SUBSET Endpoints, todo: Seq({"deployment", "others"}),
            errs: Nat]

TypeOK ==
    /\ qPhase \in {"absent", "active", "gone"}
    /\ qSel \in Selectors
    /\ svcExists \subseteq Svcs
    /\ svcLabels \in [Svcs -> LabelSets]
    /\ deployExists \in BOOLEAN /\ otherExists \in BOOLEAN
    /\ deployed \subseteq Endpoints
    /\ dirty \in BOOLEAN
    /\ w \in QWorker
    /\ w.pc = "idle" => w = Idle
    /\ faults \in 0..MaxFaults
    /\ envSteps \in 0..MaxEnvSteps

Init ==
    /\ qPhase = "absent"
    /\ qSel \in Selectors
    /\ svcExists = {}
    /\ svcLabels \in [Svcs -> LabelSets]
    /\ deployExists = FALSE /\ deployed = {} /\ otherExists = FALSE
    /\ dirty = FALSE
    /\ w = Idle
    /\ faults = 0 /\ envSteps = 0

CanFail == faults < MaxFaults
Fail == faults' = faults + 1

(* Reconcile returns; an error requeues the key, and events that arrived   *)
(* during the pass left it queued anyway.                                  *)
Finish(err) == w' = Idle /\ dirty' = (dirty \/ err)

-----------------------------------------------------------------------------
(* Reconcile, lines 63-77: get the subject.  Not found ends the pass; any  *)
(* other error fails it; otherwise the pass reads the selector.  There is *)
(* no deletion path: a subject without finalizers is gone at once.         *)
QStart ==
    /\ w.pc = "idle"
    /\ dirty
    /\ \/ /\ CanFail
          /\ Fail
          /\ UNCHANGED <<w, dirty>>
       \/ /\ qPhase # "active"
          /\ dirty' = FALSE
          /\ UNCHANGED <<w, faults>>
       \/ /\ qPhase = "active"
          /\ w' = [Idle EXCEPT !.pc = "list", !.sel = qSel]
          /\ dirty' = FALSE
          /\ UNCHANGED faults
    /\ UNCHANGED <<qPhase, qSel, svcExists, svcLabels, deployExists, deployed,
                   otherExists, envSteps>>

(* Mutant: the List drops the selector's MatchingLabels option.           *)
QListServicesUnfiltered ==
    /\ w.pc = "list"
    /\ \/ /\ ListCanFail /\ CanFail
          /\ Fail
          /\ w' = [w EXCEPT !.pc = "apply", !.eps = {}, !.todo = QuerierObjs]
       \/ /\ w' = [w EXCEPT !.pc = "apply", !.eps = Selected({}),
                            !.todo = QuerierObjs]
          /\ UNCHANGED faults
    /\ UNCHANGED <<qPhase, qSel, svcExists, svcLabels, deployExists, deployed,
                   otherExists, dirty, envSteps>>

(* getStoreAPIServiceEndpoints, lines 155-196, from buildQuerier: a failed *)
(* List returns no endpoints and no error, so the pass goes on.            *)
QListServices ==
    /\ w.pc = "list"
    /\ \/ /\ ListCanFail /\ CanFail
          /\ Fail
          /\ w' = [w EXCEPT !.pc = "apply", !.eps = {}, !.todo = QuerierObjs]
       \/ /\ w' = [w EXCEPT !.pc = "apply", !.eps = Selected(w.sel),
                            !.todo = QuerierObjs]
          /\ UNCHANGED faults
    /\ UNCHANGED <<qPhase, qSel, svcExists, svcLabels, deployExists, deployed,
                   otherExists, dirty, envSteps>>

(* syncResources, lines 93-123, one object per step.  A write that changes *)
(* an owned object comes back through Owns() and queues the key.           *)
QApply ==
    /\ w.pc = "apply"
    /\ w.todo # <<>>
    /\ \/ /\ CanFail
          /\ Fail
          /\ w' = [w EXCEPT !.todo = Tail(w.todo), !.errs = w.errs + 1]
          /\ UNCHANGED <<deployExists, deployed, otherExists, dirty>>
       \/ /\ w' = [w EXCEPT !.todo = Tail(w.todo)]
          /\ IF Head(w.todo) = "deployment"
               THEN /\ deployExists' = TRUE
                    /\ deployed' = w.eps
                    /\ dirty' = (dirty \/ ~deployExists \/ deployed # w.eps)
                    /\ UNCHANGED otherExists
               ELSE /\ otherExists' = TRUE
                    /\ dirty' = (dirty \/ ~otherExists)
                    /\ UNCHANGED <<deployExists, deployed>>
          /\ UNCHANGED faults
    /\ UNCHANGED <<qPhase, qSel, svcExists, svcLabels, envSteps>>

(* Mutant: the error count is ignored and the pass always succeeds.        *)
QEndPassIgnoringErrors ==
    /\ w.pc = "apply"
    /\ w.todo = <<>>
    /\ Finish(FALSE)
    /\ UNCHANGED <<qPhase, qSel, svcExists, svcLabels, deployExists, deployed,
                   otherExists, faults, envSteps>>

(* Mutant: the error count survives into the next pass.                   *)
QEndPassKeepingErrCount ==
    /\ w.pc = "apply"
    /\ w.todo = <<>>
    /\ w' = [Idle EXCEPT !.errs = w.errs]
    /\ dirty' = (dirty \/ w.errs > 0)
    /\ UNCHANGED <<qPhase, qSel, svcExists, svcLabels, deployExists, deployed,
                   otherExists, faults, envSteps>>

(* Lines 125-129: the pass fails when any object failed.                   *)
QEndPass ==
    /\ w.pc = "apply"
    /\ w.todo = <<>>
    /\ Finish(w.errs > 0)
    /\ UNCHANGED <<qPhase, qSel, svcExists, svcLabels, deployExists, deployed,
                   otherExists, faults, envSteps>>

-----------------------------------------------------------------------------
(* enqueueForService, lines 226-255: a Service carrying the store-API     *)
(* label queues every ThanosQuery of its namespace whose selector matches *)
(* its labels.  The ThanosQueries come from a cached List that may fail;  *)
(* the event is then dropped.                                              *)
EnqueueForService(labels) ==
    \/ /\ StoreAPI \in labels
       /\ qPhase = "active"
       /\ qSel \subseteq labels
       /\ dirty' = TRUE
    \/ /\ \/ StoreAPI \notin labels
          \/ qPhase # "active"
          \/ ~(qSel \subseteq labels)
          \/ MapListCanFail
       /\ UNCHANGED dirty

(* The Service watch, lines 200-220: the event passes                      *)
(* GenerationChangedPredicate (creations and deletions always do) and the *)
(* part-of/store-API label predicate before reaching the mapper.          *)
ServiceEvent(labels) ==
    IF {PartOf, StoreAPI} \subseteq labels
      THEN EnqueueForService(labels)
      ELSE UNCHANGED dirty

EnvStep == envSteps < MaxEnvSteps /\ envSteps' = envSteps + 1

(* The subject is created, its selector changed, or it is deleted; each   *)
(* is an event of the For() watch.                                         *)
QCreate ==
    /\ EnvStep
    /\ qPhase = "absent"
    /\ qPhase' = "active"
    /\ qSel' \in Selectors
    /\ dirty' = TRUE
    /\ UNCHANGED <<svcExists, svcLabels, deployExists, deployed, otherExists,
                   w, faults>>

QUpdateSelector ==
    /\ EnvStep
    /\ qPhase = "active"
    /\ qSel' \in Selectors \ {qSel}
    /\ dirty' = TRUE
    /\ UNCHANGED <<qPhase, svcExists, svcLabels, deployExists, deployed,
                   otherExists, w, faults>>

QDelete ==
    /\ EnvStep
    /\ qPhase = "active"
    /\ qPhase' = "gone"
    /\ dirty' = TRUE
    /\ UNCHANGED <<qSel, svcExists, svcLabels, deployExists, deployed,
                   otherExists, w, faults>>

(* A store Service is created or deleted by its own workload's operator.  *)
SvcCreate(s, labels) ==
    /\ EnvStep
    /\ s \notin svcExists
    /\ svcExists' = svcExists \cup {s}
    /\ svcLabels' = [svcLabels EXCEPT ![s] = labels]
    /\ ServiceEvent(labels)
    /\ UNCHANGED <<qPhase, qSel, deployExists, deployed, otherExists, w, faults>>

SvcDelete(s) ==
    /\ EnvStep
    /\ s \in svcExists
    /\ svcExists' = svcExists \ {s}
    /\ ServiceEvent(svcLabels[s])
    /\ UNCHANGED <<qPhase, qSel, svcLabels, deployExists, deployed,
                   otherExists, w, faults>>

(* A label change is an update that leaves metadata.generation as it was: *)
(* GenerationChangedPredicate drops the event.                             *)
SvcRelabel(s, labels) ==
    /\ LabelUpdates
    /\ EnvStep
    /\ s \in svcExists
    /\ labels # svcLabels[s]
    /\ svcLabels' = [svcLabels EXCEPT ![s] = labels]
    /\ UNCHANGED <<qPhase, qSel, svcExists, deployExists, deployed,
                   otherExists, dirty, w, faults>>

(* The informer's periodic resync redelivers the subject through For();   *)
(* the Services it redelivers are unchanged updates, which                 *)
(* GenerationChangedPredicate drops.                                       *)
QResync ==
    /\ qPhase = "active"
    /\ ~dirty
    /\ dirty' = TRUE
    /\ UNCHANGED <<qPhase, qSel, svcExists, svcLabels, deployExists, deployed,
                   otherExists, w, faults, envSteps>>

(* The garbage collector removes the objects of a gone subject; their     *)
(* deletion events come back through Owns().                               *)
QCollectGarbage ==
    /\ qPhase = "gone"
    /\ deployExists \/ otherExists
    /\ deployExists' = FALSE /\ deployed' = {} /\ otherExists' = FALSE
    /\ dirty' = TRUE
    /\ UNCHANGED <<qPhase, qSel, svcExists, svcLabels, w, faults, envSteps>>

-----------------------------------------------------------------------------
QController == QStart \/ QListServices \/ QApply \/ QEndPass

QEnvironment ==
    \/ QCreate \/ QUpdateSelector \/ QDelete
    \/ \E s \in Svcs, l \in LabelSets : SvcCreate(s, l) \/ SvcRelabel(s, l)
    \/ \E s \in Svcs : SvcDelete(s)

Next == QController \/ QEnvironment \/ QResync \/ QCollectGarbage

(* The worker runs whenever it has work; resync and garbage collection    *)
(* happen; the user and other controllers owe nothing.                     *)
Fairness ==
    /\ WF_vars(QController)
    /\ WF_vars(QResync)
    /\ WF_vars(QCollectGarbage)

Spec == Init /\ [][Next]_vars /\ Fairness

(* Without the resync, which comes every SyncPeriod (10h by default):      *)
(* every change must reach the goal through its own event and a failed    *)
(* pass through its own requeue.                                          *)
PromptSpec ==
    Init /\ [][Next]_vars /\ WF_vars(QController) /\ WF_vars(QCollectGarbage)

-----------------------------------------------------------------------------
(* The querier the subject's selector and the store Services call for.    *)
Converged ==
    /\ deployExists /\ otherExists
    /\ deployed = Selected(qSel)

(* No lost wake-up: whenever the worker is idle and the key is not queued, *)
(* the querier of an active subject names exactly the store Services its  *)
(* selector matches now, with their current strictness class.  Breaking   *)
(* it takes a Service change that lands mid-pass without an event, a      *)
(* failure that is not retried, or a dropped event.                        *)
QueryQuiescentConverged ==
    w.pc = "idle" /\ ~dirty /\ qPhase = "active" => Converged

(* The channels through which a change can fail to reach the queue, all    *)
(* closed: the Service List of a pass does not fail, labels of existing   *)
(* Services do not change, the mapper's List does not fail, and every      *)
(* store Service carries the part-of and store-API labels.                 *)
EventsDelivered ==
    /\ ~ListCanFail /\ ~LabelUpdates /\ ~MapListCanFail
    /\ \A l \in LabelSets : {PartOf, StoreAPI} \subseteq l

(* The strengthening of QueryQuiescentConverged that a step preserves:    *)
(* while the key stays unqueued, a pass under way works from the current  *)
(* selector and Services and has applied, without error, a prefix of the  *)
(* querier's objects.                                                      *)
QueryInductive ==
    /\ TypeOK
    /\ QueryQuiescentConverged
    /\ w.pc = "list" => w.errs = 0
    /\ w.pc = "apply" => w.todo \in {QuerierObjs, <<"others">>, <<>>}
    /\ w.pc \in {"list", "apply"} /\ ~dirty =>
          qPhase = "active" /\ w.sel = qSel
    /\ w.pc = "apply" /\ ~dirty =>
          /\ w.eps = Selected(qSel)
          /\ w.errs = 0 /\ w.todo # QuerierObjs =>
                deployExists /\ deployed = w.eps
          /\ w.errs = 0 /\ w.todo = <<>> => otherExists

(* Convergence: once the environment stops, the querier of an active      *)
(* subject matches its store Services for good, and a gone subject's       *)
(* objects are collected.                                                  *)
QueryEventuallyConverged ==
    <>[]( /\ qPhase = "active" => Converged
          /\ qPhase = "gone" => ~deployExists /\ ~otherExists )

-----------------------------------------------------------------------------
(* The querier against the abstract promise of ReconcileKey: the subject   *)
(* is active when it exists, its target is the endpoint set its selector  *)
(* matches now, its output is the querier's objects, and it is busy while  *)
(* its key is queued or a pass is running.                                 *)
QuerierOut == [deploy |-> deployExists, others |-> otherExists, eps |-> deployed]

QMatches(o, t) == o.deploy /\ o.others /\ o.eps = t

Key == INSTANCE ReconcileKey
         WITH active <- qPhase = "active",
              target <- Selected(qSel),
              out <- QuerierOut,
              busy <- dirty \/ w.pc # "idle",
              Targets <- SUBSET Endpoints,
              Outs <- [deploy: BOOLEAN, others: BOOLEAN, eps: SUBSET Endpoints],
              Matches <- QMatches

(* The query controller implements ReconcileKey: it never lets its key go  *)
(* idle with a querier that is wrong for an active ThanosQuery, and a      *)
(* Service change that queues nothing keeps a right querier right.         *)
QueryImplementsKey == Key!Spec

=============================================================================
