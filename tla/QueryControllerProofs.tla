------------------------ MODULE QueryControllerProofs ------------------------
(***************************************************************************)
(* Proofs about the ThanosQuery reconcile loop, for every value of the     *)
(* constants that satisfies QueryAssumption.                               *)
(***************************************************************************)
EXTENDS QueryController, SequenceTheorems, TLAPS

USE QueryAssumption

-----------------------------------------------------------------------------
(* Endpoints and the worker record.                                        *)

(* An endpoint is built from the Service's name and the class its labels  *)
(* give.                                                                   *)
LEMMA EndpointForm ==
    ASSUME NEW s \in Svcs, NEW l
    PROVE  /\ Endpoint(s, l) = [svc |-> s, type |-> EndpointType(l)]
           /\ Endpoint(s, l) \in Endpoints
<1>1. EndpointType(l) \in {"strict", "group-strict", "group", "regular"}
  BY DEF EndpointType
<1>2. Endpoint(s, l) = [svc |-> s, type |-> EndpointType(l)]
  BY DEF Endpoint
<1>3. QED BY <1>1, <1>2 DEF Endpoints

(* The endpoints a List yields are endpoints.                              *)
LEMMA SelectedType ==
    ASSUME NEW sel, svcExists \subseteq Svcs
    PROVE  Selected(sel) \subseteq Endpoints
BY EndpointForm DEF Selected

LEMMA QuerierObjsType ==
    /\ QuerierObjs \in Seq({"deployment", "others"})
    /\ Tail(QuerierObjs) = <<"others">>
    /\ Head(QuerierObjs) = "deployment"
    /\ QuerierObjs # <<>> /\ QuerierObjs # <<"others">>
    /\ Tail(<<"others">>) = <<>> /\ Head(<<"others">>) = "others"
BY DEF QuerierObjs

LEMMA IdleType == Idle \in QWorker
BY DEF Idle, QWorker

(* A record of well-typed fields is a worker state.                       *)
LEMMA QWorkerIntro ==
    ASSUME NEW pc \in {"idle", "list", "apply"}, NEW sel \in SUBSET (UNION Selectors),
           NEW eps \in SUBSET Endpoints, NEW todo \in Seq({"deployment", "others"}),
           NEW errs \in Nat
    PROVE  [pc |-> pc, sel |-> sel, eps |-> eps, todo |-> todo, errs |-> errs]
             \in QWorker
BY DEF QWorker

(* A worker state is the record of its fields.                             *)
LEMMA QWorkerElim ==
    ASSUME NEW r \in QWorker
    PROVE  r = [pc |-> r.pc, sel |-> r.sel, eps |-> r.eps, todo |-> r.todo,
                errs |-> r.errs]
BY DEF QWorker

-----------------------------------------------------------------------------
(* Type correctness.                                                       *)

(* The worker's part of the type invariant.                               *)
QWorkerOK == w \in QWorker /\ (w.pc = "idle" => w = Idle)

(* Every step keeps the worker well formed.                                *)
LEMMA QWorkerStep ==
    ASSUME TypeOK, [Next]_vars
    PROVE  QWorkerOK'
<1> USE DEF TypeOK, QWorkerOK
<1>0. w = [pc |-> w.pc, sel |-> w.sel, eps |-> w.eps, todo |-> w.todo,
           errs |-> w.errs]
  BY QWorkerElim
<1>1. CASE QStart
  <2>1. CASE UNCHANGED w
    BY <2>1
  <2>2. CASE w' = [Idle EXCEPT !.pc = "list", !.sel = qSel]
    <3>1. qSel \in SUBSET (UNION Selectors)
      OBVIOUS
    <3>2. w' = [pc |-> "list", sel |-> qSel, eps |-> {}, todo |-> <<>>,
                errs |-> 0]
      BY <2>2 DEF Idle
    <3>3. w' \in QWorker
      BY <3>1, <3>2 DEF QWorker
    <3>4. QED BY <3>2, <3>3
  <2>3. QED BY <1>1, <2>1, <2>2 DEF QStart
<1>2. CASE QListServices
  <2>1. ASSUME NEW eps \in SUBSET Endpoints,
               w' = [w EXCEPT !.pc = "apply", !.eps = eps, !.todo = QuerierObjs]
        PROVE  w' \in QWorker /\ w'.pc # "idle"
    <3>1. w' = [pc |-> "apply", sel |-> w.sel, eps |-> eps,
                todo |-> QuerierObjs, errs |-> w.errs]
      BY <2>1, <1>0
    <3>2. w' \in QWorker
      BY <3>1, QuerierObjsType DEF QWorker
    <3>3. QED BY <3>1, <3>2
  <2>2. {} \in SUBSET Endpoints /\ Selected(w.sel) \in SUBSET Endpoints
    BY SelectedType
  <2>3. QED BY <1>2, <2>1, <2>2 DEF QListServices
<1>3. CASE QApply
  <2>1. Tail(w.todo) \in Seq({"deployment", "others"})
    BY <1>3, HeadTailProperties DEF QApply, QWorker
  <2>2. CASE w' = [w EXCEPT !.todo = Tail(w.todo), !.errs = w.errs + 1]
    <3>1. w' = [pc |-> w.pc, sel |-> w.sel, eps |-> w.eps,
                todo |-> Tail(w.todo), errs |-> w.errs + 1]
      BY <2>2, <1>0
    <3>2. w' \in QWorker
      BY <2>1, <3>1, QWorkerIntro DEF QWorker
    <3>3. QED BY <1>3, <3>1, <3>2 DEF QApply
  <2>3. CASE w' = [w EXCEPT !.todo = Tail(w.todo)]
    <3>1. w' = [pc |-> w.pc, sel |-> w.sel, eps |-> w.eps,
                todo |-> Tail(w.todo), errs |-> w.errs]
      BY <2>3, <1>0
    <3>2. w' \in QWorker
      BY <2>1, <3>1, QWorkerIntro DEF QWorker
    <3>3. QED BY <1>3, <3>1, <3>2 DEF QApply
  <2>4. QED BY <1>3, <2>2, <2>3 DEF QApply
<1>4. CASE QEndPass
  BY <1>4, IdleType DEF QEndPass, Finish
<1>5. CASE ~QController /\ UNCHANGED w
  BY <1>5
<1>6. QED
  <2>1. QEnvironment \/ QResync \/ QCollectGarbage \/ UNCHANGED vars
          => UNCHANGED w
    BY DEF QEnvironment, QResync, QCollectGarbage, vars, QCreate,
           QUpdateSelector, QDelete, SvcCreate, SvcRelabel, SvcDelete
  <2>2. QED BY <1>1, <1>2, <1>3, <1>4, <1>5, <2>1 DEF Next, QController

(* Every step keeps the subject, the Services and the owned objects well  *)
(* typed.                                                                  *)
LEMMA QStateStep ==
    ASSUME TypeOK, [Next]_vars
    PROVE  /\ qPhase' \in {"absent", "active", "gone"}
           /\ qSel' \in Selectors
           /\ svcExists' \subseteq Svcs
           /\ svcLabels' \in [Svcs -> LabelSets]
<1> USE DEF TypeOK
<1>1. CASE QController
  BY <1>1 DEF QController, QStart, QListServices, QApply, QEndPass
<1>2. CASE QCreate
  BY <1>2 DEF QCreate
<1>3. CASE QUpdateSelector
  BY <1>3 DEF QUpdateSelector
<1>4. CASE QDelete
  BY <1>4 DEF QDelete
<1>5. CASE \E s \in Svcs, l \in LabelSets : SvcCreate(s, l) \/ SvcRelabel(s, l)
  <2>1. PICK s \in Svcs, l \in LabelSets : SvcCreate(s, l) \/ SvcRelabel(s, l)
    BY <1>5
  <2>2. QED BY <2>1 DEF SvcCreate, SvcRelabel
<1>6. CASE \E s \in Svcs : SvcDelete(s)
  <2>1. PICK s \in Svcs : SvcDelete(s)
    BY <1>6
  <2>2. QED BY <2>1 DEF SvcDelete
<1>7. CASE QResync \/ QCollectGarbage \/ UNCHANGED vars
  BY <1>7 DEF QResync, QCollectGarbage, vars
<1>8. QED BY <1>1, <1>2, <1>3, <1>4, <1>5, <1>6, <1>7 DEF Next, QEnvironment

(* Every step keeps the owned objects, the queue and the bounds typed.    *)
LEMMA QRestStep ==
    ASSUME TypeOK, [Next]_vars
    PROVE  /\ deployExists' \in BOOLEAN /\ otherExists' \in BOOLEAN
           /\ deployed' \subseteq Endpoints
           /\ dirty' \in BOOLEAN
           /\ faults' \in 0..MaxFaults
           /\ envSteps' \in 0..MaxEnvSteps
<1> USE DEF TypeOK
<1>1. CASE QStart
  <2>1. UNCHANGED <<deployExists, deployed, otherExists, envSteps>>
    BY <1>1 DEF QStart
  <2>2. faults' \in 0..MaxFaults
    <3>1. CASE CanFail /\ Fail
      BY <3>1 DEF CanFail, Fail
    <3>2. CASE UNCHANGED faults
      BY <3>2
    <3>3. QED BY <1>1, <3>1, <3>2 DEF QStart
  <2>3. dirty' \in BOOLEAN
    BY <1>1 DEF QStart
  <2>4. QED BY <2>1, <2>2, <2>3
<1>2. CASE QListServices
  <2>1. UNCHANGED <<deployExists, deployed, otherExists, envSteps, dirty>>
    BY <1>2 DEF QListServices
  <2>2. faults' \in 0..MaxFaults
    BY <1>2 DEF QListServices, CanFail, Fail
  <2>3. QED BY <2>1, <2>2
<1>3. CASE QEndPass
  BY <1>3 DEF QEndPass, Finish
<1>4. CASE QApply
  <2>1. w.eps \subseteq Endpoints
    BY DEF QWorker
  <2>5. UNCHANGED envSteps
    BY <1>4 DEF QApply
  <2>2. CASE CanFail /\ Fail
             /\ UNCHANGED <<deployExists, deployed, otherExists, dirty>>
    BY <2>2, <2>5 DEF CanFail, Fail
  <2>3. CASE UNCHANGED faults /\ Head(w.todo) = "deployment"
             /\ deployExists' = TRUE /\ deployed' = w.eps
             /\ dirty' = (dirty \/ ~deployExists \/ deployed # w.eps)
             /\ UNCHANGED otherExists
    BY <2>1, <2>3, <2>5
  <2>4. CASE UNCHANGED faults /\ Head(w.todo) # "deployment"
             /\ otherExists' = TRUE /\ dirty' = (dirty \/ ~otherExists)
             /\ UNCHANGED <<deployExists, deployed>>
    BY <2>4, <2>5
  <2>6. QED BY <1>4, <2>2, <2>3, <2>4, <2>5 DEF QApply
<1>5. CASE QCreate
  BY <1>5 DEF QCreate, EnvStep
<1>6. CASE QUpdateSelector
  BY <1>6 DEF QUpdateSelector, EnvStep
<1>7. CASE QDelete
  BY <1>7 DEF QDelete, EnvStep
<1>8. ASSUME NEW l
      PROVE  ServiceEvent(l) => dirty' \in BOOLEAN
  BY DEF ServiceEvent, EnqueueForService
<1>9. CASE \E s \in Svcs, l \in LabelSets : SvcCreate(s, l)
  <2>1. PICK s \in Svcs, l \in LabelSets : SvcCreate(s, l)
    BY <1>9
  <2>2. envSteps' \in 0..MaxEnvSteps
    BY <2>1 DEF SvcCreate, EnvStep
  <2>3. QED BY <2>1, <2>2, <1>8 DEF SvcCreate
<1>10. CASE \E s \in Svcs, l \in LabelSets : SvcRelabel(s, l)
  <2>1. PICK s \in Svcs, l \in LabelSets : SvcRelabel(s, l)
    BY <1>10
  <2>2. QED BY <2>1 DEF SvcRelabel, EnvStep
<1>11. CASE \E s \in Svcs : SvcDelete(s)
  <2>1. PICK s \in Svcs : SvcDelete(s)
    BY <1>11
  <2>2. envSteps' \in 0..MaxEnvSteps
    BY <2>1 DEF SvcDelete, EnvStep
  <2>3. QED BY <2>1, <2>2, <1>8 DEF SvcDelete
<1>12. CASE QResync
  BY <1>12 DEF QResync
<1>13. CASE QCollectGarbage
  BY <1>13 DEF QCollectGarbage
<1>14. CASE UNCHANGED vars
  BY <1>14 DEF vars
<1>15. QED BY <1>1, <1>2, <1>3, <1>4, <1>5, <1>6, <1>7, <1>9, <1>10, <1>11,
              <1>12, <1>13, <1>14 DEF Next, QEnvironment, QController

LEMMA TypeInit ==
    ASSUME Init PROVE TypeOK
<1>1. w \in QWorker /\ (w.pc = "idle" => w = Idle)
  BY IdleType DEF Init
<1>2. faults \in 0..MaxFaults /\ envSteps \in 0..MaxEnvSteps
  BY DEF Init
<1>3. deployed \subseteq Endpoints /\ svcExists \subseteq Svcs
  BY DEF Init
<1>4. /\ qPhase \in {"absent", "active", "gone"}
      /\ qSel \in Selectors
      /\ svcLabels \in [Svcs -> LabelSets]
      /\ deployExists \in BOOLEAN /\ otherExists \in BOOLEAN
      /\ dirty \in BOOLEAN
  BY DEF Init
<1>5. QED BY <1>1, <1>2, <1>3, <1>4 DEF TypeOK

LEMMA TypeStep ==
    ASSUME TypeOK, [Next]_vars PROVE TypeOK'
<1>1. QWorkerOK'
  BY QWorkerStep
<1>2. /\ qPhase' \in {"absent", "active", "gone"}
      /\ qSel' \in Selectors
      /\ svcExists' \subseteq Svcs
      /\ svcLabels' \in [Svcs -> LabelSets]
  BY QStateStep
<1>3. /\ deployExists' \in BOOLEAN /\ otherExists' \in BOOLEAN
      /\ deployed' \subseteq Endpoints
      /\ dirty' \in BOOLEAN
      /\ faults' \in 0..MaxFaults
      /\ envSteps' \in 0..MaxEnvSteps
  BY QRestStep
<1>4. QED BY <1>1, <1>2, <1>3 DEF TypeOK, QWorkerOK

(* Type correctness of the query controller: every state the controller  *)
(* and its environment reach has well-formed worker, queue and cluster    *)
(* state, and an idle worker holds no leftover pass state (Reconcile starts *)
(* each pass from fresh locals).                                           *)
THEOREM QueryTypeCorrect == Spec => []TypeOK
<1>1. Init => TypeOK
  BY TypeInit
<1>2. TypeOK /\ [Next]_vars => TypeOK'
  BY TypeStep
<1>3. QED BY <1>1, <1>2, PTL DEF Spec

-----------------------------------------------------------------------------
(* No lost wake-up.                                                        *)

(* The endpoints selected from given Services and labels.                 *)
SelectedIn(sel, E, L) ==
    { Endpoint(s, L[s]) : s \in {x \in E : sel \subseteq L[x]} }

LEMMA SelectedIsIn == Selected(qSel) = SelectedIn(qSel, svcExists, svcLabels)
BY DEF Selected, SelectedIn

(* A Service the selector does not match changes nothing by disappearing. *)
LEMMA SelectedRemove ==
    ASSUME NEW sel, NEW E, NEW L, NEW s \in E, ~(sel \subseteq L[s])
    PROVE  SelectedIn(sel, E \ {s}, L) = SelectedIn(sel, E, L)
<1>1. {x \in E \ {s} : sel \subseteq L[x]} = {x \in E : sel \subseteq L[x]}
  OBVIOUS
<1>2. QED BY <1>1 DEF SelectedIn

(* The parts of QueryInductive beyond the type invariant.                 *)
IList == w.pc = "list" => w.errs = 0
ITodo == w.pc = "apply" => w.todo \in {QuerierObjs, <<"others">>, <<>>}
IPass == w.pc \in {"list", "apply"} /\ ~dirty => qPhase = "active" /\ w.sel = qSel
IApply ==
    w.pc = "apply" /\ ~dirty =>
        /\ w.eps = Selected(qSel)
        /\ w.errs = 0 /\ w.todo # QuerierObjs => deployExists /\ deployed = w.eps
        /\ w.errs = 0 /\ w.todo = <<>> => otherExists

LEMMA InductiveParts ==
    QueryInductive <=> TypeOK /\ QueryQuiescentConverged /\ IList /\ ITodo
                                /\ IPass /\ IApply
BY DEF QueryInductive, IList, ITodo, IPass, IApply

(* A step that queues the key and leaves the worker alone.                 *)
LEMMA QueuingStep ==
    ASSUME QueryInductive, dirty' = TRUE, UNCHANGED w
    PROVE  (QueryQuiescentConverged /\ IList /\ ITodo /\ IPass /\ IApply)'
BY InductiveParts DEF QueryQuiescentConverged, IList, ITodo, IPass, IApply


(* Taking the key: the pass starts from the current selector.              *)
LEMMA StartStep ==
    ASSUME QueryInductive, QStart
    PROVE  (QueryQuiescentConverged /\ IList /\ ITodo /\ IPass /\ IApply)'
<1>1. UNCHANGED <<qPhase, qSel, svcExists, svcLabels, deployExists, deployed,
                  otherExists>>
  BY DEF QStart
<1>2. CASE CanFail /\ Fail /\ UNCHANGED <<w, dirty>>
  <2>1. dirty' = TRUE
    BY <1>2 DEF QStart
  <2>2. QED BY <1>2, <2>1, QueuingStep
<1>3. CASE qPhase # "active" /\ dirty' = FALSE /\ UNCHANGED <<w, faults>>
  <2>1. w'.pc = "idle"
    BY <1>3 DEF QStart
  <2>2. QED BY <1>1, <1>3, <2>1 DEF QueryQuiescentConverged, IList, ITodo,
                                     IPass, IApply
<1>4. CASE qPhase = "active" /\ w' = [Idle EXCEPT !.pc = "list", !.sel = qSel]
           /\ dirty' = FALSE /\ UNCHANGED faults
  <2>1. w'.pc = "list" /\ w'.errs = 0 /\ w'.sel = qSel
    BY <1>4 DEF Idle
  <2>2. QED BY <1>1, <1>4, <2>1 DEF QueryQuiescentConverged, IList, ITodo,
                                     IPass, IApply
<1>5. QED BY <1>2, <1>3, <1>4 DEF QStart

(* Listing the Services: with the List not failing, the pass holds the     *)
(* endpoints the selector matches now.                                     *)
LEMMA ListStep ==
    ASSUME EventsDelivered, QueryInductive, QListServices
    PROVE  (QueryQuiescentConverged /\ IList /\ ITodo /\ IPass /\ IApply)'
<1>1. UNCHANGED <<qPhase, qSel, svcExists, svcLabels, deployExists, deployed,
                  otherExists, dirty>>
  BY DEF QListServices
<1>2. w' = [w EXCEPT !.pc = "apply", !.eps = Selected(w.sel), !.todo = QuerierObjs]
  BY DEF QListServices, EventsDelivered
<1>3. w.pc = "list" /\ w \in QWorker
  BY DEF QListServices, QueryInductive, TypeOK
<1>4. w'.pc = "apply" /\ w'.todo = QuerierObjs /\ w'.sel = w.sel
      /\ w'.eps = Selected(w.sel) /\ w'.errs = w.errs
  BY <1>2, <1>3 DEF QWorker
<1>5. ~dirty => qPhase = "active" /\ w.sel = qSel
  BY <1>3, InductiveParts DEF IPass
<1>6. Selected(qSel)' = Selected(qSel)
  BY <1>1 DEF Selected
<1>7. QueryQuiescentConverged' /\ IList'
  BY <1>4 DEF QueryQuiescentConverged, IList
<1>8. ITodo'
  BY <1>4 DEF ITodo
<1>9. IPass'
  BY <1>1, <1>4, <1>5 DEF IPass
<1>10. IApply'
  <2>1. ~dirty' => w'.eps = Selected(qSel)'
    BY <1>1, <1>4, <1>5, <1>6
  <2>2. QED BY <1>4, <2>1, QuerierObjsType DEF IApply
<1>11. QED BY <1>7, <1>8, <1>9, <1>10


(* Applying one object of the querier.                                     *)
LEMMA ApplyStep ==
    ASSUME QueryInductive, QApply
    PROVE  (QueryQuiescentConverged /\ IList /\ ITodo /\ IPass /\ IApply)'
<1>1. UNCHANGED <<qPhase, qSel, svcExists, svcLabels>>
  BY DEF QApply
<1>2. Selected(qSel)' = Selected(qSel)
  BY <1>1 DEF Selected
<1>3. /\ w \in QWorker /\ w.pc = "apply"
      /\ w.todo \in {QuerierObjs, <<"others">>}
  BY InductiveParts, QuerierObjsType DEF QApply, TypeOK, ITodo
<1>4. w = [pc |-> w.pc, sel |-> w.sel, eps |-> w.eps, todo |-> w.todo,
           errs |-> w.errs]
  BY <1>3, QWorkerElim
<1>5. IPass /\ IApply
  BY InductiveParts
<1>6. Tail(w.todo) \in {<<"others">>, <<>>}
  BY <1>3, QuerierObjsType
<1>0. dirty \in BOOLEAN /\ deployExists \in BOOLEAN /\ otherExists \in BOOLEAN
  <2>1. TypeOK
    BY InductiveParts
  <2>2. QED BY <2>1 DEF TypeOK
<1>7. CASE /\ w' = [w EXCEPT !.todo = Tail(w.todo), !.errs = w.errs + 1]
           /\ UNCHANGED <<deployExists, deployed, otherExists, dirty>>
  <2>1. w'.pc = "apply" /\ w'.sel = w.sel /\ w'.eps = w.eps
        /\ w'.todo = Tail(w.todo) /\ w'.errs # 0
    BY <1>3, <1>4, <1>7 DEF QWorker
  <2>2. QED BY <1>0, <1>1, <1>2, <1>5, <1>6, <1>7, <2>1
             DEF QueryQuiescentConverged, IList, ITodo, IPass, IApply
<1>8. CASE /\ w' = [w EXCEPT !.todo = Tail(w.todo)]
           /\ Head(w.todo) = "deployment"
           /\ deployExists' = TRUE /\ deployed' = w.eps
           /\ dirty' = (dirty \/ ~deployExists \/ deployed # w.eps)
           /\ UNCHANGED otherExists
  <2>1. w.todo = QuerierObjs
    BY <1>3, <1>8, QuerierObjsType
  <2>2. w'.pc = "apply" /\ w'.sel = w.sel /\ w'.eps = w.eps
        /\ w'.todo = <<"others">> /\ w'.errs = w.errs
    <3>1. w' = [pc |-> w.pc, sel |-> w.sel, eps |-> w.eps,
                todo |-> Tail(w.todo), errs |-> w.errs]
      BY <1>4, <1>8
    <3>2. Tail(w.todo) = <<"others">>
      BY <2>1, QuerierObjsType
    <3>3. QED BY <1>3, <3>1, <3>2
  <2>3. QED BY <1>0, <1>1, <1>2, <1>5, <1>8, <2>2, QuerierObjsType
             DEF QueryQuiescentConverged, IList, ITodo, IPass, IApply
<1>9. CASE /\ w' = [w EXCEPT !.todo = Tail(w.todo)]
           /\ Head(w.todo) # "deployment"
           /\ otherExists' = TRUE
           /\ dirty' = (dirty \/ ~otherExists)
           /\ UNCHANGED <<deployExists, deployed>>
  <2>1. w.todo = <<"others">>
    BY <1>3, <1>9, QuerierObjsType
  <2>2. w'.pc = "apply" /\ w'.sel = w.sel /\ w'.eps = w.eps
        /\ w'.todo = <<>> /\ w'.errs = w.errs
    <3>1. w' = [pc |-> w.pc, sel |-> w.sel, eps |-> w.eps,
                todo |-> Tail(w.todo), errs |-> w.errs]
      BY <1>4, <1>9
    <3>2. Tail(w.todo) = <<>>
      BY <2>1, QuerierObjsType
    <3>3. QED BY <1>3, <3>1, <3>2
  <2>3. QED BY <1>0, <1>1, <1>2, <1>5, <1>9, <2>1, <2>2, QuerierObjsType
             DEF QueryQuiescentConverged, IList, ITodo, IPass, IApply
<1>10. QED BY <1>7, <1>8, <1>9 DEF QApply, CanFail, Fail

(* Ending the pass: with no error and no event since the key was taken,   *)
(* the querier matches the selector and the Services.                     *)
LEMMA EndPassStep ==
    ASSUME QueryInductive, QEndPass
    PROVE  (QueryQuiescentConverged /\ IList /\ ITodo /\ IPass /\ IApply)'
<1>1. UNCHANGED <<qPhase, qSel, svcExists, svcLabels, deployExists, deployed,
                  otherExists>>
  BY DEF QEndPass
<1>2. Selected(qSel)' = Selected(qSel)
  BY <1>1 DEF Selected
<1>3. w' = Idle /\ dirty' = (dirty \/ w.errs > 0) /\ w.pc = "apply"
      /\ w.todo = <<>>
  BY DEF QEndPass, Finish
<1>0. TypeOK
  BY InductiveParts
<1>4. w.errs \in Nat /\ dirty \in BOOLEAN
  BY <1>0 DEF TypeOK, QWorker
<1>5. ~dirty' => ~dirty /\ w.errs = 0
  <2>1. ~dirty' => ~dirty /\ ~(w.errs > 0)
    BY <1>3, <1>4, Zenon
  <2>2. ~(w.errs > 0) => w.errs = 0
    BY <1>4
  <2>3. QED BY <2>1, <2>2
<1>6. IPass /\ IApply
  BY InductiveParts
<1>7. w'.pc = "idle"
  BY <1>3 DEF Idle
<1>8. ~dirty' /\ qPhase' = "active" => Converged'
  BY <1>1, <1>2, <1>3, <1>5, <1>6, QuerierObjsType DEF IPass, IApply, Converged
<1>9. QED BY <1>7, <1>8 DEF QueryQuiescentConverged, IList, ITodo, IPass, IApply

(* A step that keeps the worker, the queue, the subject and the querier,   *)
(* and changes the selected endpoints only where the key is queued or the *)
(* subject inactive.                                                       *)
LEMMA SameViewStep ==
    ASSUME QueryInductive,
           UNCHANGED <<w, dirty, qPhase, qSel, deployExists, deployed, otherExists>>,
           ~dirty /\ qPhase = "active" => Selected(qSel)' = Selected(qSel)
    PROVE  (QueryQuiescentConverged /\ IList /\ ITodo /\ IPass /\ IApply)'
<1>1. QueryQuiescentConverged /\ IPass /\ IApply
  BY InductiveParts
<1>2. QED BY <1>1, InductiveParts DEF QueryQuiescentConverged, Converged, IList,
                                       ITodo, IPass, IApply



(* A store Service appears.  Its event queues the key, or else the        *)
(* subject is inactive or its selector does not match the new Service,    *)
(* and the endpoints it selects stay the same.                            *)
LEMMA SvcCreateView ==
    ASSUME EventsDelivered, TypeOK,
           NEW s \in Svcs, NEW l \in LabelSets, SvcCreate(s, l)
    PROVE  /\ UNCHANGED <<w, qPhase, qSel, deployExists, deployed, otherExists>>
           /\ \/ dirty' = TRUE
              \/ /\ UNCHANGED dirty
                 /\ ~dirty /\ qPhase = "active" =>
                       Selected(qSel)' = Selected(qSel)
<1>1. {PartOf, StoreAPI} \subseteq l /\ ~MapListCanFail
  BY DEF EventsDelivered
<1>2. EnqueueForService(l)
      /\ UNCHANGED <<w, qPhase, qSel, deployExists, deployed, otherExists>>
  BY <1>1 DEF SvcCreate, ServiceEvent
<1>3. CASE UNCHANGED dirty
  <2>1. ~dirty /\ qPhase = "active" => ~(qSel \subseteq l)
    BY <1>1, <1>2, <1>3 DEF EnqueueForService
  <2>2. Selected(qSel)' = SelectedIn(qSel, svcExists \cup {s},
                                     [svcLabels EXCEPT ![s] = l])
    BY DEF SvcCreate, Selected, SelectedIn
  <2>3. SUFFICES ASSUME ~dirty, qPhase = "active"
                 PROVE  Selected(qSel)' = Selected(qSel)
    BY <1>2, <1>3
  <2>4. ~(qSel \subseteq l)
    BY <2>1, <2>3
  <2>5. s \notin svcExists /\ svcExists \in SUBSET Svcs
        /\ svcLabels \in [Svcs -> LabelSets]
    BY DEF TypeOK, SvcCreate
  <2>6. SelectedIn(qSel, svcExists \cup {s}, [svcLabels EXCEPT ![s] = l])
          = SelectedIn(qSel, svcExists, svcLabels)
    <3>1. {x \in svcExists \cup {s} : qSel \subseteq [svcLabels EXCEPT ![s] = l][x]}
            = {x \in svcExists : qSel \subseteq svcLabels[x]}
      BY <2>4, <2>5
    <3>2. \A x \in svcExists : [svcLabels EXCEPT ![s] = l][x] = svcLabels[x]
      BY <2>5
    <3>3. QED BY <3>1, <3>2 DEF SelectedIn
  <2>7. QED BY <2>2, <2>6, SelectedIsIn
<1>4. QED BY <1>2, <1>3 DEF EnqueueForService

LEMMA SvcCreateStep ==
    ASSUME EventsDelivered, QueryInductive,
           NEW s \in Svcs, NEW l \in LabelSets, SvcCreate(s, l)
    PROVE  (QueryQuiescentConverged /\ IList /\ ITodo /\ IPass /\ IApply)'
<1>1. TypeOK
  BY InductiveParts
<1>2. QED BY <1>1, SvcCreateView, QueuingStep, SameViewStep

(* A store Service disappears: the same argument with the Service's last   *)
(* labels.                                                                 *)
LEMMA SvcDeleteView ==
    ASSUME EventsDelivered, TypeOK, NEW s \in Svcs, SvcDelete(s)
    PROVE  /\ UNCHANGED <<w, qPhase, qSel, deployExists, deployed, otherExists>>
           /\ \/ dirty' = TRUE
              \/ /\ UNCHANGED dirty
                 /\ ~dirty /\ qPhase = "active" =>
                       Selected(qSel)' = Selected(qSel)
<1>1. svcLabels[s] \in LabelSets
  BY DEF TypeOK
<1>2. {PartOf, StoreAPI} \subseteq svcLabels[s] /\ ~MapListCanFail
  BY <1>1 DEF EventsDelivered
<1>3. EnqueueForService(svcLabels[s])
      /\ UNCHANGED <<w, qPhase, qSel, deployExists, deployed, otherExists>>
  BY <1>2 DEF SvcDelete, ServiceEvent
<1>4. CASE UNCHANGED dirty
  <2>1. ~dirty /\ qPhase = "active" => ~(qSel \subseteq svcLabels[s])
    BY <1>2, <1>3, <1>4 DEF EnqueueForService
  <2>2. Selected(qSel)' = SelectedIn(qSel, svcExists \ {s}, svcLabels)
    BY DEF SvcDelete, Selected, SelectedIn
  <2>3. SUFFICES ASSUME ~dirty, qPhase = "active"
                 PROVE  Selected(qSel)' = Selected(qSel)
    BY <1>3, <1>4
  <2>4. ~(qSel \subseteq svcLabels[s]) /\ s \in svcExists
    BY <2>1, <2>3 DEF SvcDelete
  <2>5. SelectedIn(qSel, svcExists \ {s}, svcLabels)
          = SelectedIn(qSel, svcExists, svcLabels)
    BY <2>4, SelectedRemove
  <2>6. QED BY <2>2, <2>5, SelectedIsIn
<1>5. QED BY <1>3, <1>4 DEF EnqueueForService

LEMMA SvcDeleteStep ==
    ASSUME EventsDelivered, QueryInductive, NEW s \in Svcs, SvcDelete(s)
    PROVE  (QueryQuiescentConverged /\ IList /\ ITodo /\ IPass /\ IApply)'
<1>1. TypeOK
  BY InductiveParts
<1>2. QED BY <1>1, SvcDeleteView, QueuingStep, SameViewStep

(* One step of the controller or its environment keeps QueryInductive,    *)
(* provided every Service change reaches the queue.                        *)
LEMMA InductiveStep ==
    ASSUME EventsDelivered, QueryInductive, [Next]_vars
    PROVE  QueryInductive'
<1>1. TypeOK'
  BY InductiveParts, TypeStep
<1>2. (QueryQuiescentConverged /\ IList /\ ITodo /\ IPass /\ IApply)'
  <2>1. CASE QStart
    BY <2>1, StartStep
  <2>2. CASE QListServices
    BY <2>2, ListStep
  <2>3. CASE QApply
    BY <2>3, ApplyStep
  <2>4. CASE QEndPass
    BY <2>4, EndPassStep
  <2>5. CASE QCreate \/ QUpdateSelector \/ QDelete \/ QResync \/ QCollectGarbage
    <3>1. dirty' = TRUE /\ UNCHANGED w
      BY <2>5 DEF QCreate, QUpdateSelector, QDelete, QResync, QCollectGarbage
    <3>2. QED BY <3>1, QueuingStep
  <2>6. CASE \E s \in Svcs, l \in LabelSets : SvcCreate(s, l)
    BY <2>6, SvcCreateStep
  <2>7. CASE \E s \in Svcs, l \in LabelSets : SvcRelabel(s, l)
    <3>1. LabelUpdates
      BY <2>7 DEF SvcRelabel
    <3>2. QED BY <3>1 DEF EventsDelivered
  <2>8. CASE \E s \in Svcs : SvcDelete(s)
    BY <2>8, SvcDeleteStep
  <2>9. CASE UNCHANGED vars
    <3>1. Selected(qSel)' = Selected(qSel)
      BY <2>9 DEF vars, Selected
    <3>2. UNCHANGED <<w, dirty, qPhase, qSel, deployExists, deployed, otherExists>>
      BY <2>9 DEF vars
    <3>3. QED BY <3>1, <3>2, SameViewStep
  <2>10. QED BY <2>1, <2>2, <2>3, <2>4, <2>5, <2>6, <2>7, <2>8, <2>9
              DEF Next, QController, QEnvironment
<1>3. QED BY <1>1, <1>2 DEF QueryInductive, IList, ITodo, IPass, IApply

LEMMA InductiveInit ==
    ASSUME Init PROVE QueryInductive
<1>1. TypeOK
  BY TypeInit
<1>2. w.pc = "idle" /\ qPhase = "absent"
  BY DEF Init, Idle
<1>3. QED BY <1>1, <1>2, InductiveParts
          DEF QueryQuiescentConverged, IList, ITodo, IPass, IApply

(* No lost wake-up, for every instance: when the Service List of a pass,  *)
(* the mapper's List and the label predicate never lose a Service change, *)
(* an idle worker with an unqueued key leaves the querier of an active    *)
(* ThanosQuery with exactly the store endpoints its selector matches.      *)
THEOREM QueryNoLostWakeup ==
    EventsDelivered => (Spec => []QueryQuiescentConverged)
<1> SUFFICES ASSUME EventsDelivered PROVE Spec => []QueryQuiescentConverged
  OBVIOUS
<1>1. Init => QueryInductive
  BY InductiveInit
<1>2. QueryInductive /\ [Next]_vars => QueryInductive'
  BY InductiveStep
<1>3. QueryInductive => QueryQuiescentConverged
  BY DEF QueryInductive
<1>4. QED BY <1>1, <1>2, <1>3, PTL DEF Spec


-----------------------------------------------------------------------------
(* Refinement: the query controller implements ReconcileKey under the      *)
(* mapping of QueryController's Key.                                       *)

(* The strengthened no-lost-wake-up invariant, for every instance in which *)
(* no Service change is lost: while the key stays unqueued, a pass of      *)
(* syncResources works from the current selector and Services, and every  *)
(* querier object it has written is already right.                         *)
THEOREM QueryInductiveHolds ==
    EventsDelivered => (Spec => []QueryInductive)
<1> SUFFICES ASSUME EventsDelivered PROVE Spec => []QueryInductive
  OBVIOUS
<1>1. QED BY InductiveInit, InductiveStep, PTL DEF Spec

(* The endpoints selected in the next state are endpoints.                 *)
LEMMA SelectedTypeNext ==
    ASSUME TypeOK' PROVE Selected(qSel)' \subseteq Endpoints
<1>1. svcExists' \subseteq Svcs
  BY DEF TypeOK
<1>2. QED BY <1>1, EndpointForm DEF Selected

LEMMA KeyInit ==
    ASSUME Init PROVE Key!Init
<1>1. TypeOK
  BY TypeInit
<1>2. Selected(qSel) \subseteq Endpoints
  BY <1>1, SelectedType DEF TypeOK
<1>3. QuerierOut \in [deploy: BOOLEAN, others: BOOLEAN, eps: SUBSET Endpoints]
  BY DEF Init, QuerierOut
<1>4. qPhase # "active" /\ ~dirty /\ w.pc = "idle"
  BY DEF Init, Idle
<1>5. QED BY <1>2, <1>3, <1>4 DEF Key!Init

(* A step that leaves the key queued or a pass running is a Queue step.    *)
LEMMA KeyQueue ==
    ASSUME TypeOK', dirty' \/ w'.pc # "idle"
    PROVE  Key!Queue
<1>1. QuerierOut' \in [deploy: BOOLEAN, others: BOOLEAN, eps: SUBSET Endpoints]
  BY DEF TypeOK, QuerierOut
<1>2. QED BY <1>1, SelectedTypeNext DEF Key!Queue

(* A step of a busy key that leaves it idle and keeps the subject, the     *)
(* Services and the querier is a Settle step: the invariant in the next    *)
(* state says the querier is right.                                        *)
LEMMA KeySettle ==
    ASSUME QueryInductive',
           dirty \/ w.pc # "idle", ~dirty', w'.pc = "idle",
           UNCHANGED <<qPhase, qSel, svcExists, svcLabels, deployExists,
                       deployed, otherExists>>
    PROVE  Key!Settle
<1>1. Selected(qSel)' = Selected(qSel) /\ QuerierOut' = QuerierOut
  BY DEF Selected, QuerierOut
<1>2. qPhase' = "active" => Converged'
  BY DEF QueryInductive, QueryQuiescentConverged
<1>3. qPhase = "active" => QMatches(QuerierOut, Selected(qSel))
  BY <1>1, <1>2 DEF Converged, QMatches, QuerierOut
<1>4. QED BY <1>1, <1>3 DEF Key!Settle

(* A Service event that queues nothing, seen from an idle key, is a Drift  *)
(* step: the subject stays as it was and a right querier stays right.      *)
LEMMA KeyDrift ==
    ASSUME TypeOK', ~dirty, w.pc = "idle",
           UNCHANGED <<w, dirty, qPhase, qSel, deployExists, deployed, otherExists>>,
           qPhase = "active" => Selected(qSel)' = Selected(qSel)
    PROVE  Key!Drift
<1>1. QuerierOut' = QuerierOut
  BY DEF QuerierOut
<1>2. QED BY <1>1, SelectedTypeNext DEF Key!Drift

LEMMA KeyStep ==
    ASSUME EventsDelivered, QueryInductive, QueryInductive', [Next]_vars
    PROVE  [Key!Next]_Key!vars
<1>0. TypeOK /\ TypeOK'
  BY DEF QueryInductive
<1>1. CASE dirty' \/ w'.pc # "idle"
  BY <1>0, <1>1, KeyQueue DEF Key!Next
<1> SUFFICES ASSUME ~dirty', w'.pc = "idle" PROVE [Key!Next]_Key!vars
  BY <1>1
<1>2. CASE QStart \/ QListServices \/ QEndPass
  <2>1. dirty \/ w.pc # "idle"
    BY <1>2 DEF QStart, QListServices, QEndPass
  <2>2. UNCHANGED <<qPhase, qSel, svcExists, svcLabels, deployExists,
                    deployed, otherExists>>
    BY <1>2 DEF QStart, QListServices, QEndPass
  <2>3. QED BY <2>1, <2>2, KeySettle DEF Key!Next
<1>3. CASE QApply
  <2>1. w'.pc = "apply"
    BY <1>0, <1>3 DEF QApply, TypeOK, QWorker
  <2>2. QED BY <2>1
<1>4. CASE QCreate \/ QUpdateSelector \/ QDelete \/ QResync \/ QCollectGarbage
  <2>1. dirty' = TRUE
    BY <1>4 DEF QCreate, QUpdateSelector, QDelete, QResync, QCollectGarbage
  <2>2. QED BY <2>1
<1>5. CASE \E s \in Svcs, l \in LabelSets : SvcRelabel(s, l)
  <2>1. LabelUpdates
    BY <1>5 DEF SvcRelabel
  <2>2. QED BY <2>1 DEF EventsDelivered
<1>6. CASE \E s \in Svcs, l \in LabelSets : SvcCreate(s, l)
  <2>1. PICK s \in Svcs, l \in LabelSets : SvcCreate(s, l)
    BY <1>6
  <2>2. /\ UNCHANGED <<w, qPhase, qSel, deployExists, deployed, otherExists>>
        /\ UNCHANGED dirty
        /\ ~dirty /\ qPhase = "active" => Selected(qSel)' = Selected(qSel)
    BY <1>0, <2>1, SvcCreateView
  <2>3. ~dirty /\ w.pc = "idle"
    BY <2>2
  <2>4. QED BY <1>0, <2>2, <2>3, KeyDrift DEF Key!Next
<1>7. CASE \E s \in Svcs : SvcDelete(s)
  <2>1. PICK s \in Svcs : SvcDelete(s)
    BY <1>7
  <2>2. /\ UNCHANGED <<w, qPhase, qSel, deployExists, deployed, otherExists>>
        /\ UNCHANGED dirty
        /\ ~dirty /\ qPhase = "active" => Selected(qSel)' = Selected(qSel)
    BY <1>0, <2>1, SvcDeleteView
  <2>3. ~dirty /\ w.pc = "idle"
    BY <2>2
  <2>4. QED BY <1>0, <2>2, <2>3, KeyDrift DEF Key!Next
<1>8. CASE UNCHANGED vars
  <2>1. Selected(qSel)' = Selected(qSel) /\ QuerierOut' = QuerierOut
    BY <1>8 DEF vars, Selected, QuerierOut
  <2>2. QED BY <1>8, <2>1 DEF vars, Key!vars
<1>9. QED BY <1>2, <1>3, <1>4, <1>5, <1>6, <1>7, <1>8
          DEF Next, QController, QEnvironment

(* Refinement, for every instance: when no Service change can be lost, the *)
(* query controller's every step is a Queue, Drift or Settle step of       *)
(* ReconcileKey, or leaves its key's view unchanged; so the key settles    *)
(* only with the querier right, and an event it does not receive never     *)
(* makes a right querier wrong.                                            *)
THEOREM QueryRefinesKey ==
    EventsDelivered => (Spec => QueryImplementsKey)
<1> SUFFICES ASSUME EventsDelivered PROVE Spec => Key!Spec
  BY DEF QueryImplementsKey
<1>1. Spec => []QueryInductive
  BY QueryInductiveHolds
<1>2. Init => Key!Init
  BY KeyInit
<1>3. QueryInductive /\ QueryInductive' /\ [Next]_vars => [Key!Next]_Key!vars
  BY KeyStep
<1>4. QED BY <1>1, <1>2, <1>3, PTL DEF Spec, Key!Spec

=============================================================================
