------------------------- MODULE ReceiveNamesProofs -------------------------
(***************************************************************************)
(* Proofs about ThanosReceives that share a namespace, for every set of    *)
(* subject and hashring names satisfying NamesAssumption, colliding ingester *)
(* names included.                                                         *)
(***************************************************************************)
EXTENDS ReceiveNamesKey, TLAPS

USE NamesAssumption

-----------------------------------------------------------------------------
(* The ingester a subject builds for one of its hashrings carries that     *)
(* hashring.                                                               *)
LEMMA DesiredName ==
    ASSUME TypeOK, NEW s \in Subjects, NEW h \in hashrings[s]
    PROVE  /\ IngesterName(s, h) \in Objs(s)
           /\ Desired(s, IngesterName(s, h)) = <<s, h>>
<1>1. hashrings[s] \subseteq ShardNames
  BY DEF TypeOK
<1>2. \A h2 \in hashrings[s] : IngesterName(s, h2) = IngesterName(s, h) => h2 = h
  BY <1>1
<1>3. QED BY <1>1, <1>2 DEF Objs, Desired

(* Every object a pass writes is an ingester name, with a desired spec of  *)
(* the right type.                                                         *)
LEMMA DesiredType ==
    ASSUME TypeOK, NEW s \in Subjects, NEW n \in Objs(s)
    PROVE  n \in Names /\ Desired(s, n) \in Subjects \X ShardNames
<1>1. PICK h \in hashrings[s] : n = IngesterName(s, h)
  BY DEF Objs
<1>2. h \in ShardNames
  BY DEF TypeOK
<1>3. QED BY <1>1, <1>2, DesiredName DEF Names

-----------------------------------------------------------------------------
(* Type correctness.                                                       *)

LEMMA ReconcileType ==
    ASSUME TypeOK, NEW s \in Subjects, Reconcile(s)
    PROVE  TypeOK'
<1>1. CASE phase[s] # "active" /\ dirty' = [dirty EXCEPT ![s] = FALSE]
           /\ UNCHANGED <<owner, writer>>
  BY <1>1 DEF Reconcile, TypeOK
<1>2. CASE /\ phase[s] = "active"
           /\ owner' = [n \in Names |-> IF n \in Objs(s) THEN s ELSE owner[n]]
           /\ writer' = [n \in Names |-> IF n \in Objs(s) THEN Desired(s, n) ELSE writer[n]]
           /\ dirty' = [x \in Subjects |-> x \in Woken(s) \/ (x # s /\ dirty[x])]
  <2>1. writer' \in [Names -> (Subjects \X ShardNames) \cup {Absent}]
    BY <1>2, DesiredType DEF TypeOK
  <2>2. QED BY <1>2, <2>1 DEF Reconcile, TypeOK
<1>3. QED BY <1>1, <1>2 DEF Reconcile

LEMMA TypeStep ==
    ASSUME TypeOK, [Next]_vars PROVE TypeOK'
<1>1. CASE \E s \in Subjects : Reconcile(s)
  BY <1>1, ReconcileType
<1>2. CASE \E s \in Subjects : Create(s) \/ UpdateHashrings(s) \/ Delete(s) \/ Resync(s)
  <2>1. PICK s \in Subjects : Create(s) \/ UpdateHashrings(s) \/ Delete(s) \/ Resync(s)
    BY <1>2
  <2>2. CASE Create(s)
    <3>1. PICK hs \in SUBSET ShardNames : hashrings' = [hashrings EXCEPT ![s] = hs]
      BY <2>2 DEF Create
    <3>2. QED BY <2>2, <3>1 DEF Create, EnvStep, TypeOK
  <2>3. CASE UpdateHashrings(s)
    <3>1. PICK hs \in SUBSET ShardNames \ {hashrings[s]} :
                 hashrings' = [hashrings EXCEPT ![s] = hs]
      BY <2>3 DEF UpdateHashrings
    <3>2. QED BY <2>3, <3>1 DEF UpdateHashrings, EnvStep, TypeOK
  <2>4. CASE Delete(s)
    BY <2>4 DEF Delete, EnvStep, TypeOK
  <2>5. CASE Resync(s)
    BY <2>5 DEF Resync, TypeOK
  <2>6. QED BY <2>1, <2>2, <2>3, <2>4, <2>5
<1>3. CASE \E n \in Names : CollectGarbage(n)
  BY <1>3 DEF CollectGarbage, TypeOK
<1>4. CASE UNCHANGED vars
  BY <1>4 DEF vars, TypeOK
<1>5. QED BY <1>1, <1>2, <1>3, <1>4 DEF Next

(* Every reachable state is well typed.                                    *)
THEOREM NamesTypeCorrect == Spec => []TypeOK
<1>1. Init => TypeOK
  BY DEF Init, TypeOK
<1>2. TypeOK /\ [Next]_vars => TypeOK'
  BY TypeStep
<1>3. QED BY <1>1, <1>2, PTL DEF Spec

-----------------------------------------------------------------------------
(* IngestersQuiescent is inductive, given the types.                       *)

(* A pass of s leaves an idle subject x other than s with its ingesters:   *)
(* an ingester of x that the pass took was owned by x, so x is woken.      *)
LEMMA ReconcileKeepsOthers ==
    ASSUME TypeOK, IngestersQuiescent, NEW s \in Subjects, Reconcile(s),
           phase[s] = "active",
           NEW x \in Subjects, x # s, phase[x] = "active", ~dirty'[x]
    PROVE  OwnsIngesters(x)'
<1>1. /\ owner' = [n \in Names |-> IF n \in Objs(s) THEN s ELSE owner[n]]
      /\ writer' = [n \in Names |-> IF n \in Objs(s) THEN Desired(s, n) ELSE writer[n]]
      /\ dirty' = [y \in Subjects |-> y \in Woken(s) \/ (y # s /\ dirty[y])]
      /\ UNCHANGED hashrings
  BY DEF Reconcile
<1>2. ~dirty[x] /\ x \notin Woken(s)
  BY <1>1
<1>3. OwnsIngesters(x)
  BY <1>2 DEF IngestersQuiescent
<1>4. SUFFICES ASSUME NEW h \in hashrings[x]
               PROVE  /\ owner'[IngesterName(x, h)] = x
                      /\ writer'[IngesterName(x, h)] = <<x, h>>
  BY <1>1 DEF OwnsIngesters
<1> DEFINE n == IngesterName(x, h)
<1>5. n \in Names /\ owner[n] = x /\ writer[n] = <<x, h>>
  BY <1>3, DesiredName, DesiredType DEF OwnsIngesters
<1>6. n \notin Objs(s)
  <2>1. SUFFICES ASSUME n \in Objs(s) PROVE FALSE
    OBVIOUS
  <2>2. n \in Changed(s)
    BY <1>5, <2>1 DEF Changed
  <2>3. x \in Woken(s)
    BY <1>5, <2>2 DEF Woken
  <2>4. QED BY <1>2, <2>3
<1>7. QED BY <1>1, <1>5, <1>6

(* A pass of s that leaves s idle changed nothing, so s has its ingesters. *)
LEMMA ReconcileSettlesSelf ==
    ASSUME TypeOK, NEW s \in Subjects, Reconcile(s), phase[s] = "active",
           ~dirty'[s]
    PROVE  OwnsIngesters(s)'
<1>1. /\ owner' = [n \in Names |-> IF n \in Objs(s) THEN s ELSE owner[n]]
      /\ writer' = [n \in Names |-> IF n \in Objs(s) THEN Desired(s, n) ELSE writer[n]]
      /\ dirty' = [y \in Subjects |-> y \in Woken(s) \/ (y # s /\ dirty[y])]
      /\ UNCHANGED hashrings
  BY DEF Reconcile
<1>2. SUFFICES ASSUME NEW h \in hashrings[s]
               PROVE  /\ owner'[IngesterName(s, h)] = s
                      /\ writer'[IngesterName(s, h)] = <<s, h>>
  BY <1>1 DEF OwnsIngesters
<1>3. IngesterName(s, h) \in Objs(s) /\ Desired(s, IngesterName(s, h)) = <<s, h>>
  BY DesiredName
<1>4. IngesterName(s, h) \in Names
  BY <1>3, DesiredType
<1>5. QED BY <1>1, <1>3, <1>4

LEMMA ReconcileStep ==
    ASSUME TypeOK, IngestersQuiescent, NEW s \in Subjects, Reconcile(s)
    PROVE  IngestersQuiescent'
<1> SUFFICES ASSUME NEW x \in Subjects, phase'[x] = "active", ~dirty'[x]
             PROVE  OwnsIngesters(x)'
  BY DEF IngestersQuiescent
<1>1. UNCHANGED phase
  BY DEF Reconcile
<1>2. CASE phase[s] # "active"
  <2>1. UNCHANGED <<owner, writer, hashrings>> /\ x # s
        /\ dirty' = [dirty EXCEPT ![s] = FALSE]
    BY <1>1, <1>2 DEF Reconcile
  <2>2. ~dirty[x]
    BY <2>1 DEF TypeOK
  <2>3. QED BY <1>1, <2>1, <2>2 DEF IngestersQuiescent, OwnsIngesters
<1>3. CASE phase[s] = "active" /\ x = s
  BY <1>3, ReconcileSettlesSelf
<1>4. CASE phase[s] = "active" /\ x # s
  BY <1>1, <1>4, ReconcileKeepsOthers
<1>5. QED BY <1>2, <1>3, <1>4

(* A step that queues a key, or leaves an inactive subject's key, keeps    *)
(* every other subject's state and the objects.                            *)
LEMMA EnvStepKeeps ==
    ASSUME TypeOK, IngestersQuiescent, NEW s \in Subjects,
           Create(s) \/ UpdateHashrings(s) \/ Delete(s) \/ Resync(s)
    PROVE  IngestersQuiescent'
<1> SUFFICES ASSUME NEW x \in Subjects, phase'[x] = "active", ~dirty'[x]
             PROVE  OwnsIngesters(x)'
  BY DEF IngestersQuiescent
<1>1. UNCHANGED <<owner, writer>>
  BY DEF Create, UpdateHashrings, Delete, Resync
<1>2. x # s
  BY DEF Create, UpdateHashrings, Delete, Resync, TypeOK
<1>3. phase[x] = "active" /\ ~dirty[x] /\ hashrings'[x] = hashrings[x]
  BY <1>2 DEF Create, UpdateHashrings, Delete, Resync, TypeOK
<1>4. QED BY <1>1, <1>3 DEF IngestersQuiescent, OwnsIngesters

(* The collector only takes objects whose owner is gone, never an active   *)
(* subject's own ingester.                                                 *)
LEMMA CollectStep ==
    ASSUME TypeOK, IngestersQuiescent, NEW m \in Names, CollectGarbage(m)
    PROVE  IngestersQuiescent'
<1> SUFFICES ASSUME NEW x \in Subjects, phase'[x] = "active", ~dirty'[x]
             PROVE  OwnsIngesters(x)'
  BY DEF IngestersQuiescent
<1>1. owner[m] \in Subjects /\ phase[owner[m]] = "gone"
  BY DEF CollectGarbage, TypeOK
<1>2. owner[m] # x /\ phase[x] = "active" /\ ~dirty[x]
  BY <1>1 DEF CollectGarbage, TypeOK
<1>3. OwnsIngesters(x)
  BY <1>2 DEF IngestersQuiescent
<1>4. SUFFICES ASSUME NEW h \in hashrings[x]
               PROVE  /\ owner'[IngesterName(x, h)] = x
                      /\ writer'[IngesterName(x, h)] = <<x, h>>
  BY DEF CollectGarbage, OwnsIngesters
<1>5. IngesterName(x, h) # m
  BY <1>2, <1>3 DEF OwnsIngesters
<1>6. QED BY <1>3, <1>5 DEF CollectGarbage, OwnsIngesters, TypeOK

(* No lost wake-up across subjects, for every instance: however the        *)
(* derived ingester names of ThanosReceives in one namespace collide, a    *)
(* subject whose key is not queued owns every ingester its spec declares.  *)
(* A pass that takes another subject's ingester queues that subject        *)
(* (Owns() maps the update to the old owner too), and the garbage          *)
(* collector only removes objects whose owner is gone.                     *)
THEOREM IngestersQuiescentHolds == Spec => []IngestersQuiescent
<1>1. Init => IngestersQuiescent
  BY DEF Init, IngestersQuiescent
<1>2. TypeOK /\ IngestersQuiescent /\ [Next]_vars => IngestersQuiescent'
  <2> SUFFICES ASSUME TypeOK, IngestersQuiescent, [Next]_vars
               PROVE  IngestersQuiescent'
    OBVIOUS
  <2>1. CASE \E s \in Subjects : Reconcile(s)
    BY <2>1, ReconcileStep
  <2>2. CASE \E s \in Subjects : Create(s) \/ UpdateHashrings(s) \/ Delete(s) \/ Resync(s)
    BY <2>2, EnvStepKeeps
  <2>3. CASE \E n \in Names : CollectGarbage(n)
    BY <2>3, CollectStep
  <2>4. CASE UNCHANGED vars
    BY <2>4 DEF vars, IngestersQuiescent, OwnsIngesters
  <2>5. QED BY <2>1, <2>2, <2>3, <2>4 DEF Next
<1>3. Init => TypeOK
  BY DEF Init, TypeOK
<1>4. TypeOK /\ [Next]_vars => TypeOK'
  BY TypeStep
<1>5. QED BY <1>1, <1>2, <1>3, <1>4, PTL DEF Spec


-----------------------------------------------------------------------------
(* Refinement: KeySubject implements ReconcileKey under Key.              *)
USE KeySubjectAssumption

(* A subject's view in a well-typed state is in the abstract key's sets.   *)
LEMMA ViewType ==
    ASSUME TypeOK, NEW s \in Subjects
    PROVE  /\ [subject |-> s, hashrings |-> hashrings[s]] \in SubjectTargets
           /\ SubjectOut(s) \in SubjectOuts
<1>1. [subject |-> s, hashrings |-> hashrings[s]] \in SubjectTargets
  BY DEF TypeOK, SubjectTargets
<1>2. ActiveHashrings(s) \in SUBSET ShardNames
  BY DEF TypeOK, ActiveHashrings
<1>3. owner \in [Names -> Subjects \cup {NoOwner}]
      /\ writer \in [Names -> (Subjects \X ShardNames) \cup {Absent}]
  BY DEF TypeOK
<1>4. [h \in ActiveHashrings(s) |->
         <<owner[IngesterName(s, h)], writer[IngesterName(s, h)]>>] \in SubjectOuts
  <2>1. \A h \in ActiveHashrings(s) : IngesterName(s, h) \in Names
    BY <1>2 DEF Names
  <2>2. [h \in ActiveHashrings(s) |->
           <<owner[IngesterName(s, h)], writer[IngesterName(s, h)]>>]
          \in [ActiveHashrings(s) ->
                 (Subjects \cup {NoOwner}) \X ((Subjects \X ShardNames) \cup {Absent})]
    BY <1>3, <2>1
  <2>3. QED BY <1>2, <2>2 DEF SubjectOuts
<1>5. QED BY <1>1, <1>4 DEF SubjectOut

(* The initial state is one of the abstract key's: absent and idle.        *)
LEMMA SubjectInit ==
    Init => Key!Init
<1> SUFFICES ASSUME Init PROVE Key!Init
  OBVIOUS
<1>1. TypeOK
  BY DEF Init, TypeOK
<1>2. phase[KeySubject] # "active" /\ ~dirty[KeySubject]
  BY DEF Init
<1>3. QED BY <1>1, <1>2, ViewType DEF Key!Init

(* The view after a step is typed as well: TypeOK' gives the same facts.  *)
LEMMA ViewTypePrime ==
    ASSUME TypeOK', NEW s \in Subjects
    PROVE  /\ [subject |-> s, hashrings |-> hashrings'[s]] \in SubjectTargets
           /\ SubjectOut(s)' \in SubjectOuts
<1>1. [subject |-> s, hashrings |-> hashrings'[s]] \in SubjectTargets
  BY DEF TypeOK, SubjectTargets
<1>2. ActiveHashrings(s)' \in SUBSET ShardNames
  BY DEF TypeOK, ActiveHashrings
<1>3. owner' \in [Names -> Subjects \cup {NoOwner}]
      /\ writer' \in [Names -> (Subjects \X ShardNames) \cup {Absent}]
  BY DEF TypeOK
<1>4. [h \in ActiveHashrings(s)' |->
         <<owner'[IngesterName(s, h)], writer'[IngesterName(s, h)]>>] \in SubjectOuts
  <2>1. \A h \in ActiveHashrings(s)' : IngesterName(s, h) \in Names
    BY <1>2 DEF Names
  <2>2. [h \in ActiveHashrings(s)' |->
           <<owner'[IngesterName(s, h)], writer'[IngesterName(s, h)]>>]
          \in [ActiveHashrings(s)' ->
                 (Subjects \cup {NoOwner}) \X ((Subjects \X ShardNames) \cup {Absent})]
    BY <1>3, <2>1
  <2>3. QED BY <1>2, <2>2 DEF SubjectOuts
<1>5. QED BY <1>1, <1>4 DEF SubjectOut

(* Only the subject's own pass takes its key out of the queue: every other *)
(* step leaves a queued key queued.                                        *)
LEMMA SettleOnlyByPass ==
    ASSUME TypeOK, NEW s \in Subjects, dirty[s], ~dirty'[s], [Next]_vars
    PROVE  Reconcile(s)
<1>1. CASE \E t \in Subjects : Reconcile(t)
  <2>1. PICK t \in Subjects : Reconcile(t)
    BY <1>1
  <2>2. SUFFICES ASSUME t # s PROVE FALSE
    BY <2>1
  <2>3. dirty'[s]
    BY <2>1, <2>2 DEF Reconcile, TypeOK
  <2>4. QED BY <2>3
<1>2. CASE \E t \in Subjects : Create(t) \/ UpdateHashrings(t) \/ Delete(t) \/ Resync(t)
  BY <1>2 DEF Create, UpdateHashrings, Delete, Resync, TypeOK
<1>3. CASE \E n \in Names : CollectGarbage(n)
  BY <1>3 DEF CollectGarbage, TypeOK
<1>4. CASE UNCHANGED vars
  BY <1>4 DEF vars
<1>5. QED BY <1>1, <1>2, <1>3, <1>4 DEF Next

(* A pass that leaves its own key idle found every ingester right: it      *)
(* changed nothing, since any change queues the subject itself.            *)
LEMMA PassSettles ==
    ASSUME TypeOK, NEW s \in Subjects, Reconcile(s), ~dirty'[s]
    PROVE  UNCHANGED <<phase, hashrings, owner, writer>>
<1>1. UNCHANGED <<phase, hashrings>>
  BY DEF Reconcile
<1>2. CASE phase[s] # "active"
  BY <1>1, <1>2 DEF Reconcile
<1>3. CASE phase[s] = "active"
  <2>1. /\ owner' = [n \in Names |-> IF n \in Objs(s) THEN s ELSE owner[n]]
        /\ writer' = [n \in Names |-> IF n \in Objs(s) THEN Desired(s, n) ELSE writer[n]]
        /\ dirty' = [y \in Subjects |-> y \in Woken(s) \/ (y # s /\ dirty[y])]
    BY <1>3 DEF Reconcile
  <2>2. s \notin Woken(s)
    BY <2>1
  <2>3. Changed(s) = {}
    BY <2>2 DEF Woken
  <2>4. \A n \in Objs(s) : owner[n] = s /\ writer[n] = Desired(s, n)
    BY <2>3 DEF Changed
  <2>5. owner' = owner /\ writer' = writer
    BY <2>1, <2>4 DEF TypeOK
  <2>6. QED BY <1>1, <2>5
<1>4. QED BY <1>2, <1>3

(* A step that neither queues an idle key nor works on it leaves the       *)
(* subject's existence and hashrings alone.                                *)
LEMMA QuietKeeps ==
    ASSUME TypeOK, NEW s \in Subjects, ~dirty[s], ~dirty'[s], [Next]_vars
    PROVE  phase'[s] = phase[s] /\ hashrings'[s] = hashrings[s]
<1>1. CASE \E t \in Subjects : Reconcile(t)
  BY <1>1 DEF Reconcile
<1>2. CASE \E t \in Subjects : Create(t) \/ UpdateHashrings(t) \/ Delete(t)
  <2>1. PICK t \in Subjects : Create(t) \/ UpdateHashrings(t) \/ Delete(t)
    BY <1>2
  <2>2. t # s
    BY <2>1 DEF Create, UpdateHashrings, Delete, TypeOK
  <2>3. QED BY <2>1, <2>2 DEF Create, UpdateHashrings, Delete, TypeOK
<1>3. CASE \E t \in Subjects : Resync(t)
  BY <1>3 DEF Resync
<1>4. CASE \E n \in Names : CollectGarbage(n)
  BY <1>4 DEF CollectGarbage
<1>5. CASE UNCHANGED vars
  BY <1>5 DEF vars
<1>6. QED BY <1>1, <1>2, <1>3, <1>4, <1>5 DEF Next

(* While the key stays idle, its ingesters are the subject's before and    *)
(* after the step, so its output does not change.                          *)
LEMMA OutStable ==
    ASSUME TypeOK, TypeOK', IngestersQuiescent, IngestersQuiescent',
           NEW s \in Subjects, ~dirty[s], ~dirty'[s],
           phase'[s] = phase[s], hashrings'[s] = hashrings[s]
    PROVE  SubjectOut(s)' = SubjectOut(s)
<1>1. ActiveHashrings(s)' = ActiveHashrings(s)
  BY DEF ActiveHashrings
<1>2. ASSUME NEW h \in ActiveHashrings(s)
      PROVE  /\ owner'[IngesterName(s, h)] = owner[IngesterName(s, h)]
             /\ writer'[IngesterName(s, h)] = writer[IngesterName(s, h)]
  <2>1. phase[s] = "active" /\ h \in hashrings[s]
    BY DEF ActiveHashrings
  <2>2. OwnsIngesters(s)
    BY <2>1 DEF IngestersQuiescent
  <2>3. OwnsIngesters(s)'
    BY <2>1 DEF IngestersQuiescent
  <2>4. QED BY <2>1, <2>2, <2>3 DEF OwnsIngesters
<1>3. QED BY <1>1, <1>2 DEF SubjectOut

(* Every step of the namespace is a step of KeySubject's abstract key or   *)
(* leaves its view alone.                                                  *)
LEMMA SubjectStep ==
    ASSUME TypeOK, TypeOK', IngestersQuiescent, IngestersQuiescent', [Next]_vars
    PROVE  [Key!Next]_Key!vars
<1> DEFINE s == KeySubject
<1>1. CASE dirty'[s]
  <2>1. /\ [subject |-> s, hashrings |-> hashrings'[s]] \in SubjectTargets
        /\ SubjectOut(s)' \in SubjectOuts
    BY ViewTypePrime
  <2>2. Key!Queue
    BY <1>1, <2>1 DEF Key!Queue
  <2>3. QED BY <2>2 DEF Key!Next
<1>2. CASE dirty[s] /\ ~dirty'[s]
  <2>1. UNCHANGED <<phase, hashrings, owner, writer>>
    BY <1>2, SettleOnlyByPass, PassSettles
  <2>2. SubjectOut(s)' = SubjectOut(s)
    BY <2>1 DEF SubjectOut, ActiveHashrings
  <2>3. phase[s] = "active" => NMatches(SubjectOut(s), [subject |-> s, hashrings |-> hashrings[s]])
    <3>1. SUFFICES ASSUME phase[s] = "active", NEW h \in hashrings[s]
                   PROVE  SubjectOut(s)[h] = <<s, <<s, h>>>>
      BY DEF NMatches
    <3>2. OwnsIngesters(s)'
      BY <1>2, <2>1, <3>1 DEF IngestersQuiescent
    <3>3. owner[IngesterName(s, h)] = s /\ writer[IngesterName(s, h)] = <<s, h>>
      BY <2>1, <3>2 DEF OwnsIngesters
    <3>4. QED BY <3>1, <3>3 DEF SubjectOut, ActiveHashrings
  <2>4. Key!Settle
    BY <1>2, <2>1, <2>2, <2>3 DEF Key!Settle
  <2>5. QED BY <2>4 DEF Key!Next
<1>3. CASE ~dirty[s] /\ ~dirty'[s]
  <2>1. phase'[s] = phase[s] /\ hashrings'[s] = hashrings[s]
    BY <1>3, QuietKeeps
  <2>2. SubjectOut(s)' = SubjectOut(s)
    BY <1>3, <2>1, OutStable
  <2>3. dirty'[s] = dirty[s]
    BY <1>3 DEF TypeOK
  <2>4. Key!vars' = Key!vars
    BY <2>1, <2>2, <2>3 DEF Key!vars
  <2>5. QED BY <2>4
<1>4. QED BY <1>1, <1>2, <1>3 DEF TypeOK

(* Each ThanosReceive, for every instance and however the derived ingester *)
(* names of the namespace collide, implements ReconcileKey: its key is    *)
(* taken out of the queue only by its own pass (Reconcile) and only when   *)
(* every ingester is its own with its spec; while its key is idle, no     *)
(* other subject's pass (syncResources), no garbage collection and no     *)
(* user change touches its hashrings or its ingesters without queuing it   *)
(* (the For() and Owns() watches).                                         *)
THEOREM SubjectRefinesKey == Spec => SubjectImplementsKey
<1>1. Init => Key!Init
  BY SubjectInit
<1>2. TypeOK /\ TypeOK' /\ IngestersQuiescent /\ IngestersQuiescent' /\ [Next]_vars
        => [Key!Next]_Key!vars
  BY SubjectStep
<1>3. QED BY <1>1, <1>2, NamesTypeCorrect, IngestersQuiescentHolds, PTL
          DEF Spec, SubjectImplementsKey, Key!Spec

=============================================================================
