---------------------------- MODULE ReceiveNames ----------------------------
(***************************************************************************)
(* Several ThanosReceives in one namespace, served by the receive          *)
(* controller, and the ingester objects their passes write.  An ingester   *)
(* is named <subject>-<hashring> (buildHashrings, line 252), so two        *)
(* subjects can derive the same name: subject "a" with hashring "b-c" and *)
(* subject "a-b" with hashring "c" both write "a-b-c".                     *)
(*                                                                         *)
(* The controller is built without WithOptions, so it has the default      *)
(* single worker and the passes of different keys never overlap; a pass   *)
(* is therefore one step here.  API failures and pod readiness are left   *)
(* to ReceiveController.  An ingester object (StatefulSet, Service and     *)
(* ServiceAccount share the name) is abstracted to its controller owner    *)
(* and to the subject and hashring whose spec it carries.                  *)
(***************************************************************************)
EXTENDS Naturals, Sequences

CONSTANTS
    Subjects,       \* the names of the ThanosReceives (strings)
    ShardNames,     \* the hashring names their specs may use (strings)
    MaxEnvSteps     \* bound on the user's creations, updates and deletions

VARIABLES
    phase,          \* subject -> "absent", "active" or "gone"
    hashrings,      \* subject -> the hashring names of its spec
    dirty,          \* subject -> its key is queued
    owner,          \* ingester name -> its controller owner, or NoOwner
    writer,         \* ingester name -> <<subject, hashring>> of its spec, or Absent
    envSteps

vars == <<phase, hashrings, dirty, owner, writer, envSteps>>

NoOwner == ""
Absent == <<>>

(* receive.IngesterNameFromParent: the subject's name, a dash, the         *)
(* hashring's name.                                                        *)
IngesterName(s, h) == s \o "-" \o h

Names == {IngesterName(s, h) : s \in Subjects, h \in ShardNames}

(* Object names are not empty, and one subject's hashrings have distinct  *)
(* ingester names (hashring names are unique within a spec).               *)
ASSUME NamesAssumption ==
    /\ MaxEnvSteps \in Nat
    /\ NoOwner \notin Subjects
    /\ \A s \in Subjects, h1, h2 \in ShardNames :
          IngesterName(s, h1) = IngesterName(s, h2) => h1 = h2

TypeOK ==
    /\ phase \in [Subjects -> {"absent", "active", "gone"}]
    /\ hashrings \in [Subjects -> SUBSET ShardNames]
    /\ dirty \in [Subjects -> BOOLEAN]
    /\ owner \in [Names -> Subjects \cup {NoOwner}]
    /\ writer \in [Names -> (Subjects \X ShardNames) \cup {Absent}]
    /\ envSteps \in 0..MaxEnvSteps

Init ==
    /\ phase = [s \in Subjects |-> "absent"]
    /\ hashrings = [s \in Subjects |-> {}]
    /\ dirty = [s \in Subjects |-> FALSE]
    /\ owner = [n \in Names |-> NoOwner]
    /\ writer = [n \in Names |-> Absent]
    /\ envSteps = 0

-----------------------------------------------------------------------------
(* buildHashrings, lines 239-272: one ingester per hashring of the spec.   *)
Objs(s) == {IngesterName(s, h) : h \in hashrings[s]}

(* The ingester named n as subject s builds it.                            *)
Desired(s, n) == <<s, CHOOSE h \in hashrings[s] : IngesterName(s, h) = n>>

(* CreateOrUpdate changes an object whose owner or spec differs; the       *)
(* change comes back through Owns().                                       *)
Changed(s) == {n \in Objs(s) : owner[n] # s \/ writer[n] # Desired(s, n)}

(* Mutant: the update is mapped to the new version's owner only.         *)
WokenNewOwnerOnly(s) == IF Changed(s) = {} THEN {} ELSE {s}

(* Owns(): EnqueueRequestForOwner maps the update of an owned object to    *)
(* the controller owner of its old and of its new version.                 *)
Woken(s) == {owner[n] : n \in Changed(s)} \cup IF Changed(s) = {} THEN {} ELSE {s}

(* Mutant: the pass stores the derived name where the hashring belongs.    *)
ReconcileNamingByObject(s) ==
    /\ dirty[s]
    /\ \/ /\ phase[s] # "active"
          /\ dirty' = [dirty EXCEPT ![s] = FALSE]
          /\ UNCHANGED <<owner, writer>>
       \/ /\ phase[s] = "active"
          /\ owner' = [n \in Names |-> IF n \in Objs(s) THEN s ELSE owner[n]]
          /\ writer' = [n \in Names |-> IF n \in Objs(s) THEN <<s, n>> ELSE writer[n]]
          /\ dirty' = [x \in Subjects |-> x \in Woken(s) \/ (x # s /\ dirty[x])]
    /\ UNCHANGED <<phase, hashrings, envSteps>>

(* Reconcile, lines 109-138, with syncResources, lines 180-237: the        *)
(* worker takes the key; a subject that is not found ends the pass; else  *)
(* every ingester is given the subject as controller owner (lines 200-207, *)
(* the merge function keeps the desired owner reference) and the          *)
(* subject's spec, and every change queues the owners it touched.          *)
Reconcile(s) ==
    /\ dirty[s]
    /\ \/ /\ phase[s] # "active"
          /\ dirty' = [dirty EXCEPT ![s] = FALSE]
          /\ UNCHANGED <<owner, writer>>
       \/ /\ phase[s] = "active"
          /\ owner' = [n \in Names |-> IF n \in Objs(s) THEN s ELSE owner[n]]
          /\ writer' = [n \in Names |-> IF n \in Objs(s) THEN Desired(s, n) ELSE writer[n]]
          /\ dirty' = [x \in Subjects |-> x \in Woken(s) \/ (x # s /\ dirty[x])]
    /\ UNCHANGED <<phase, hashrings, envSteps>>

-----------------------------------------------------------------------------
EnvStep == envSteps < MaxEnvSteps /\ envSteps' = envSteps + 1

(* The For() watch, line 164: creating, updating or deleting a subject     *)
(* queues its key.  Hashring names are unique within one spec.             *)
Create(s) ==
    /\ EnvStep
    /\ phase[s] = "absent"
    /\ phase' = [phase EXCEPT ![s] = "active"]
    /\ \E hs \in SUBSET ShardNames : hashrings' = [hashrings EXCEPT ![s] = hs]
    /\ dirty' = [dirty EXCEPT ![s] = TRUE]
    /\ UNCHANGED <<owner, writer>>

UpdateHashrings(s) ==
    /\ EnvStep
    /\ phase[s] = "active"
    /\ \E hs \in SUBSET ShardNames \ {hashrings[s]} :
          hashrings' = [hashrings EXCEPT ![s] = hs]
    /\ dirty' = [dirty EXCEPT ![s] = TRUE]
    /\ UNCHANGED <<phase, owner, writer>>

(* The controller never adds receiveFinalizer, so a subject it did not     *)
(* find one on is removed at once.                                         *)
Delete(s) ==
    /\ EnvStep
    /\ phase[s] = "active"
    /\ phase' = [phase EXCEPT ![s] = "gone"]
    /\ dirty' = [dirty EXCEPT ![s] = TRUE]
    /\ UNCHANGED <<hashrings, owner, writer>>

(* The informer's resync redelivers an existing subject.                   *)
Resync(s) ==
    /\ phase[s] = "active"
    /\ ~dirty[s]
    /\ dirty' = [dirty EXCEPT ![s] = TRUE]
    /\ UNCHANGED <<phase, hashrings, owner, writer, envSteps>>

(* The garbage collector deletes an object whose controller owner is gone; *)
(* the deletion event goes to that owner's key.                            *)
CollectGarbage(n) ==
    /\ owner[n] # NoOwner
    /\ phase[owner[n]] = "gone"
    /\ owner' = [owner EXCEPT ![n] = NoOwner]
    /\ writer' = [writer EXCEPT ![n] = Absent]
    /\ dirty' = [dirty EXCEPT ![owner[n]] = TRUE]
    /\ UNCHANGED <<phase, hashrings, envSteps>>

Next ==
    \/ \E s \in Subjects : Reconcile(s) \/ Create(s) \/ UpdateHashrings(s)
                           \/ Delete(s) \/ Resync(s)
    \/ \E n \in Names : CollectGarbage(n)

(* The single worker serves every queued key (the queue is FIFO); resync   *)
(* and the garbage collector run.                                          *)
Fairness ==
    /\ \A s \in Subjects : WF_vars(Reconcile(s)) /\ WF_vars(Resync(s))
    /\ \A n \in Names : WF_vars(CollectGarbage(n))

Spec == Init /\ [][Next]_vars /\ Fairness

-----------------------------------------------------------------------------
(* A subject's ingesters are all there, owned by it and carrying its spec. *)
OwnsIngesters(s) ==
    \A h \in hashrings[s] :
        owner[IngesterName(s, h)] = s /\ writer[IngesterName(s, h)] = <<s, h>>

(* No lost wake-up across subjects: a ThanosReceive whose key is not       *)
(* queued has every ingester its spec declares, as its own.  Breaking it   *)
(* takes another subject's pass or the garbage collection of another      *)
(* subject's objects touching this subject's ingester without queuing it. *)
IngestersQuiescent ==
    \A s \in Subjects : phase[s] = "active" /\ ~dirty[s] => OwnsIngesters(s)

(* Once the user stops, every ThanosReceive ends up owning its ingesters  *)
(* for good.  Two passes that keep taking an object from each other never *)
(* settle.                                                                 *)
IngestersSettle ==
    <>[](\A s \in Subjects : phase[s] = "active" => OwnsIngesters(s))

=============================================================================
