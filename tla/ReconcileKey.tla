---------------------------- MODULE ReconcileKey ----------------------------
(***************************************************************************)
(* What a level-triggered controller promises for one workqueue key       *)
(* (spec 4.1 and 5): the subject is either busy (its key is queued or a    *)
(* pass for it is running) or its objects match what its spec and the      *)
(* cluster call for.                                                       *)
(*                                                                         *)
(* The subject's inputs are abstracted to whether it is active and the     *)
(* target its spec and the observed cluster state determine; the           *)
(* controller's objects are the output.  Matches(out, target) says that    *)
(* the objects are right for the target.  Three kinds of step:             *)
(*   Queue:  anything changes, and the key is queued (an event, a write    *)
(*           whose own event comes back, a requeue);                       *)
(*   Drift:  the inputs change without queuing the key; while the key is   *)
(*           idle this is allowed only when it keeps the objects right;    *)
(*   Settle: the key leaves the busy state, only with the objects right.   *)
(***************************************************************************)
CONSTANTS
    Targets,        \* what a subject's inputs may call for
    Outs,           \* the states the controller's objects may be in
    Matches(_, _)   \* Matches(out, target): the objects are right

VARIABLES
    active,         \* the subject exists and is not being deleted
    target,         \* what its spec and the observed cluster call for
    out,            \* the objects the controller wrote
    busy            \* its key is queued or a pass for it runs

vars == <<active, target, out, busy>>

Init ==
    /\ active = FALSE
    /\ target \in Targets
    /\ out \in Outs
    /\ busy = FALSE

Queue ==
    /\ busy' = TRUE
    /\ active' \in BOOLEAN /\ target' \in Targets /\ out' \in Outs

Drift ==
    /\ active' \in BOOLEAN /\ target' \in Targets
    /\ UNCHANGED <<out, busy>>
    /\ ~busy /\ active' =>
          /\ active
          /\ Matches(out, target) => Matches(out, target')

Settle ==
    /\ busy
    /\ busy' = FALSE
    /\ active => Matches(out, target)
    /\ UNCHANGED <<active, target, out>>

Next == Queue \/ Drift \/ Settle

Spec == Init /\ [][Next]_vars

(* The promise: a subject whose key is neither queued nor being worked on  *)
(* has the objects its spec and the cluster call for.                      *)
Synced == ~busy /\ active => Matches(out, target)

=============================================================================
