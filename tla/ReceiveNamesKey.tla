-------------------------- MODULE ReceiveNamesKey --------------------------
(***************************************************************************)
(* One ThanosReceive of ReceiveNames against the abstract promise of       *)
(* ReconcileKey.  KeySubject is any of the subjects: what is shown for it  *)
(* holds for each of them.  Its target is its hashring list; its output is *)
(* the owner and spec of each of its ingesters, over its hashrings while   *)
(* it is active and over none otherwise; it is busy while its key is      *)
(* queued (a pass is one step).                                            *)
(***************************************************************************)
EXTENDS ReceiveNames

CONSTANT KeySubject

ASSUME KeySubjectAssumption == KeySubject \in Subjects

ActiveHashrings(s) == IF phase[s] = "active" THEN hashrings[s] ELSE {}

SubjectOut(s) ==
    [h \in ActiveHashrings(s) |->
        <<owner[IngesterName(s, h)], writer[IngesterName(s, h)]>>]

SubjectTargets == [subject: Subjects, hashrings: SUBSET ShardNames]

SubjectOuts ==
    UNION {[H -> (Subjects \cup {NoOwner}) \X ((Subjects \X ShardNames) \cup {Absent})] :
              H \in SUBSET ShardNames}

(* Every hashring of the subject has its ingester, owned by the subject    *)
(* and carrying the subject's spec.                                        *)
NMatches(o, t) == \A h \in t.hashrings : o[h] = <<t.subject, <<t.subject, h>>>>

Key == INSTANCE ReconcileKey
         WITH active <- phase[KeySubject] = "active",
              target <- [subject |-> KeySubject, hashrings |-> hashrings[KeySubject]],
              out <- SubjectOut(KeySubject),
              busy <- dirty[KeySubject],
              Targets <- SubjectTargets,
              Outs <- SubjectOuts,
              Matches <- NMatches

(* The ThanosReceive implements ReconcileKey, even with derived names      *)
(* colliding: its key goes idle only with its ingesters its own, and no    *)
(* other subject's pass, no deletion and no garbage collection changes     *)
(* them, its hashrings or its existence without queuing it.                *)
SubjectImplementsKey == Key!Spec

=============================================================================
