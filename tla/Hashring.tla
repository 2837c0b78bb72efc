------------------------------ MODULE Hashring ------------------------------
(***************************************************************************)
(* The hash-ring synthesizer: turns the declared shard list, the ready     *)
(* endpoints observed for each shard and the previously persisted hashring *)
(* ConfigMap into the new routing table (receive.BuildHashrings, called    *)
(* from buildHashringConfig in thanosreceive_controller.go).               *)
(*                                                                         *)
(* A routing table is a function from shard to the set of its endpoint     *)
(* addresses.  The code serializes it as a JSON list sorted by shard name  *)
(* with each address list sorted; sorting makes the serialization a       *)
(* function of this set-valued table, so the table is what is modelled.   *)
(* An endpoint address <host>.<subject>-<shard>.<ns>.svc...:19291 is       *)
(* identified by its shard and host, so a host stands for an address       *)
(* within its shard's entry.                                               *)
(***************************************************************************)
EXTENDS Naturals, Sequences, Functions

CONSTANTS
    Shards,     \* names a ShardDefinition may have
    Hosts       \* pod hostnames an ingester's endpoint slice may list

ASSUME HashringAssumption == Shards # {} /\ Hosts # {}

(* Every routing table over some subset of the shards.                     *)
Table == UNION { [D -> SUBSET Hosts] : D \in SUBSET Shards }

(* The shards named by a declared hashring list.                           *)
ShardSet(list) == Range(list)

(* Mutant: a shard with no ready endpoint loses its persisted entry.     *)
EntryIgnoringOld(old, seen, s) ==
    IF seen[s] # {} THEN seen[s] ELSE {}

(* The entry a shard gets: its freshly observed ready endpoints when there *)
(* are any; otherwise the entry the persisted table held for it, so that a *)
(* shard between rollout steps keeps its routing; otherwise empty.         *)
Entry(old, seen, s) ==
    IF seen[s] # {} THEN seen[s]
    ELSE IF s \in DOMAIN old THEN old[s]
    ELSE {}

(* BuildHashrings: one entry per declared shard and nothing else.  An      *)
(* empty list yields the empty table, serialized as "[]", together with    *)
(* the ErrHashringsEmpty sentinel that the caller tolerates.               *)
BuildHashrings(old, list, seen) ==
    [s \in ShardSet(list) |-> Entry(old, seen, s)]

=============================================================================
