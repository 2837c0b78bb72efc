------------------------- MODULE MCReceiveController -------------------------
(***************************************************************************)
(* Model-checking instance of ReceiveController: two shards, two hosts,   *)
(* every hashring list of distinct shards up to length two.               *)
(***************************************************************************)
EXTENDS ReceiveController, TLC

CONSTANTS s1, s2, h1, h2

MCShards == {s1, s2}
MCHosts == {h1, h2}

(* Every list of distinct shard names of length at most two: the empty     *)
(* list, each single shard, and both orders of the two.                   *)
MCShardLists ==
    LET pairs == {<<a, b>> : a, b \in MCShards}
    IN  {<<>>} \cup {<<a>> : a \in MCShards}
               \cup (pairs \ {<<a, a>> : a \in MCShards})

(* The shards and hosts are interchangeable names.                         *)
MCSymmetry == Permutations(MCShards) \cup Permutations(MCHosts)

=============================================================================
