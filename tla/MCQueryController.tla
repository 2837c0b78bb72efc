-------------------------- MODULE MCQueryController --------------------------
(***************************************************************************)
(* Model-checking instance of QueryController: two store Services.       *)
(***************************************************************************)
EXTENDS QueryController, TLC

CONSTANTS v1, v2

MCSvcs == {v1, v2}

(* Services carry the operator's contract labels, with no class or with   *)
(* the strict class, and possibly a team label some selectors require.    *)
MCLabelSets ==
    { {PartOf, StoreAPI} \cup c \cup t : c \in {{}, {Strict}},
                                         t \in {{}, {"team"}} }

(* A selector on the store-API label alone, or on it and the team label.  *)
MCSelectors == { {StoreAPI}, {StoreAPI, "team"} }

(* Every label set, including ones outside the operator's contract.      *)
MCAnyLabelSets ==
    { {StoreAPI} \cup p \cup c : p \in {{}, {PartOf}}, c \in {{}, {Strict}} }

=============================================================================
