-------------------------- MODULE MCProjectGovernance --------------------------
(***************************************************************************)
(* Small instances of ProjectGovernance for TLC.                           *)
(***************************************************************************)
EXTENDS ProjectGovernance, TLC

CONSTANTS w1, w2, w3, o1, u1

Params(threshold, quorum) ==
    [name_length                                |-> 1,
     contributor_proposal_threshold_percentage  |-> 50,
     contributor_proposal_validity_period       |-> 1,
     contributor_validity_period                |-> I64Max,
     contributor_proposal_quorum_percentage     |-> quorum,
     project_proposal_threshold_percentage      |-> threshold,
     project_proposal_validity_period           |-> 1,
     minimum_token_requirement                  |-> 0,
     treasury_transfer_threshold_percentage     |-> 50,
     treasury_transfer_proposal_validity_period |-> 1,
     treasury_transfer_quorum_percentage        |-> 50]

OneParameterSet == {Params(67, 50)}

(* A project trusts one contributor. *)
OneMember == {<<w>> : w \in Wallets}

WalletSymmetry == Permutations(Wallets)
=============================================================================
