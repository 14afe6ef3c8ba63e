----------------------------- MODULE MCTaskVaults -----------------------------
(***************************************************************************)
(* Small instances of TaskVaults for TLC.                                  *)
(***************************************************************************)
EXTENDS TaskVaults, TLC

CONSTANTS w1, w2, o1, usdc, a1, t1

Params(minimum) ==
    [name_length                                |-> 1,
     contributor_proposal_threshold_percentage  |-> 50,
     contributor_proposal_validity_period       |-> 1,
     contributor_validity_period                |-> I64Max,
     contributor_proposal_quorum_percentage     |-> 50,
     project_proposal_threshold_percentage      |-> 50,
     project_proposal_validity_period           |-> 1,
     minimum_token_requirement                  |-> minimum,
     treasury_transfer_threshold_percentage     |-> 50,
     treasury_transfer_proposal_validity_period |-> 1,
     treasury_transfer_quorum_percentage        |-> 50]

OneParameterSet == {Params(0)}

(* With fewer than four entries the first vote decides; the program takes  *)
(* a list that names a member twice.                                       *)
FourEntries == {<<w1, w2, w1, w2>>}

(* The assignee's account holds all the tokens there are. *)
OneWalletAccount == a1 :> [mint |-> usdc, owner |-> w1, amount |-> 2]
=============================================================================
