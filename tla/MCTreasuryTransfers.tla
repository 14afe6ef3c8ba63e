-------------------------- MODULE MCTreasuryTransfers --------------------------
(***************************************************************************)
(* Small instances of TreasuryTransfers for TLC.                           *)
(***************************************************************************)
EXTENDS TreasuryTransfers, TLC

CONSTANTS w1, w2, w3, o1, usdc, a1, t1

Params(threshold, quorum) ==
    [name_length                                |-> 1,
     contributor_proposal_threshold_percentage  |-> 50,
     contributor_proposal_validity_period       |-> 1,
     contributor_validity_period                |-> I64Max,
     contributor_proposal_quorum_percentage     |-> 50,
     project_proposal_threshold_percentage      |-> 50,
     project_proposal_validity_period           |-> 1,
     minimum_token_requirement                  |-> 0,
     treasury_transfer_threshold_percentage     |-> threshold,
     treasury_transfer_proposal_validity_period |-> 1,
     treasury_transfer_quorum_percentage        |-> quorum]

OneParameterSet == {Params(51, 50)}

(* A quorum of half the contributors, or of all. *)
TwoParameterSets == {Params(51, 50), Params(51, 100)}

(* A wallet that holds all the tokens there are. *)
OneToken == a1 :> [mint |-> usdc, owner |-> w1, amount |-> 1]
OneWalletAccount == a1 :> [mint |-> usdc, owner |-> w1, amount |-> 2]

(* The wallet that holds the tokens is not like the others. *)
OtherWallets == Permutations(Wallets \ {w1})
=============================================================================
