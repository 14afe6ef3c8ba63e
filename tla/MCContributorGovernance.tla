------------------------ MODULE MCContributorGovernance ------------------------
(***************************************************************************)
(* Small instances of ContributorGovernance for TLC.                       *)
(***************************************************************************)
EXTENDS ContributorGovernance, TLC

CONSTANTS w1, w2, w3, o1

(* The parameters the other components read are fixed here. *)
Params(name_length, threshold, quorum, term, minimum) ==
    [name_length                                |-> name_length,
     contributor_proposal_threshold_percentage  |-> threshold,
     contributor_proposal_validity_period       |-> 2,
     contributor_validity_period                |-> term,
     contributor_proposal_quorum_percentage     |-> quorum,
     project_proposal_threshold_percentage      |-> 50,
     project_proposal_validity_period           |-> 1,
     minimum_token_requirement                  |-> minimum,
     treasury_transfer_threshold_percentage     |-> 50,
     treasury_transfer_proposal_validity_period |-> 1,
     treasury_transfer_quorum_percentage        |-> 50]

(* One valid set of parameters; a membership that never ends (saturated).  *)
Majority  == Params(1, 51, 50, I64Max, 0)
OneParameterSet == {Majority}

(* A stricter set with a longer name, and three that create and update     *)
(* must refuse.                                                            *)
Lenient   == Params(1, 50, 50, 1, 0)
Strict    == Params(2, 67, 100, 2, 1)
NoQuorum  == Params(1, 50, 0, 1, 0)
BeyondAll == Params(1, 101, 50, 1, 0)
Nameless  == Params(0, 50, 50, 1, 0)
AllParameterSets == {Lenient, Strict, NoQuorum, BeyondAll, Nameless}

WalletSymmetry == Permutations(Wallets)
=============================================================================
