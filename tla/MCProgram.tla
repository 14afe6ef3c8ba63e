------------------------------- MODULE MCProgram -------------------------------
(***************************************************************************)
(* A small instance of Program for TLC.                                    *)
(***************************************************************************)
EXTENDS Program, TLC

CONSTANTS w1, w2, o1, o2, usdc, a1, t1, t2, u1

OneParameterSet ==
    {[name_length                                |-> 1,
      contributor_proposal_threshold_percentage  |-> 50,
      contributor_proposal_validity_period       |-> 1,
      contributor_validity_period                |-> I64Max,
      contributor_proposal_quorum_percentage     |-> 50,
      project_proposal_threshold_percentage      |-> 50,
      project_proposal_validity_period           |-> 1,
      minimum_token_requirement                  |-> 0,
      treasury_transfer_threshold_percentage     |-> 51,
      treasury_transfer_proposal_validity_period |-> 1,
      treasury_transfer_quorum_percentage        |-> 50]}

OneMemberList == {<<w1, w1>>, <<w1, w2>>}

(* One that fits and one that does not. *)
ShortAndLong == {[url |-> 1, description |-> 1], [url |-> 1, description |-> 2]}

OneWalletAccount == a1 :> [mint |-> usdc, owner |-> w1, amount |-> 2]

(* Two organizations with two contributors and a registry each; the first  *)
(* has a treasury account with one of the two tokens there are.            *)
Founded == [parameters |-> CHOOSE ps \in ParameterSets : TRUE, creator |-> w1,
            contributors |-> <<w1, w2>>]

TwoOrganizations ==
    /\ now = 0
    /\ organization = [o \in Orgs |-> Founded]
    /\ contributor = [key \in Orgs \X Wallets |-> NewContributor(1, I64Max)]
    /\ token_registry = (o1 :> <<[mint |-> usdc, token_account |-> t1]>>) @@ (o2 :> <<>>)
    /\ token_accounts = (a1 :> [mint |-> usdc, owner |-> w1, amount |-> 1])
                        @@ (t1 :> [mint |-> usdc, owner |-> o1, amount |-> 1])
    /\ metadata = [o \in Orgs |-> [url |-> 1, description |-> 1]]
    /\ projects = EmptyMap
    /\ contributor_proposals = EmptyMap
    /\ project_proposals = EmptyMap
    /\ transfer_proposals = EmptyMap
    /\ transfers_executed = EmptyMap
    /\ task_proposals = EmptyMap
    /\ tasks = EmptyMap
    /\ task_vaults = EmptyMap
    /\ vault_token_accounts = EmptyMap

(* From nothing, one organization and one treasury account; or else two    *)
(* organizations that have done their first steps.                         *)
Small == o2 \notin DOMAIN organization /\ t2 \notin DOMAIN token_accounts

StartSpec == (Init \/ TwoOrganizations) /\ [][Next /\ (Small => Small')]_vars
=============================================================================
