------------------------------- MODULE Interface -------------------------------
(***************************************************************************)
(* The interface of the on-chain program (deorg_voting_program.ts), which  *)
(* is generated from it and which its clients build instructions with: who *)
(* signs each instruction and which accounts it declares writable.  The    *)
(* runtime keeps an instruction to this; what the code changes in an       *)
(* account that is not writable is lost or refused.                        *)
(*                                                                         *)
(* An account is named by its address.  A program derived address is the   *)
(* tuple of its seeds; an account whose address the caller chooses is a    *)
(* parameter.  Accounts an instruction only reads, the programs it calls   *)
(* and the types of its arguments are left out.                            *)
(***************************************************************************)

(* An instruction's signers pay for it, which is a change of theirs too. *)
Instruction(signer, accounts) ==
    [signers |-> {signer}, writable |-> {signer} \cup accounts]

RegistryAddress(o)             == <<"treasury_registry", o>>
MetadataAddress(o)             == <<"metadata", o>>
ContributorAddress(o, wallet)  == <<"contributor", o, wallet>>
VaultAddress(task)             == <<"task_vault", task>>
VaultTokenAccountAddress(task) == <<"vault_token_account", task>>

-----------------------------------------------------------------------------
(* Organizations, their metadata and their contributors. *)
CreateOrganization(creator, o) ==
    Instruction(creator, {o, ContributorAddress(o, creator)})

(* The creator signs, but another may pay. *)
UpdateOrganizationParameters(creator, o) ==
    [signers |-> {creator}, writable |-> {o}]

InitializeOrganizationMetadata(creator, o) ==
    Instruction(creator, {MetadataAddress(o)})

UpdateOrganizationMetadata(creator, o) ==
    Instruction(creator, {MetadataAddress(o)})

ProposeContributor(proposer, o, candidate, timestamp) ==
    Instruction(proposer,
        {o, <<"contributor_proposal", o, candidate, timestamp>>,
         ContributorAddress(o, candidate)})

(* The candidate is read from the proposal. *)
VoteOnContributorProposal(voter, o, proposal, candidate) ==
    Instruction(voter, {o, proposal, ContributorAddress(o, candidate)})

RenewContributor(authority, o) ==
    Instruction(authority, {ContributorAddress(o, authority)})

-----------------------------------------------------------------------------
(* Projects. *)
ProposeProject(proposer, o, title) ==
    Instruction(proposer, {<<"project_proposal", o, title>>})

(* The project's address is derived by the program, not by the client. *)
VoteOnProjectProposal(voter, proposal, project) == Instruction(voter, {proposal, project})

CreateProject(creator, o, uuid) ==
    Instruction(creator, {<<"project", o, uuid>>})

-----------------------------------------------------------------------------
(* The treasury. *)
InitializeTreasuryRegistry(authority, o) ==
    Instruction(authority, {RegistryAddress(o)})

RegisterTreasuryToken(authority, o, treasury) ==
    Instruction(authority, {treasury, RegistryAddress(o)})

DepositToTreasury(depositor, treasury, source) == Instruction(depositor, {treasury, source})

ProposeFundsTransfer(proposer, o, mint, amount, nonce, treasury) ==
    Instruction(proposer,
        {o, treasury,
         <<"treasury_transfer", o, mint, amount, proposer, nonce>>})

(* A linked task brings its vault and the vault's tokens with it. *)
VoteOnFundsTransferProposal(voter, o, proposal, treasury, destination, linked_tasks) ==
    Instruction(voter,
        {o, proposal, treasury, destination} \cup linked_tasks
          \cup {VaultAddress(t) : t \in linked_tasks}
          \cup {VaultTokenAccountAddress(t) : t \in linked_tasks})

ExecuteFundsTransfer(executor, proposal, treasury, destination) ==
    Instruction(executor, {proposal, treasury, destination})

-----------------------------------------------------------------------------
(* Tasks. *)
ProposeTask(proposer, o, project, title, treasury) ==
    Instruction(proposer, {treasury, <<"task_proposal", o, project, title>>})

FaultyVoteOnTaskProposal(voter, proposal, treasury, destination, task) == \* fault: not the vault's tokens
    Instruction(voter, {proposal, treasury, destination, task, VaultAddress(task)})

VoteOnTaskProposal(voter, proposal, treasury, destination, task) ==
    Instruction(voter, {proposal, treasury, destination, task, VaultAddress(task),
                        VaultTokenAccountAddress(task)})

CompleteTask(assignee, task, vault) == Instruction(assignee, {task, vault})

EnableTaskVaultWithdrawal(reviewer, task, vault, account, vault_account) ==
    Instruction(reviewer, {task, vault, account, vault_account})
=============================================================================
