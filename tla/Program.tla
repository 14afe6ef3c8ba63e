-------------------------------- MODULE Program --------------------------------
(***************************************************************************)
(* The whole on-chain program: elections, projects, transfers, tasks and   *)
(* metadata of organizations, over one set of accounts.  Transfers and     *)
(* tasks spend one treasury; tasks live in the projects that were voted    *)
(* on, by the contributors that were elected.  Every step is one of the    *)
(* program's twenty instructions, a token account opened by its owner, or  *)
(* the clock.                                                              *)
(***************************************************************************)
EXTENDS Treasury, Projects, Metadata

CONSTANTS
    Timestamps, ReplayWindow, MaxElections,    \* contributor proposals
    MaxProjectProposals, MaxProjects,          \* project proposals
    Nonces, MaxTransfers, MaxExecutions,       \* transfer proposals
    TaskTitles, Nobody, MaxTasks,              \* tasks
    MaxVoters                                  \* keys reserved for voters (50)

ASSUME ProgramAssumption ==
    /\ Timestamps \subseteq Nat
    /\ ReplayWindow \in Nat
    /\ MaxElections \in Nat
    /\ MaxProjectProposals \in Nat
    /\ MaxProjects \in Nat
    /\ MaxTransfers \in Nat
    /\ MaxExecutions \in Nat
    /\ Nobody \notin Wallets
    /\ MaxTasks \in Nat
    /\ MaxVoters \in Nat

VARIABLES
    contributor_proposals,
    project_proposals,
    transfer_proposals, transfers_executed,
    task_proposals, tasks, task_vaults, vault_token_accounts

Elections == INSTANCE ContributorGovernance WITH MaxProposals <- MaxElections
ProjectVotes == INSTANCE ProjectGovernance WITH MaxProposals <- MaxProjectProposals
Transfers == INSTANCE TreasuryTransfers
Work == INSTANCE TaskVaults

transferVars == <<transfer_proposals, transfers_executed>>
taskVars == <<task_proposals, tasks, task_vaults, vault_token_accounts>>
vars == <<treasuryVars, projects, metadata, contributor_proposals, project_proposals,
          transferVars, taskVars>>

-----------------------------------------------------------------------------
Init ==
    /\ TreasuryInit
    /\ MetadataInit
    /\ projects = EmptyMap
    /\ contributor_proposals = EmptyMap
    /\ project_proposals = EmptyMap
    /\ transfer_proposals = EmptyMap
    /\ transfers_executed = EmptyMap
    /\ task_proposals = EmptyMap
    /\ tasks = EmptyMap
    /\ task_vaults = EmptyMap
    /\ vault_token_accounts = EmptyMap

Elect ==
    /\ \/ Administer /\ UNCHANGED contributor_proposals
       \/ Elections!Propose
       \/ Elections!Vote
    /\ UNCHANGED <<token_registry, token_accounts, projects, metadata, project_proposals,
                   transferVars, taskVars>>

PlanProjects ==
    /\ ProjectVotes!Propose \/ ProjectVotes!Vote \/ ProjectVotes!Create
    /\ UNCHANGED <<token_registry, token_accounts, metadata, contributor_proposals,
                   transferVars, taskVars>>

FillTreasury ==
    /\ Fund
    /\ UNCHANGED <<projects, metadata, contributor_proposals, project_proposals,
                   transferVars, taskVars>>

Transfer ==
    /\ Transfers!Propose \/ Transfers!Vote \/ Transfers!Execute
    /\ UNCHANGED <<projects, metadata, contributor_proposals, project_proposals, taskVars>>

DoTasks ==
    /\ Work!Propose \/ Work!Vote \/ Work!Complete \/ Work!Review
    /\ UNCHANGED <<metadata, contributor_proposals, project_proposals, transferVars>>

DescribeOrganization ==
    /\ Describe
    /\ UNCHANGED <<token_registry, token_accounts, projects, contributor_proposals,
                   project_proposals, transferVars, taskVars>>

Next ==
    \/ Elect
    \/ PlanProjects
    \/ FillTreasury
    \/ Transfer
    \/ DoTasks
    \/ DescribeOrganization

Spec == Init /\ [][Next]_vars

-----------------------------------------------------------------------------
(***************************************************************************)
(* What a step changes, by address, and the instructions the interface     *)
(* declares for the accounts of this instance.                             *)
(***************************************************************************)
Declared == INSTANCE Interface

ChangedKeys(old, new) == {k \in DOMAIN new : k \notin DOMAIN old \/ new[k] # old[k]}

TaskAddress(a) == <<"task", a>>
TaskProposalAddress(a) == <<"task_proposal", a[1][1], a[1], a[2]>>

Changed ==
    ChangedKeys(organization, organization')
      \cup ChangedKeys(token_accounts, token_accounts')
      \cup {<<"contributor">> \o a : a \in ChangedKeys(contributor, contributor')}
      \cup {<<"contributor_proposal">> \o a :
              a \in ChangedKeys(contributor_proposals, contributor_proposals')}
      \cup {<<"project_proposal">> \o a : a \in ChangedKeys(project_proposals, project_proposals')}
      \cup {<<"project">> \o a : a \in ChangedKeys(projects, projects')}
      \cup {<<"treasury_transfer">> \o a :
              a \in ChangedKeys(transfer_proposals, transfer_proposals')}
      \cup {TaskProposalAddress(a) : a \in ChangedKeys(task_proposals, task_proposals')}
      \cup {TaskAddress(a) : a \in ChangedKeys(tasks, tasks')}
      \cup {Declared!VaultAddress(TaskAddress(a)) : a \in ChangedKeys(task_vaults, task_vaults')}
      \cup {Declared!VaultTokenAccountAddress(TaskAddress(a)) :
              a \in ChangedKeys(vault_token_accounts, vault_token_accounts')}
      \cup {Declared!RegistryAddress(o) : o \in ChangedKeys(token_registry, token_registry')}
      \cup {Declared!MetadataAddress(o) : o \in ChangedKeys(metadata, metadata')}

(* Wallets a step enters as voters, on whatever they vote. *)
VotersOf(ballots, a) == IF a \in DOMAIN ballots THEN ballots[a].voters ELSE {}

EnteredVoters(old, new) ==
    UNION {VotersOf(new, a) \ VotersOf(old, a) : a \in ChangedKeys(old, new)}

NewVoters ==
    UNION {EnteredVoters(contributor_proposals, contributor_proposals'),
           EnteredVoters(project_proposals, project_proposals'),
           EnteredVoters(transfer_proposals, transfer_proposals'),
           EnteredVoters(task_proposals, task_proposals')}

ElectionCalls ==
    UNION {
      {Declared!CreateOrganization(w, o) : w \in Wallets, o \in Orgs},
      {Declared!UpdateOrganizationParameters(w, o) : w \in Wallets, o \in Orgs},
      {Declared!InitializeOrganizationMetadata(w, o) : w \in Wallets, o \in Orgs},
      {Declared!UpdateOrganizationMetadata(w, o) : w \in Wallets, o \in Orgs},
      {Declared!RenewContributor(w, o) : w \in Wallets, o \in Orgs},
      {Declared!ProposeContributor(w, o, c, t) :
         w \in Wallets, o \in Orgs, c \in Wallets, t \in Timestamps},
      {Declared!VoteOnContributorProposal(w, o, <<"contributor_proposal", o, c, t>>, c) :
         w \in Wallets, o \in Orgs, c \in Wallets, t \in Timestamps}}

ProjectCalls ==
    UNION {
      {Declared!ProposeProject(w, a[1], a[2]) : w \in Wallets, a \in ProposalAddresses},
      {Declared!VoteOnProjectProposal(w, <<"project_proposal">> \o a, <<"project">> \o p) :
         w \in Wallets, a \in ProposalAddresses, p \in ProjectAddresses},
      {Declared!CreateProject(w, p[1], p[2]) : w \in Wallets, p \in ProjectAddresses}}

TransferAddresses == Orgs \X Mints \X Amounts \X Wallets \X Nonces

TreasuryCalls ==
    UNION {
      {Declared!InitializeTreasuryRegistry(w, o) : w \in Wallets, o \in Orgs},
      {Declared!RegisterTreasuryToken(w, o, k) : w \in Wallets, o \in Orgs, k \in TokenAccounts},
      {Declared!DepositToTreasury(w, k, from) :
         w \in Wallets, k \in TokenAccounts, from \in TokenAccounts},
      {Declared!ProposeFundsTransfer(a[4], a[1], a[2], a[3], a[5], k) :
         a \in TransferAddresses, k \in TokenAccounts},
      {Declared!VoteOnFundsTransferProposal(w, a[1], <<"treasury_transfer">> \o a, k, to, {}) :
         w \in Wallets, a \in TransferAddresses, k \in TokenAccounts, to \in TokenAccounts},
      {Declared!ExecuteFundsTransfer(w, <<"treasury_transfer">> \o a, k, to) :
         w \in Wallets, a \in TransferAddresses, k \in TokenAccounts, to \in TokenAccounts}}

TaskCalls ==
    LET addresses == ProjectAddresses \X TaskTitles
    IN  UNION {
          {Declared!ProposeTask(w, a[1][1], a[1], a[2], k) :
             w \in Wallets, a \in addresses, k \in TokenAccounts},
          {Declared!VoteOnTaskProposal(w, TaskProposalAddress(a), k, to, TaskAddress(b)) :
             w \in Wallets, a \in addresses, b \in addresses, k \in TokenAccounts,
             to \in TokenAccounts},
          {Declared!CompleteTask(w, TaskAddress(a), Declared!VaultAddress(TaskAddress(a))) :
             w \in Wallets, a \in addresses},
          {Declared!EnableTaskVaultWithdrawal(w, TaskAddress(a),
              Declared!VaultAddress(TaskAddress(a)), k,
              Declared!VaultTokenAccountAddress(TaskAddress(a))) :
             w \in Wallets, a \in addresses, k \in TokenAccounts}}

(* Token accounts are opened with the token program's own instructions. *)
TokenProgramCalls == {[signers |-> {}, writable |-> {k}] : k \in TokenAccounts}

Calls == UNION {ElectionCalls, ProjectCalls, TreasuryCalls, TaskCalls, TokenProgramCalls}

Declaring == [k \in UNION {call.writable : call \in Calls} |-> {call \in Calls : k \in call.writable}]

(* Whatever a step changes, in however many accounts, one instruction of   *)
(* the interface declares all of it writable, and a wallet becomes a voter *)
(* only as its signer.  A change the interface does not declare would be   *)
(* lost on the chain although the program makes it.                        *)
ChangesAreDeclared ==
    [][\A changed \in {Changed} \ {{}} :
         /\ changed \subseteq DOMAIN Declaring
         /\ \E k \in changed : \E call \in Declaring[k] :
              changed \subseteq call.writable /\ NewVoters \subseteq call.signers]_vars

TypeOK ==
    /\ Elections!TypeOK
    /\ ProjectVotes!TypeOK
    /\ Transfers!TypeOK
    /\ Work!TypeOK
    /\ MetadataTypeOK

(* Every decision to spend is kept, whichever other decision spent the     *)
(* treasury first: an approved transfer has been paid, an approved task    *)
(* has its payment in its vault.                                           *)
DecisionsAreFunded == Transfers!ApprovedIsPaid /\ Work!VaultsCoverTasks

(* No instruction of any component makes or loses a token. *)
SupplyConserved == Work!SupplyConserved

(* Tokens leave a treasury account only in a step that pays one approved   *)
(* transfer, or funds one task approved in that step, of the same          *)
(* organization and for exactly its amount.                                *)
FundsTask(a, key) ==
    /\ Work!OrganizationOf(a) = token_accounts[key].owner
    /\ task_proposals[a].status = "Active" /\ task_proposals'[a].status = "Approved"
    /\ token_accounts'[key].amount = token_accounts[key].amount - task_proposals[a].payment_amount

TreasurySpendsByDecision ==
    [][\A key \in DOMAIN token_accounts :
         token_accounts[key].owner \in Orgs
           /\ token_accounts'[key].amount < token_accounts[key].amount
         => \/ \E a \in DOMAIN transfer_proposals : Transfers!Pays(a, key)
            \/ \E a \in DOMAIN task_proposals : FundsTask(a, key)]_vars
=============================================================================
