------------------------------ MODULE Program_proofs ------------------------------
(***************************************************************************)
(* Theorems about Program: the components' invariants hold together, over  *)
(* one set of accounts, for every value of the constants.  What each       *)
(* component's own steps do is proved in its own module; here is that the  *)
(* steps of the others do not disturb it.                                  *)
(***************************************************************************)
EXTENDS Program, TLAPS

EP == INSTANCE ContributorGovernance_proofs WITH MaxProposals <- MaxElections
PP == INSTANCE ProjectGovernance_proofs WITH MaxProposals <- MaxProjectProposals
TP == INSTANCE TreasuryTransfers_proofs
WP == INSTANCE TaskVaults_proofs

-----------------------------------------------------------------------------
(***************************************************************************)
(* Program instantiates the components, and this module the components'    *)
(* theorems, each with a copy of the definitions it speaks of.  The copies *)
(* are read side by side here, down to the built-in operators, so that a   *)
(* step of the program is one that the theorems are about.                 *)
(***************************************************************************)
(* The program starts with the elections of an empty chain.                *)
LEMMA ElectionsStart ==
    ASSUME TreasuryInit, contributor_proposals = EmptyMap
    PROVE  Elections!Init /\ EP!Init
  BY Zenon DEF TreasuryInit, OrgInit, EmptyMap, Elections!Init, Elections!OrgInit,
       Elections!EmptyMap, EP!Init, EP!OrgInit, EP!EmptyMap

(* It starts without projects.                                             *)
LEMMA ProjectsStart ==
    ASSUME TreasuryInit, projects = EmptyMap, project_proposals = EmptyMap
    PROVE  ProjectVotes!Init /\ PP!Init
  BY Zenon DEF TreasuryInit, OrgInit, EmptyMap, ProjectVotes!Init, ProjectVotes!ProjectsInit,
       ProjectVotes!EmptyMap, ProjectVotes!OrgInit, PP!Init, PP!ProjectsInit, PP!EmptyMap,
       PP!OrgInit

(* It starts without transfers.                                            *)
LEMMA TransfersStart ==
    ASSUME TreasuryInit, transfer_proposals = EmptyMap, transfers_executed = EmptyMap
    PROVE  TP!Init
  BY Zenon DEF TreasuryInit, OrgInit, EmptyMap, TP!Init, TP!TreasuryInit, TP!EmptyMap,
       TP!OrgInit

(* It starts without tasks.                                                *)
LEMMA TasksStart ==
    ASSUME TreasuryInit, projects = EmptyMap, task_proposals = EmptyMap, tasks = EmptyMap,
           task_vaults = EmptyMap, vault_token_accounts = EmptyMap
    PROVE  WP!Init
  BY Zenon DEF TreasuryInit, OrgInit, EmptyMap, WP!Init, WP!TreasuryInit, WP!EmptyMap,
       WP!OrgInit

(* The clock and the administration of organizations.                      *)
LEMMA AdministrationIs ==
    ASSUME Administer
    PROVE  Elections!Administer /\ EP!Administer
  BY Zenon DEF Administer, Tick, CreateOrganization, UpdateOrganizationParameters,
       RenewContributor, CreateOrganizationAccounts, ValidateParameters, StoreAccount,
       OrganizationFits, NewContributor, UpdateOrganizationParametersAccounts,
       RenewContributorAccounts, IsValidContributor, ValidityPeriod, ValidateThreshold,
       ValidateValidityPeriod, SaturatingAdd, Contributors, Elections!Administer,
       Elections!Tick, Elections!CreateOrganization, Elections!UpdateOrganizationParameters,
       Elections!RenewContributor, Elections!CreateOrganizationAccounts,
       Elections!ValidateParameters, Elections!StoreAccount, Elections!OrganizationFits,
       Elections!NewContributor, Elections!UpdateOrganizationParametersAccounts,
       Elections!RenewContributorAccounts, Elections!IsValidContributor,
       Elections!ValidityPeriod, Elections!ValidateThreshold, Elections!ValidateValidityPeriod,
       Elections!SaturatingAdd, Elections!Contributors, EP!Administer, EP!Tick,
       EP!CreateOrganization, EP!UpdateOrganizationParameters, EP!RenewContributor,
       EP!CreateOrganizationAccounts, EP!ValidateParameters, EP!StoreAccount,
       EP!OrganizationFits, EP!NewContributor, EP!UpdateOrganizationParametersAccounts,
       EP!RenewContributorAccounts, EP!IsValidContributor, EP!ValidityPeriod,
       EP!ValidateThreshold, EP!ValidateValidityPeriod, EP!SaturatingAdd, EP!Contributors

(* A step of an organization is one to every component.                    *)
LEMMA OrganizationStepIs ==
    ASSUME EP!OrgNext
    PROVE  ProjectVotes!OrgNext /\ PP!OrgNext /\ TP!OrgNext /\ WP!OrgNext
  BY Zenon DEF EP!OrgNext, EP!Administer, EP!AdmitNewContributor, EP!Tick,
       EP!CreateOrganization, EP!UpdateOrganizationParameters, EP!RenewContributor,
       EP!IsValidContributor, EP!AdmitContributor, EP!CreateOrganizationAccounts,
       EP!ValidateParameters, EP!StoreAccount, EP!OrganizationFits, EP!NewContributor,
       EP!UpdateOrganizationParametersAccounts, EP!RenewContributorAccounts, EP!ValidityPeriod,
       EP!Contributors, EP!ValidateThreshold, EP!ValidateValidityPeriod, EP!SaturatingAdd,
       ProjectVotes!OrgNext, ProjectVotes!Administer, ProjectVotes!AdmitNewContributor,
       ProjectVotes!Tick, ProjectVotes!CreateOrganization,
       ProjectVotes!UpdateOrganizationParameters, ProjectVotes!RenewContributor,
       ProjectVotes!IsValidContributor, ProjectVotes!AdmitContributor,
       ProjectVotes!CreateOrganizationAccounts, ProjectVotes!ValidateParameters,
       ProjectVotes!StoreAccount, ProjectVotes!OrganizationFits, ProjectVotes!NewContributor,
       ProjectVotes!UpdateOrganizationParametersAccounts,
       ProjectVotes!RenewContributorAccounts, ProjectVotes!ValidityPeriod,
       ProjectVotes!Contributors, ProjectVotes!ValidateThreshold,
       ProjectVotes!ValidateValidityPeriod, ProjectVotes!SaturatingAdd, PP!OrgNext,
       PP!Administer, PP!AdmitNewContributor, PP!Tick, PP!CreateOrganization,
       PP!UpdateOrganizationParameters, PP!RenewContributor, PP!IsValidContributor,
       PP!AdmitContributor, PP!CreateOrganizationAccounts, PP!ValidateParameters,
       PP!StoreAccount, PP!OrganizationFits, PP!NewContributor,
       PP!UpdateOrganizationParametersAccounts, PP!RenewContributorAccounts, PP!ValidityPeriod,
       PP!Contributors, PP!ValidateThreshold, PP!ValidateValidityPeriod, PP!SaturatingAdd,
       TP!OrgNext, TP!Administer, TP!AdmitNewContributor, TP!Tick, TP!CreateOrganization,
       TP!UpdateOrganizationParameters, TP!RenewContributor, TP!IsValidContributor,
       TP!AdmitContributor, TP!CreateOrganizationAccounts, TP!ValidateParameters,
       TP!StoreAccount, TP!OrganizationFits, TP!NewContributor,
       TP!UpdateOrganizationParametersAccounts, TP!RenewContributorAccounts, TP!ValidityPeriod,
       TP!Contributors, TP!ValidateThreshold, TP!ValidateValidityPeriod, TP!SaturatingAdd,
       WP!OrgNext, WP!Administer, WP!AdmitNewContributor, WP!Tick, WP!CreateOrganization,
       WP!UpdateOrganizationParameters, WP!RenewContributor, WP!IsValidContributor,
       WP!AdmitContributor, WP!CreateOrganizationAccounts, WP!ValidateParameters,
       WP!StoreAccount, WP!OrganizationFits, WP!NewContributor,
       WP!UpdateOrganizationParametersAccounts, WP!RenewContributorAccounts, WP!ValidityPeriod,
       WP!Contributors, WP!ValidateThreshold, WP!ValidateValidityPeriod, WP!SaturatingAdd

(* propose_contributor.                                                    *)
LEMMA ElectionProposeIs ==
    ASSUME Elections!Propose
    PROVE  EP!Propose
  BY Zenon DEF Elections!Propose, Elections!Cardinality, Elections!ProposeContributor,
       Elections!IsFiniteSet, Elections!ProposeContributorAccounts,
       Elections!IsValidContributor, Elections!HasEnoughTokensToVote, Elections!Abs,
       Elections!StoreAccount, Elections!SaturatingAdd, Elections!orgVars,
       Elections!Contributors, EP!Propose, EP!Cardinality, EP!ProposeContributor,
       EP!IsFiniteSet, EP!ProposeContributorAccounts, EP!IsValidContributor,
       EP!HasEnoughTokensToVote, EP!Abs, EP!StoreAccount, EP!SaturatingAdd, EP!orgVars,
       EP!Contributors

(* vote_on_contributor_proposal.                                           *)
LEMMA ElectionVoteIs ==
    ASSUME Elections!Vote
    PROVE  EP!Vote
  BY Zenon DEF Elections!Vote, Elections!VoteOnContributorProposal,
       Elections!VoteOnContributorProposalAccounts, Elections!WithVote,
       Elections!IsValidContributor, Elections!HasEnoughTokensToVote,
       Elections!HasAlreadyVoted, Elections!IsProposalExpired, Elections!Cardinality,
       Elections!AdmitsCandidate, Elections!AdmitContributor, Elections!orgVars,
       Elections!UpdateProposalStatus, Elections!ContributorCount, Elections!Contributors,
       Elections!IsFiniteSet, Elections!OrganizationFits, Elections!StoreAccount,
       Elections!NewContributor, Elections!ValidityPeriod, Elections!MeetsQuorumRequirement,
       Elections!HasReachedThreshold, Elections!SaturatingAdd, EP!Vote,
       EP!VoteOnContributorProposal, EP!VoteOnContributorProposalAccounts, EP!WithVote,
       EP!IsValidContributor, EP!HasEnoughTokensToVote, EP!HasAlreadyVoted,
       EP!IsProposalExpired, EP!Cardinality, EP!AdmitsCandidate, EP!AdmitContributor,
       EP!orgVars, EP!UpdateProposalStatus, EP!ContributorCount, EP!Contributors,
       EP!IsFiniteSet, EP!OrganizationFits, EP!StoreAccount, EP!NewContributor,
       EP!ValidityPeriod, EP!MeetsQuorumRequirement, EP!HasReachedThreshold, EP!SaturatingAdd

(* propose_project.                                                        *)
LEMMA ProjectProposeIs ==
    ASSUME ProjectVotes!Propose
    PROVE  PP!Propose
  BY Zenon DEF ProjectVotes!Propose, ProjectVotes!Cardinality, ProjectVotes!ProposeProject,
       ProjectVotes!IsFiniteSet, ProjectVotes!ProposeProjectAccounts,
       ProjectVotes!ValidProjectArguments, ProjectVotes!IsValidContributor,
       ProjectVotes!HasEnoughTokensToVote, ProjectVotes!StoreAccount,
       ProjectVotes!SaturatingAdd, ProjectVotes!projectVars, ProjectVotes!ValidateThreshold,
       ProjectVotes!ValidateValidityPeriod, ProjectVotes!Contributors, ProjectVotes!orgVars,
       PP!Propose, PP!Cardinality, PP!ProposeProject, PP!IsFiniteSet,
       PP!ProposeProjectAccounts, PP!ValidProjectArguments, PP!IsValidContributor,
       PP!HasEnoughTokensToVote, PP!StoreAccount, PP!SaturatingAdd, PP!projectVars,
       PP!ValidateThreshold, PP!ValidateValidityPeriod, PP!Contributors, PP!orgVars

(* vote_on_project_proposal.                                               *)
LEMMA ProjectVoteIs ==
    ASSUME ProjectVotes!Vote
    PROVE  PP!Vote
  BY Zenon DEF ProjectVotes!Vote, ProjectVotes!VoteOnProjectProposal,
       ProjectVotes!VoteOnProjectProposalAccounts, ProjectVotes!WithVote,
       ProjectVotes!IsValidContributor, ProjectVotes!HasEnoughTokensToVote,
       ProjectVotes!HasVoted, ProjectVotes!IsProposalExpired, ProjectVotes!Cardinality,
       ProjectVotes!CreateProjectAccount, ProjectVotes!GetUuidFromPubkey, ProjectVotes!orgVars,
       ProjectVotes!UpdateProposalStatus, ProjectVotes!ContributorCount,
       ProjectVotes!Contributors, ProjectVotes!IsFiniteSet, ProjectVotes!StoreAccount,
       ProjectVotes!NewProject, ProjectVotes!MeetsQuorumRequirement,
       ProjectVotes!HasReachedThreshold, ProjectVotes!SaturatingAdd, PP!Vote,
       PP!VoteOnProjectProposal, PP!VoteOnProjectProposalAccounts, PP!WithVote,
       PP!IsValidContributor, PP!HasEnoughTokensToVote, PP!HasVoted, PP!IsProposalExpired,
       PP!Cardinality, PP!CreateProjectAccount, PP!GetUuidFromPubkey, PP!orgVars,
       PP!UpdateProposalStatus, PP!ContributorCount, PP!Contributors, PP!IsFiniteSet,
       PP!StoreAccount, PP!NewProject, PP!MeetsQuorumRequirement, PP!HasReachedThreshold,
       PP!SaturatingAdd

(* create_project.                                                         *)
LEMMA ProjectCreateIs ==
    ASSUME ProjectVotes!Create
    PROVE  PP!Create
  BY Zenon DEF ProjectVotes!Create, ProjectVotes!Cardinality, ProjectVotes!ProposalAddresses,
       ProjectVotes!CreateProject, ProjectVotes!IsFiniteSet,
       ProjectVotes!CreateProjectAccounts, ProjectVotes!IsValidContributor,
       ProjectVotes!CreateProjectAccount, ProjectVotes!orgVars, ProjectVotes!Contributors,
       ProjectVotes!StoreAccount, ProjectVotes!NewProject, ProjectVotes!SaturatingAdd,
       PP!Create, PP!Cardinality, PP!ProposalAddresses, PP!CreateProject, PP!IsFiniteSet,
       PP!CreateProjectAccounts, PP!IsValidContributor, PP!CreateProjectAccount, PP!orgVars,
       PP!Contributors, PP!StoreAccount, PP!NewProject, PP!SaturatingAdd

(* A project that a vote opens is one that tasks may be proposed in.       *)
LEMMA ProjectOpeningIs ==
    ASSUME PP!OpenSomeProject
    PROVE  WP!StartProject
  BY Zenon DEF PP!OpenSomeProject, PP!ProposalAddresses, PP!OpenProject,
       PP!ValidProjectArguments, PP!StoreAccount, PP!NewProject, PP!orgVars,
       PP!ValidateThreshold, PP!ValidateValidityPeriod, PP!IsValidContributor,
       PP!SaturatingAdd, PP!Contributors, WP!StartProject, WP!ProposalAddresses,
       WP!OpenProject, WP!ValidProjectArguments, WP!StoreAccount, WP!NewProject, WP!orgVars,
       WP!ValidateThreshold, WP!ValidateValidityPeriod, WP!IsValidContributor,
       WP!SaturatingAdd, WP!Contributors

(* Registries, deposits and token accounts.                                *)
LEMMA FundingIs ==
    ASSUME Fund
    PROVE  TP!Fund /\ WP!Fund
  BY Zenon DEF Fund, OpenTokenAccount, InitializeTreasuryRegistry, RegisterTreasuryToken,
       DepositToTreasury, InitializeAccount, orgVars, InitializeTreasuryRegistryAccounts,
       StoreAccount, RegisterTreasuryTokenAccounts, WithEntry, DepositToTreasuryAccounts,
       TokenRegistered, TransferTokens, IsValidContributor, IsTreasuryAccount, Contributors,
       TP!Fund, TP!OpenTokenAccount, TP!InitializeTreasuryRegistry, TP!RegisterTreasuryToken,
       TP!DepositToTreasury, TP!InitializeAccount, TP!orgVars,
       TP!InitializeTreasuryRegistryAccounts, TP!StoreAccount,
       TP!RegisterTreasuryTokenAccounts, TP!WithEntry, TP!DepositToTreasuryAccounts,
       TP!TokenRegistered, TP!TransferTokens, TP!IsValidContributor, TP!IsTreasuryAccount,
       TP!Contributors, WP!Fund, WP!OpenTokenAccount, WP!InitializeTreasuryRegistry,
       WP!RegisterTreasuryToken, WP!DepositToTreasury, WP!InitializeAccount, WP!orgVars,
       WP!InitializeTreasuryRegistryAccounts, WP!StoreAccount,
       WP!RegisterTreasuryTokenAccounts, WP!WithEntry, WP!DepositToTreasuryAccounts,
       WP!TokenRegistered, WP!TransferTokens, WP!IsValidContributor, WP!IsTreasuryAccount,
       WP!Contributors

(* propose_funds_transfer.                                                 *)
LEMMA TransferProposeIs ==
    ASSUME Transfers!Propose
    PROVE  TP!Propose
  BY Zenon DEF Transfers!Propose, Transfers!Cardinality, Transfers!ProposeFundsTransfer,
       Transfers!IsFiniteSet, Transfers!ProposeFundsTransferAccounts,
       Transfers!IsValidContributor, Transfers!HasEnoughTokensToVote,
       Transfers!TokenRegistered, Transfers!StoreAccount, Transfers!SaturatingAdd,
       Transfers!treasuryVars, Transfers!IsTreasuryAccount, Transfers!Contributors,
       Transfers!orgVars, TP!Propose, TP!Cardinality, TP!ProposeFundsTransfer, TP!IsFiniteSet,
       TP!ProposeFundsTransferAccounts, TP!IsValidContributor, TP!HasEnoughTokensToVote,
       TP!TokenRegistered, TP!StoreAccount, TP!SaturatingAdd, TP!treasuryVars,
       TP!IsTreasuryAccount, TP!Contributors, TP!orgVars

(* vote_on_funds_transfer_proposal.                                        *)
LEMMA TransferVoteIs ==
    ASSUME Transfers!Vote
    PROVE  TP!Vote
  BY Zenon DEF Transfers!Vote, Transfers!VoteOnFundsTransferProposal,
       Transfers!VoteOnFundsTransferProposalAccounts, Transfers!WithVote,
       Transfers!IsValidContributor, Transfers!HasEnoughTokensToVote,
       Transfers!IsProposalExpired, Transfers!HasAlreadyVoted, Transfers!Cardinality,
       Transfers!ExecuteTransfer, Transfers!orgVars, Transfers!IsTreasuryAccount,
       Transfers!UpdateProposalStatus, Transfers!ContributorCount, Transfers!Contributors,
       Transfers!IsFiniteSet, Transfers!TransferTokens, Transfers!MeetsQuorumRequirement,
       Transfers!HasReachedThreshold, TP!Vote, TP!VoteOnFundsTransferProposal,
       TP!VoteOnFundsTransferProposalAccounts, TP!WithVote, TP!IsValidContributor,
       TP!HasEnoughTokensToVote, TP!IsProposalExpired, TP!HasAlreadyVoted, TP!Cardinality,
       TP!ExecuteTransfer, TP!orgVars, TP!IsTreasuryAccount, TP!UpdateProposalStatus,
       TP!ContributorCount, TP!Contributors, TP!IsFiniteSet, TP!TransferTokens,
       TP!MeetsQuorumRequirement, TP!HasReachedThreshold

(* execute_funds_transfer.                                                 *)
LEMMA TransferExecuteIs ==
    ASSUME Transfers!Execute
    PROVE  TP!Execute
  BY Zenon DEF Transfers!Execute, Transfers!ExecuteFundsTransfer,
       Transfers!ExecuteFundsTransferAccounts, Transfers!IsValidContributor,
       Transfers!ExecuteTransfer, Transfers!orgVars, Transfers!IsTreasuryAccount,
       Transfers!Contributors, Transfers!TransferTokens, TP!Execute, TP!ExecuteFundsTransfer,
       TP!ExecuteFundsTransferAccounts, TP!IsValidContributor, TP!ExecuteTransfer, TP!orgVars,
       TP!IsTreasuryAccount, TP!Contributors, TP!TransferTokens

(* propose_task.                                                           *)
LEMMA TaskProposeIs ==
    ASSUME Work!Propose
    PROVE  WP!Propose
  BY Zenon DEF Work!Propose, Work!Cardinality, Work!TaskAddresses, Work!ProposeTask,
       Work!IsFiniteSet, Work!ProjectAddresses, Work!ProposeTaskAccounts, Work!TokenRegistered,
       Work!OrganizationOf, Work!HasEnoughTokensToVote, Work!StoreAccount, Work!treasuryVars,
       Work!ProposalAddresses, Work!IsTreasuryAccount, Work!orgVars, WP!Propose,
       WP!Cardinality, WP!TaskAddresses, WP!ProposeTask, WP!IsFiniteSet, WP!ProjectAddresses,
       WP!ProposeTaskAccounts, WP!TokenRegistered, WP!OrganizationOf, WP!HasEnoughTokensToVote,
       WP!StoreAccount, WP!treasuryVars, WP!ProposalAddresses, WP!IsTreasuryAccount, WP!orgVars

(* vote_on_task_proposal.                                                  *)
LEMMA TaskVoteIs ==
    ASSUME Work!Vote
    PROVE  WP!Vote
  BY Zenon DEF Work!Vote, Work!TaskAddresses, Work!VoteOnTaskProposal, Work!ProjectAddresses,
       Work!VoteOnTaskProposalAccounts, Work!WithVote, Work!AlreadyVoted,
       Work!HasEnoughTokensToVote, Work!OrganizationOf, Work!CreateTaskAndVault,
       Work!StoreAccount, Work!VaultTokenAccountFor, Work!orgVars, Work!ProposalAddresses,
       Work!IsProjectMember, Work!IsOpen, Work!IsTreasuryAccount, Work!VaultMintMatches,
       Work!TaskStatusAfter, Work!FundVault, Work!Members, Work!Cardinality, Work!IsFiniteSet,
       WP!Vote, WP!TaskAddresses, WP!VoteOnTaskProposal, WP!ProjectAddresses,
       WP!VoteOnTaskProposalAccounts, WP!WithVote, WP!AlreadyVoted, WP!HasEnoughTokensToVote,
       WP!OrganizationOf, WP!CreateTaskAndVault, WP!StoreAccount, WP!VaultTokenAccountFor,
       WP!orgVars, WP!ProposalAddresses, WP!IsProjectMember, WP!IsOpen, WP!IsTreasuryAccount,
       WP!VaultMintMatches, WP!TaskStatusAfter, WP!FundVault, WP!Members, WP!Cardinality,
       WP!IsFiniteSet

(* complete_task.                                                          *)
LEMMA TaskCompleteIs ==
    ASSUME Work!Complete
    PROVE  WP!Complete
  BY Zenon DEF Work!Complete, Work!CompleteTask, Work!CompleteTaskAccounts, Work!treasuryVars,
       Work!HasStatus, Work!orgVars, WP!Complete, WP!CompleteTask, WP!CompleteTaskAccounts,
       WP!treasuryVars, WP!HasStatus, WP!orgVars

(* enable_task_vault_withdrawal.                                           *)
LEMMA TaskReviewIs ==
    ASSUME Work!Review
    PROVE  WP!Review
  BY Zenon DEF Work!Review, Work!EnableTaskVaultWithdrawal,
       Work!EnableTaskVaultWithdrawalAccounts, Work!orgVars, Work!HasStatus, Work!MayReview,
       Work!IsProjectMember, Work!Members, WP!Review, WP!EnableTaskVaultWithdrawal,
       WP!EnableTaskVaultWithdrawalAccounts, WP!orgVars, WP!HasStatus, WP!MayReview,
       WP!IsProjectMember, WP!Members

(* Transfers and tasks ask the same of the treasury they share.            *)
LEMMA TreasuryInvIs ==
    TP!TreasuryInv' <=> WP!TreasuryInv'
  BY Zenon DEF TP!TreasuryInv, TP!OrgInv, TP!TreasuryTypeOK, TP!RegistrySound,
       TP!OrganizationAccount, TP!ValidateParameters, TP!RegistryEntry, TP!TokenAccount,
       TP!IsTreasuryAccount, TP!Parameters, TP!ValidateThreshold, TP!ValidateValidityPeriod,
       WP!TreasuryInv, WP!OrgInv, WP!TreasuryTypeOK, WP!RegistrySound, WP!OrganizationAccount,
       WP!ValidateParameters, WP!RegistryEntry, WP!TokenAccount, WP!IsTreasuryAccount,
       WP!Parameters, WP!ValidateThreshold, WP!ValidateValidityPeriod

(* They keep the same of its accounts.                                     *)
LEMMA AccountsStayIs ==
    ASSUME WP!OrgsStay, WP!AccountsStay
    PROVE  TP!OrgsStay /\ TP!AccountsStay
  BY Zenon DEF WP!OrgsStay, WP!AccountsStay, WP!Contributors, TP!OrgsStay, TP!AccountsStay,
       TP!Contributors

(* The type invariants.                                                    *)
LEMMA TypesAre ==
    ASSUME EP!TypeOK, PP!TypeOK, TP!TypeOK, WP!TypeOK
    PROVE  Elections!TypeOK /\ ProjectVotes!TypeOK /\ Transfers!TypeOK /\ Work!TypeOK
  BY Zenon DEF Elections!TypeOK, Elections!OrganizationAccount, Elections!ContributorAccount,
       Elections!Addresses, Elections!ContributorProposal, Elections!Parameters,
       Elections!ProposalStatus, EP!TypeOK, EP!OrganizationAccount, EP!ContributorAccount,
       EP!Addresses, EP!ContributorProposal, EP!Parameters, EP!ProposalStatus,
       ProjectVotes!TypeOK, ProjectVotes!ProjectsTypeOK, ProjectVotes!ProposalAddresses,
       ProjectVotes!ProjectProposal, ProjectVotes!ProjectAddresses, ProjectVotes!Project,
       ProjectVotes!ProposalStatus, PP!TypeOK, PP!ProjectsTypeOK, PP!ProposalAddresses,
       PP!ProjectProposal, PP!ProjectAddresses, PP!Project, PP!ProposalStatus,
       Transfers!TypeOK, Transfers!TreasuryTypeOK, Transfers!Addresses,
       Transfers!TreasuryTransferProposal, Transfers!RegistryEntry, Transfers!TokenAccount,
       Transfers!ProposalStatus, TP!TypeOK, TP!TreasuryTypeOK, TP!Addresses,
       TP!TreasuryTransferProposal, TP!RegistryEntry, TP!TokenAccount, TP!ProposalStatus,
       Work!TypeOK, Work!TreasuryTypeOK, Work!ProjectsTypeOK, Work!TaskAddresses,
       Work!TaskProposal, Work!Task, Work!TaskVault, Work!VaultTokenAccount,
       Work!RegistryEntry, Work!TokenAccount, Work!ProjectAddresses, Work!Project,
       Work!ProposalStatus, Work!TaskStatus, Work!ProposalAddresses, WP!TypeOK,
       WP!TreasuryTypeOK, WP!ProjectsTypeOK, WP!TaskAddresses, WP!TaskProposal, WP!Task,
       WP!TaskVault, WP!VaultTokenAccount, WP!RegistryEntry, WP!TokenAccount,
       WP!ProjectAddresses, WP!Project, WP!ProposalStatus, WP!TaskStatus, WP!ProposalAddresses

(* What the decisions to spend are owed.                                   *)
LEMMA FundingIsKept ==
    ASSUME TP!ApprovedIsPaid, WP!VaultsCoverTasks
    PROVE  Transfers!ApprovedIsPaid /\ Work!VaultsCoverTasks
  BY Zenon DEF Transfers!ApprovedIsPaid, TP!ApprovedIsPaid, Work!VaultsCoverTasks,
       WP!VaultsCoverTasks

(* What a registry owes.                                                   *)
LEMMA RegistriesAre ==
    ASSUME TP!RegistrySound
    PROVE  RegistrySound
  BY Zenon DEF TP!RegistrySound, TP!IsTreasuryAccount, RegistrySound, IsTreasuryAccount

(* A transfer of tokens, whoever orders it.                                *)
LEMMA TransferTokensIs ==
    ASSUME NEW from, NEW to, NEW amount, TP!TransferTokens(from, to, amount)
    PROVE  WP!TransferTokens(from, to, amount)
  BY Zenon DEF TP!TransferTokens, WP!TransferTokens

(* What is held together.                                                  *)
LEMMA SupplyIs ==
    ASSUME WP!SupplyConserved
    PROVE  SupplyConserved
  BY Zenon DEF SupplyConserved, WP!SupplyConserved, WP!Held, WP!MapThenSumSet,
       WP!MapThenFoldSet, Work!SupplyConserved, Work!Held, Work!MapThenSumSet,
       Work!MapThenFoldSet

-----------------------------------------------------------------------------
(* A finite set is one to every component.                                 *)
LEMMA FiniteIs ==
    ASSUME NEW S, IsFiniteSet(S)
    PROVE  EP!IsFiniteSet(S) /\ PP!IsFiniteSet(S) /\ TP!IsFiniteSet(S) /\ WP!IsFiniteSet(S)
  BY Zenon DEF IsFiniteSet, EP!IsFiniteSet, PP!IsFiniteSet, TP!IsFiniteSet, WP!IsFiniteSet

(* What the components assume of the constants follows from what the       *)
(* program assumes.                                                        *)
LEMMA AssumptionsMet ==
    /\ EP!I64MaxAssumption /\ EP!OrganizationAssumption /\ EP!TreasuryAssumption
    /\ EP!GovernanceAssumption
    /\ PP!I64MaxAssumption /\ PP!OrganizationAssumption /\ PP!TreasuryAssumption
    /\ PP!ProjectsAssumption /\ PP!ProjectGovernanceAssumption
    /\ TP!I64MaxAssumption /\ TP!OrganizationAssumption /\ TP!TreasuryAssumption
    /\ TP!TransfersAssumption
    /\ WP!I64MaxAssumption /\ WP!OrganizationAssumption /\ WP!TreasuryAssumption
    /\ WP!ProjectsAssumption /\ WP!TaskVaultsAssumption
  BY I64MaxAssumption, OrganizationAssumption, TreasuryAssumption, ProjectsAssumption,
     ProgramAssumption, FiniteIs
  DEF Parameters, TokenAccount, EP!Parameters, EP!TokenAccount, PP!Parameters, PP!TokenAccount,
      TP!Parameters, TP!TokenAccount, WP!Parameters, WP!TokenAccount

-----------------------------------------------------------------------------
(***************************************************************************)
(* The composition.                                                        *)
(***************************************************************************)
ProgramInv ==
    /\ EP!ElectionInv
    /\ PP!ProjectInv
    /\ TP!TransferInv
    /\ WP!TaskInv
    /\ MetadataTypeOK

(* The tokens of an organization go, if they go, where a decision says. *)
SpendsByDecision ==
    \A key \in DOMAIN token_accounts :
        token_accounts[key].owner \in Orgs
          /\ token_accounts'[key].amount < token_accounts[key].amount
        => \/ \E a \in DOMAIN transfer_proposals : Transfers!Pays(a, key)
           \/ \E a \in DOMAIN task_proposals : FundsTask(a, key)

(* Before there are accounts the invariant holds.                          *)
THEOREM ProgramInit == Init => ProgramInv
  <1> SUFFICES ASSUME Init PROVE ProgramInv
    OBVIOUS
  <1>1. EP!ElectionInv
    BY ElectionsStart, AssumptionsMet, EP!ElectionInit DEF Init
  <1>2. PP!ProjectInv
    BY ProjectsStart, AssumptionsMet, PP!ProjectInit DEF Init
  <1>3. TP!TransferInv
    BY TransfersStart, AssumptionsMet, TP!TransferInit DEF Init
  <1>4. WP!TaskInv
    BY TasksStart, AssumptionsMet, WP!TaskInit DEF Init
  <1>5. MetadataTypeOK
    BY DEF Init, MetadataInit, MetadataTypeOK, EmptyMap
  <1> QED
    BY <1>1, <1>2, <1>3, <1>4, <1>5 DEF ProgramInv

(* Only elections and administration touch an organization.                *)
LEMMA OrganizationsRest ==
    ASSUME PlanProjects \/ FillTreasury \/ Transfer \/ DoTasks \/ DescribeOrganization
    PROVE  UNCHANGED <<now, organization, contributor, contributor_proposals>>
  <1>1. CASE PlanProjects
    <2>1. CASE ProjectVotes!Propose
      BY <1>1, <2>1 DEF PlanProjects, ProjectVotes!Propose, ProjectVotes!ProposeProject,
                        ProjectVotes!projectVars, ProjectVotes!orgVars
    <2>2. CASE ProjectVotes!Vote
      BY <1>1, <2>2 DEF PlanProjects, ProjectVotes!Vote, ProjectVotes!VoteOnProjectProposal,
                        ProjectVotes!orgVars
    <2>3. CASE ProjectVotes!Create
      BY <1>1, <2>3 DEF PlanProjects, ProjectVotes!Create, ProjectVotes!CreateProject,
                        ProjectVotes!orgVars
    <2> QED
      BY <1>1, <2>1, <2>2, <2>3 DEF PlanProjects
  <1>2. CASE FillTreasury
    BY <1>2 DEF FillTreasury, Fund, OpenTokenAccount, InitializeTreasuryRegistry,
                RegisterTreasuryToken, DepositToTreasury, orgVars
  <1>3. CASE Transfer
    <2>1. CASE Transfers!Propose
      BY <1>3, <2>1 DEF Transfer, Transfers!Propose, Transfers!ProposeFundsTransfer,
                        Transfers!treasuryVars, Transfers!orgVars
    <2>2. CASE Transfers!Vote
      BY <1>3, <2>2 DEF Transfer, Transfers!Vote, Transfers!VoteOnFundsTransferProposal,
                        Transfers!orgVars
    <2>3. CASE Transfers!Execute
      BY <1>3, <2>3 DEF Transfer, Transfers!Execute, Transfers!ExecuteFundsTransfer,
                        Transfers!orgVars
    <2> QED
      BY <1>3, <2>1, <2>2, <2>3 DEF Transfer
  <1>4. CASE DoTasks
    <2>1. CASE Work!Propose
      BY <1>4, <2>1 DEF DoTasks, Work!Propose, Work!ProposeTask, Work!treasuryVars, Work!orgVars
    <2>2. CASE Work!Vote
      BY <1>4, <2>2 DEF DoTasks, Work!Vote, Work!VoteOnTaskProposal, Work!orgVars
    <2>3. CASE Work!Complete
      BY <1>4, <2>3 DEF DoTasks, Work!Complete, Work!CompleteTask, Work!treasuryVars, Work!orgVars
    <2>4. CASE Work!Review
      BY <1>4, <2>4 DEF DoTasks, Work!Review, Work!EnableTaskVaultWithdrawal, Work!orgVars
    <2> QED
      BY <1>4, <2>1, <2>2, <2>3, <2>4 DEF DoTasks
  <1>5. CASE DescribeOrganization
    BY <1>5 DEF DescribeOrganization, Describe, InitializeOrganizationMetadata,
                UpdateOrganizationMetadata, orgVars
  <1> QED
    BY <1>1, <1>2, <1>3, <1>4, <1>5

(* Only elections, administration and votes on projects touch a project.   *)
LEMMA ProjectsRest ==
    ASSUME FillTreasury \/ Transfer \/ DoTasks \/ DescribeOrganization
    PROVE  UNCHANGED <<projects, project_proposals>>
  <1>1. CASE FillTreasury \/ Transfer \/ DescribeOrganization
    BY <1>1 DEF FillTreasury, Transfer, DescribeOrganization
  <1>2. CASE DoTasks
    <2>1. CASE Work!Propose
      BY <1>2, <2>1 DEF DoTasks, Work!Propose, Work!ProposeTask
    <2>2. CASE Work!Vote
      BY <1>2, <2>2 DEF DoTasks, Work!Vote, Work!VoteOnTaskProposal
    <2>3. CASE Work!Complete
      BY <1>2, <2>3 DEF DoTasks, Work!Complete, Work!CompleteTask
    <2>4. CASE Work!Review
      BY <1>2, <2>4 DEF DoTasks, Work!Review, Work!EnableTaskVaultWithdrawal
    <2> QED
      BY <1>2, <2>1, <2>2, <2>3, <2>4 DEF DoTasks
  <1> QED
    BY <1>1, <1>2

(* A step of an organization, or none, as the other components see it.     *)
LEMMA OrganizationMoves ==
    ASSUME ProgramInv, [EP!OrgNext]_<<now, organization, contributor>>,
           UNCHANGED <<token_registry, token_accounts, projects, metadata, project_proposals,
                       transferVars, taskVars>>
    PROVE  /\ PP!ProjectInv' /\ TP!TransferInv' /\ WP!TaskInv' /\ MetadataTypeOK'
           /\ TP!SpentByDecision
  <1>1. /\ [PP!OrgNext]_PP!orgVars
        /\ [TP!TreasuryNext]_TP!treasuryVars
        /\ [WP!Next]_WP!vars
    BY OrganizationStepIs
    DEF PP!orgVars, TP!TreasuryNext, TP!treasuryVars, TP!orgVars, WP!Next, WP!TreasuryNext,
        WP!vars, WP!treasuryVars, WP!orgVars, WP!taskVars, taskVars
  <1>2. PP!ProjectInv'
    BY <1>1, AssumptionsMet, PP!OrgStepProjects DEF ProgramInv
  <1>3. TP!TransferInv' /\ TP!SpentByDecision
    BY <1>1, AssumptionsMet, TP!TreasuryStepTransfers DEF ProgramInv, transferVars
  <1>4. WP!TaskInv'
    BY <1>1, AssumptionsMet, WP!TaskStep DEF ProgramInv
  <1>5. PP!OrgsStay
    BY <1>1, AssumptionsMet, PP!OrgStepOK DEF ProgramInv, PP!ProjectInv
  <1>6. MetadataTypeOK'
    BY <1>5 DEF ProgramInv, MetadataTypeOK, PP!OrgsStay
  <1> QED
    BY <1>2, <1>3, <1>4, <1>6

(* What a transfer names and pays is the same to the program.              *)
LEMMA TransfersSpend ==
    ASSUME TP!SpentByDecision
    PROVE  SpendsByDecision
  BY DEF TP!SpentByDecision, SpendsByDecision, TP!Pays, Transfers!Pays

(* What a task is paid is, too.                                            *)
LEMMA TasksSpend ==
    ASSUME WP!SpentOnTasks
    PROVE  SpendsByDecision
  BY DEF WP!SpentOnTasks, SpendsByDecision, WP!Funds, FundsTask, WP!OrganizationOf,
         Work!OrganizationOf

(* Elections and the administration of organizations: the other components *)
(* see a step of an organization.                                          *)
LEMMA ElectKeeps ==
    ASSUME ProgramInv, Elect
    PROVE  ProgramInv' /\ SpendsByDecision
  <1>1. [EP!Next]_EP!vars
    BY AdministrationIs, ElectionProposeIs, ElectionVoteIs DEF Elect, EP!Next
  <1>2. EP!ElectionInv' /\ [EP!OrgNext]_EP!orgVars
    BY <1>1, AssumptionsMet, EP!ElectionStep, EP!ElectionOrgStep DEF ProgramInv
  <1>3. /\ PP!ProjectInv' /\ TP!TransferInv' /\ WP!TaskInv' /\ MetadataTypeOK'
        /\ TP!SpentByDecision
    BY <1>2, OrganizationMoves DEF Elect, EP!orgVars
  <1> QED
    BY <1>2, <1>3, TransfersSpend DEF ProgramInv

(* Votes on projects: tasks see a project opened, or nothing.              *)
LEMMA PlanProjectsKeeps ==
    ASSUME ProgramInv, PlanProjects
    PROVE  ProgramInv' /\ SpendsByDecision
  <1>1. PP!Next
    BY ProjectProposeIs, ProjectVoteIs, ProjectCreateIs DEF PlanProjects, PP!Next
  <1>2. UNCHANGED <<now, organization, contributor, contributor_proposals>>
    BY OrganizationsRest
  <1>3. /\ UNCHANGED <<token_registry, token_accounts, metadata, contributor_proposals>>
        /\ UNCHANGED <<transfer_proposals, transfers_executed>>
        /\ UNCHANGED <<task_proposals, tasks, task_vaults, vault_token_accounts>>
    BY DEF PlanProjects, transferVars, taskVars
  <1>4. EP!ElectionInv'
    <2>1. UNCHANGED EP!vars
      BY <1>2, <1>3 DEF EP!vars, EP!orgVars
    <2> QED
      BY <2>1, AssumptionsMet, EP!ElectionStep DEF ProgramInv
  <1>5. PP!ProjectInv' /\ [PP!ProjectsNext]_PP!projectVars
    BY <1>1, AssumptionsMet, PP!ProjectStep, PP!ProjectsProjectStep DEF ProgramInv
  <1>6. TP!TransferInv' /\ TP!SpentByDecision
    <2>1. UNCHANGED TP!treasuryVars
      BY <1>2, <1>3 DEF TP!treasuryVars, TP!orgVars
    <2> QED
      BY <1>3, <2>1, AssumptionsMet, TP!TreasuryStepTransfers DEF ProgramInv
  <1>7. WP!TaskInv'
    <2>1. PP!OpenSomeProject \/ UNCHANGED projects
      BY <1>5 DEF PP!ProjectsNext, PP!OpenSomeProject, PP!projectVars
    <2>2. [WP!Next]_WP!vars
      BY <1>2, <1>3, <2>1, ProjectOpeningIs
      DEF WP!Next, WP!vars, WP!treasuryVars, WP!orgVars, WP!taskVars
    <2> QED
      BY <2>2, AssumptionsMet, WP!TaskStep DEF ProgramInv
  <1>8. MetadataTypeOK'
    BY <1>2, <1>3 DEF ProgramInv, MetadataTypeOK
  <1> QED
    BY <1>4, <1>5, <1>6, <1>7, <1>8, TransfersSpend DEF ProgramInv

(* Steps that leave elections, projects and descriptions alone.            *)
LEMMA OthersRest ==
    ASSUME ProgramInv, UNCHANGED <<now, organization, contributor, projects, metadata>>,
           UNCHANGED <<contributor_proposals, project_proposals>>
    PROVE  EP!ElectionInv' /\ PP!ProjectInv' /\ MetadataTypeOK'
  <1>1. UNCHANGED EP!vars /\ UNCHANGED PP!vars
    BY DEF EP!vars, EP!orgVars, PP!vars, PP!projectVars, PP!orgVars
  <1>2. EP!ElectionInv' /\ PP!ProjectInv'
    BY <1>1, AssumptionsMet, EP!ElectionStep, PP!ProjectStep DEF ProgramInv
  <1> QED
    BY <1>2 DEF ProgramInv, MetadataTypeOK

(* Deposits, registries and accounts: everything else is left alone.       *)
LEMMA FillTreasuryKeeps ==
    ASSUME ProgramInv, FillTreasury
    PROVE  ProgramInv' /\ SpendsByDecision
  <1>1. TP!TreasuryNext /\ WP!TreasuryNext
    BY FundingIs DEF FillTreasury, TP!TreasuryNext, WP!TreasuryNext
  <1>2. UNCHANGED <<now, organization, contributor, contributor_proposals>>
    BY OrganizationsRest
  <1>3. /\ UNCHANGED <<projects, metadata, contributor_proposals, project_proposals>>
        /\ UNCHANGED <<transfer_proposals, transfers_executed>>
        /\ UNCHANGED <<projects, WP!taskVars>>
    BY DEF FillTreasury, transferVars, taskVars, WP!taskVars
  <1>4. EP!ElectionInv' /\ PP!ProjectInv' /\ MetadataTypeOK'
    BY <1>2, <1>3, OthersRest
  <1>5. TP!TransferInv' /\ TP!SpentByDecision
    BY <1>1, <1>3, AssumptionsMet, TP!TreasuryStepTransfers DEF ProgramInv
  <1>6. WP!TaskInv'
    BY <1>1, <1>3, AssumptionsMet, WP!TaskStep DEF ProgramInv, WP!Next
  <1> QED
    BY <1>4, <1>5, <1>6, TransfersSpend DEF ProgramInv

(* Transfers: tasks see a treasury that somebody else spends.              *)
LEMMA TransferKeeps ==
    ASSUME ProgramInv, Transfer
    PROVE  ProgramInv' /\ SpendsByDecision
  <1>1. TP!Next
    BY TransferProposeIs, TransferVoteIs, TransferExecuteIs DEF Transfer, TP!Next
  <1>2. UNCHANGED <<now, organization, contributor, contributor_proposals>>
    BY OrganizationsRest
  <1>3. /\ UNCHANGED <<projects, metadata, contributor_proposals, project_proposals>>
        /\ UNCHANGED WP!taskVars
    BY DEF Transfer, taskVars, WP!taskVars
  <1>4. EP!ElectionInv' /\ PP!ProjectInv' /\ MetadataTypeOK'
    BY <1>2, <1>3, OthersRest
  <1>5. TP!TransferInv' /\ TP!SpentByDecision
    BY <1>1, AssumptionsMet, TP!TransferStep DEF ProgramInv
  <1>6. WP!TreasuryInv'
    BY <1>5, TreasuryInvIs DEF TP!TransferInv
  <1>7. WP!ProjectsTypeOK' /\ WP!ProjectsStay
    BY <1>3 DEF ProgramInv, WP!TaskInv, WP!TypeOK, WP!ProjectsTypeOK, WP!ProjectsStay
  <1>8. WP!TaskInv'
    BY <1>3, <1>6, <1>7, AssumptionsMet, WP!EnvironmentKeeps DEF ProgramInv
  <1> QED
    BY <1>4, <1>5, <1>8, TransfersSpend DEF ProgramInv

(* Tasks: transfers see a treasury that somebody else spends.              *)
LEMMA DoTasksKeeps ==
    ASSUME ProgramInv, DoTasks
    PROVE  ProgramInv' /\ SpendsByDecision
  <1>1. WP!Propose \/ WP!Vote \/ WP!Complete \/ WP!Review
    BY TaskProposeIs, TaskVoteIs, TaskCompleteIs, TaskReviewIs DEF DoTasks
  <1>2. /\ UNCHANGED <<now, organization, contributor, contributor_proposals>>
        /\ UNCHANGED <<projects, project_proposals>>
    BY OrganizationsRest, ProjectsRest
  <1>3. /\ UNCHANGED <<metadata, contributor_proposals, project_proposals>>
        /\ UNCHANGED <<transfer_proposals, transfers_executed>>
    BY DEF DoTasks, transferVars
  <1>4. EP!ElectionInv' /\ PP!ProjectInv' /\ MetadataTypeOK'
    BY <1>2, <1>3, OthersRest
  <1>5. WP!TaskInv'
    BY <1>1, AssumptionsMet, WP!TaskStep DEF ProgramInv, WP!Next
  <1>6. WP!OrgsStay /\ WP!AccountsStay /\ WP!SpentOnTasks
    BY <1>1, AssumptionsMet, WP!TasksSpend DEF ProgramInv
  <1>7. TP!TransferInv'
    <2>1. TP!TreasuryInv'
      BY <1>5, TreasuryInvIs DEF WP!TaskInv
    <2>2. TP!OrgsStay /\ TP!AccountsStay
      BY <1>6, AccountsStayIs
    <2> QED
      BY <1>3, <2>1, <2>2, AssumptionsMet, TP!TransfersUndisturbed DEF ProgramInv
  <1> QED
    BY <1>4, <1>5, <1>6, <1>7, TasksSpend DEF ProgramInv

(* Descriptions: everything else is left alone, and a stored description   *)
(* fits its account.                                                       *)
LEMMA DescribeKeeps ==
    ASSUME ProgramInv, DescribeOrganization
    PROVE  ProgramInv' /\ SpendsByDecision
  <1>1. UNCHANGED <<now, organization, contributor, contributor_proposals>>
    BY OrganizationsRest
  <1>2. /\ UNCHANGED <<token_registry, token_accounts, projects, contributor_proposals>>
        /\ UNCHANGED <<project_proposals, transfer_proposals, transfers_executed>>
        /\ UNCHANGED WP!taskVars
    BY DEF DescribeOrganization, transferVars, taskVars, WP!taskVars
  <1>3. /\ UNCHANGED EP!vars /\ UNCHANGED PP!vars /\ UNCHANGED TP!vars /\ UNCHANGED WP!vars
    BY <1>1, <1>2 DEF EP!vars, EP!orgVars, PP!vars, PP!projectVars, PP!orgVars, TP!vars,
       TP!treasuryVars, TP!orgVars, WP!vars, WP!treasuryVars, WP!orgVars, WP!taskVars
  <1>4. EP!ElectionInv' /\ PP!ProjectInv'
    BY <1>3, AssumptionsMet, EP!ElectionStep, PP!ProjectStep DEF ProgramInv
  <1>5. TP!TransferInv' /\ TP!SpentByDecision /\ WP!TaskInv'
    BY <1>3, AssumptionsMet, TP!TransferStep, WP!TaskStep DEF ProgramInv
  <1>6. MetadataTypeOK'
    <2>1. PICK o \in DOMAIN organization, texts \in Texts :
            /\ ValidTexts(texts)
            /\ \/ metadata' = StoreAccount(metadata, o, texts)
               \/ o \in DOMAIN metadata /\ metadata' = [metadata EXCEPT ![o] = texts]
      BY DEF DescribeOrganization, Describe, InitializeOrganizationMetadata,
             UpdateOrganizationMetadata
    <2>2. /\ DOMAIN metadata' = DOMAIN metadata \cup {o}
          /\ \A q \in DOMAIN metadata' : metadata'[q] = IF q = o THEN texts ELSE metadata[q]
      BY <2>1 DEF StoreAccount
    <2> QED
      BY <1>1, <2>1, <2>2 DEF ProgramInv, MetadataTypeOK, ValidTexts
  <1> QED
    BY <1>4, <1>5, <1>6, TransfersSpend DEF ProgramInv

(* Nothing at all.                                                         *)
LEMMA RestKeeps ==
    ASSUME ProgramInv, UNCHANGED vars
    PROVE  ProgramInv' /\ SpendsByDecision
  <1>1. /\ UNCHANGED <<now, organization, contributor, projects, metadata>>
        /\ UNCHANGED <<contributor_proposals, project_proposals>>
        /\ UNCHANGED TP!vars /\ UNCHANGED WP!vars
    BY DEF vars, treasuryVars, orgVars, transferVars, taskVars, TP!vars, TP!treasuryVars,
           TP!orgVars, WP!vars, WP!treasuryVars, WP!orgVars, WP!taskVars
  <1>2. EP!ElectionInv' /\ PP!ProjectInv' /\ MetadataTypeOK'
    BY <1>1, OthersRest
  <1>3. TP!TransferInv' /\ TP!SpentByDecision /\ WP!TaskInv'
    BY <1>1, AssumptionsMet, TP!TransferStep, WP!TaskStep DEF ProgramInv
  <1> QED
    BY <1>2, <1>3, TransfersSpend DEF ProgramInv

(* No step of one component breaks the invariant of another, although they *)
(* share organizations, projects and treasury accounts.                    *)
THEOREM ProgramStep == ProgramInv /\ [Next]_vars => ProgramInv' /\ SpendsByDecision
  BY ElectKeeps, PlanProjectsKeeps, FillTreasuryKeeps, TransferKeeps, DoTasksKeeps,
     DescribeKeeps, RestKeeps DEF Next

(* The invariant of the whole program holds in every reachable state.      *)
THEOREM ProgramInvariant == Spec => []ProgramInv
  BY ProgramInit, ProgramStep, PTL DEF Spec

-----------------------------------------------------------------------------
(* All accounts of the program keep their shape, whichever of the twenty   *)
(* instructions is called next.                                            *)
THEOREM ProgramTypes == Spec => []TypeOK
  <1>1. ProgramInv => TypeOK
    BY TypesAre DEF ProgramInv, EP!ElectionInv, EP!TypeInv, PP!ProjectInv, TP!TransferInv,
       WP!TaskInv, TypeOK
  <1> QED
    BY <1>1, ProgramInvariant, PTL

(* Every approved transfer has been paid and every approved task has its   *)
(* payment in its vault, although both spend one treasury                  *)
(* (vote_on_funds_transfer_proposal, vote_on_task_proposal).               *)
THEOREM ProgramDecisionsFunded == Spec => []DecisionsAreFunded
  <1>1. ProgramInv => DecisionsAreFunded
    BY FundingIsKept DEF ProgramInv, TP!TransferInv, WP!TaskInv, DecisionsAreFunded
  <1> QED
    BY <1>1, ProgramInvariant, PTL

(* Registries stay sound while transfers and tasks move the tokens.        *)
THEOREM ProgramRegistriesSound == Spec => []RegistrySound
  <1>1. ProgramInv => RegistrySound
    BY RegistriesAre DEF ProgramInv, TP!TransferInv, TP!TreasuryInv
  <1> QED
    BY <1>1, ProgramInvariant, PTL

(* Of all twenty instructions only an approved transfer and the approving  *)
(* vote on a task take tokens out of a treasury, each for its own          *)
(* organization and in its own amount.                                     *)
THEOREM ProgramSpendsByDecision == Spec => TreasurySpendsByDecision
  <1>1. ProgramInv /\ [Next]_vars => [SpendsByDecision]_vars
    BY ProgramStep
  <1> QED
    BY <1>1, ProgramInvariant, PTL DEF Spec, TreasurySpendsByDecision, SpendsByDecision

-----------------------------------------------------------------------------
(* Tokens are neither made nor lost: transfers, deposits and new accounts  *)
(* of any component are to the vaults what others do with their tokens.    *)
LEMMA SupplyMoves ==
    ASSUME ProgramInv, WP!SupplyInv, [Next]_vars
    PROVE  WP!SupplyInv'
  <1>1. CASE UNCHANGED <<token_accounts, vault_token_accounts>>
    BY <1>1, AssumptionsMet, WP!SupplyUndisturbed DEF ProgramInv
  <1>2. CASE Elect \/ PlanProjects \/ DescribeOrganization
    BY <1>1, <1>2 DEF Elect, PlanProjects, DescribeOrganization, taskVars
  <1>3. CASE FillTreasury
    <2>1. WP!Next
      BY <1>3, FundingIs
      DEF FillTreasury, taskVars, WP!taskVars, WP!Next, WP!TreasuryNext
    <2> QED
      BY <2>1, AssumptionsMet, WP!SupplyStep DEF ProgramInv
  <1>4. CASE Transfer
    <2>1. TP!Propose \/ TP!Vote \/ TP!Execute
      BY <1>4, TransferProposeIs, TransferVoteIs, TransferExecuteIs DEF Transfer
    <2>2. \/ UNCHANGED token_accounts
          \/ \E from, to : \E amount \in Nat : TP!TransferTokens(from, to, amount)
      BY <2>1, AssumptionsMet, TP!TransfersMove DEF ProgramInv
    <2>3. \/ UNCHANGED token_accounts
          \/ \E from, to : \E amount \in Nat : WP!TransferTokens(from, to, amount)
      BY <2>2, TransferTokensIs
    <2>4. UNCHANGED vault_token_accounts
      BY <1>4 DEF Transfer, taskVars
    <2> QED
      BY <2>3, <2>4, AssumptionsMet, WP!SupplyUndisturbed DEF ProgramInv
  <1>5. CASE DoTasks
    <2>1. WP!Next
      BY <1>5, TaskProposeIs, TaskVoteIs, TaskCompleteIs, TaskReviewIs DEF DoTasks, WP!Next
    <2> QED
      BY <2>1, AssumptionsMet, WP!SupplyStep DEF ProgramInv
  <1>6. CASE UNCHANGED vars
    BY <1>1, <1>6 DEF vars, treasuryVars, taskVars
  <1> QED
    BY <1>2, <1>3, <1>4, <1>5, <1>6 DEF Next

(* None of the twenty instructions makes or loses a token of any mint:     *)
(* treasuries, vaults and wallets always hold together what the wallets    *)
(* held at the start.                                                      *)
THEOREM ProgramSupplyConserved == Spec => []SupplyConserved
  <1>1. Init => ProgramInv /\ WP!SupplyInv
    BY ProgramInit, TasksStart, AssumptionsMet, WP!SupplyInit DEF Init
  <1>2. ProgramInv /\ WP!SupplyInv /\ [Next]_vars => (ProgramInv /\ WP!SupplyInv)'
    BY ProgramStep, SupplyMoves
  <1>3. WP!SupplyInv => SupplyConserved
    BY SupplyIs DEF WP!SupplyInv
  <1> QED
    BY <1>1, <1>2, <1>3, PTL DEF Spec

-----------------------------------------------------------------------------
(***************************************************************************)
(* Refinement: what is proved of elections and of votes on projects alone  *)
(* holds of the whole program.                                             *)
(***************************************************************************)
(* Whatever the rest of the program does, contributor proposals,           *)
(* organizations and contributors behave as ContributorGovernance says.    *)
THEOREM ElectionsImplemented == Spec => Elections!Spec
  <1>1. Init => Elections!Init
    BY ElectionsStart DEF Init
  <1>2. [Next]_vars => [Elections!Next]_Elections!vars
    <2> SUFFICES ASSUME [Next]_vars PROVE [Elections!Next]_Elections!vars
      OBVIOUS
    <2>1. CASE Elect
      BY <2>1, AdministrationIs DEF Elect, Elections!Next
    <2>2. CASE PlanProjects \/ FillTreasury \/ Transfer \/ DoTasks \/ DescribeOrganization
      BY <2>2, OrganizationsRest DEF Elections!vars, Elections!orgVars
    <2>3. CASE UNCHANGED vars
      BY <2>3 DEF vars, treasuryVars, orgVars, Elections!vars, Elections!orgVars
    <2> QED
      BY <2>1, <2>2, <2>3 DEF Next
  <1> QED
    BY <1>1, <1>2, PTL DEF Spec, Elections!Spec

(* Whatever the rest of the program does, project proposals and projects   *)
(* behave as ProjectGovernance says, elections being steps of its          *)
(* organizations.                                                          *)
THEOREM ProjectVotesImplemented == Spec => ProjectVotes!Spec
  <1>1. Init => ProjectVotes!Init
    BY ProjectsStart DEF Init
  <1>2. ProgramInv /\ [Next]_vars => [ProjectVotes!Next]_ProjectVotes!vars
    <2> SUFFICES ASSUME ProgramInv, [Next]_vars PROVE [ProjectVotes!Next]_ProjectVotes!vars
      OBVIOUS
    <2> USE DEF ProjectVotes!vars, ProjectVotes!projectVars, ProjectVotes!orgVars
    <2>1. CASE Elect
      <3>1. [EP!Next]_EP!vars
        BY <2>1, AdministrationIs, ElectionProposeIs, ElectionVoteIs DEF Elect, EP!Next
      <3>2. EP!OrgNext \/ UNCHANGED <<now, organization, contributor>>
        BY <3>1, AssumptionsMet, EP!ElectionOrgStep DEF ProgramInv, EP!orgVars
      <3> QED
        BY <2>1, <3>2, OrganizationStepIs DEF Elect, ProjectVotes!Next
    <2>2. CASE PlanProjects
      BY <2>2 DEF PlanProjects, ProjectVotes!Next
    <2>3. CASE FillTreasury \/ Transfer \/ DoTasks \/ DescribeOrganization
      BY <2>3, OrganizationsRest, ProjectsRest
    <2>4. CASE UNCHANGED vars
      BY <2>4 DEF vars, treasuryVars, orgVars
    <2> QED
      BY <2>1, <2>2, <2>3, <2>4 DEF Next
  <1> QED
    BY <1>1, <1>2, ProgramInvariant, PTL DEF Spec, ProjectVotes!Spec
=============================================================================
