------------------------------ MODULE TaskVaults ------------------------------
(***************************************************************************)
(* Tasks and their vaults (task.rs): a task is proposed in a project, the  *)
(* project's members vote, the approving vote creates the task and moves   *)
(* its payment from the treasury into a vault, the assignee reports the    *)
(* task complete, and the review of another member pays the assignee.      *)
(***************************************************************************)
EXTENDS Treasury, Projects, FiniteSetsExt

CONSTANTS
    TaskTitles,     \* task titles, each the address of one proposal per project
    Nobody,         \* the reviewer of a task nobody has reviewed
    MaxTasks        \* bound on the task proposals a behaviour opens

ASSUME TaskVaultsAssumption ==
    /\ Nobody \notin Wallets
    /\ MaxTasks \in Nat

VARIABLES
    task_proposals,        \* proposal accounts, at <<project address, title>>
    tasks,                 \* task accounts, at the same
    task_vaults,           \* vault accounts, at the task's address
    vault_token_accounts   \* the vaults' token accounts, at the task's address

taskVars == <<task_proposals, tasks, task_vaults, vault_token_accounts>>
vars == <<treasuryVars, projects, taskVars>>

TaskAddresses == ProjectAddresses \X TaskTitles

TaskProposal ==
    [proposer : Wallets, payment_amount : Nat \ {0}, assignee : Wallets, token_mint : Mints,
     destination : TokenAccounts, created_at : Nat, expires_at : 0..I64Max,
     votes_for : Nat, votes_against : Nat, status : ProposalStatus,
     voters : SUBSET Wallets]

(* Proposed, Approved and Rejected are never stored in a task. *)
TaskStatus == {"Ready", "Completed", "Paid"}

Task ==
    [assignee : Wallets, status : TaskStatus, payment_amount : Nat,
     votes_for : Nat, votes_against : Nat, voters : SUBSET Wallets,
     reviewer : Wallets \cup {Nobody}]

TaskVault == [token_mint : Mints, amount : Nat, assignee : Wallets, is_withdrawable : BOOLEAN]

VaultTokenAccount == [mint : Mints, amount : Nat]

OrganizationOf(address) == projects[address[1]].organization

-----------------------------------------------------------------------------
(* Nothing asks whether the proposer is a member, or a contributor at all. *)
ProposeTaskAccounts(address, mint, treasury, destination, assignee) ==
    /\ address[1] \in DOMAIN projects
    /\ address \notin DOMAIN task_proposals
    /\ IsTreasuryAccount(OrganizationOf(address), mint, treasury)
    /\ destination \in DOMAIN token_accounts
    /\ token_accounts[destination].mint = mint
    /\ token_accounts[destination].owner = assignee

(* now plus what is left of the project is the project's end: a ballot     *)
(* opened after it is over from the start.                                 *)
ProposeTask(proposer, address, payment_amount, assignee, mint, treasury, destination, tokens) ==
    /\ ProposeTaskAccounts(address, mint, treasury, destination, assignee)
    /\ payment_amount > 0
    /\ TokenRegistered(OrganizationOf(address), mint)
    /\ token_accounts[treasury].amount >= payment_amount
    /\ HasEnoughTokensToVote(tokens,
          organization[OrganizationOf(address)].parameters.minimum_token_requirement)
    /\ task_proposals' = StoreAccount(task_proposals, address,
         [proposer |-> proposer, payment_amount |-> payment_amount, assignee |-> assignee,
          token_mint |-> mint, destination |-> destination, created_at |-> now,
          expires_at |-> projects[address[1]].validity_end_time,
          votes_for |-> 0, votes_against |-> 0, status |-> "Active", voters |-> {}])
    /\ UNCHANGED <<treasuryVars, projects, tasks, task_vaults, vault_token_accounts>>

IsProjectMember(address, key) == key \in Members(projects[address[1]])

IsOpen(proposal) == proposal.status = "Active"

VaultMintMatches(task, mint) ==
    task \in DOMAIN vault_token_accounts => vault_token_accounts[task].mint = mint

(* The vault's token account is created by the first vote that names its   *)
(* task, with the mint of the proposal voted on (init_if_needed), and a    *)
(* vote that names one of another mint fails.                              *)
VoteOnTaskProposalAccounts(voter, address, task, treasury) ==
    /\ address \in DOMAIN task_proposals
    /\ IsProjectMember(address, voter)
    /\ IsOpen(task_proposals[address])
    /\ IsTreasuryAccount(OrganizationOf(address), task_proposals[address].token_mint, treasury)
    /\ VaultMintMatches(task, task_proposals[address].token_mint)

FaultyForgetsVoters(proposal, voter) == FALSE \* fault: voters list not consulted

AlreadyVoted(proposal, voter) == voter \in proposal.voters

(* No quorum: the share of yes votes, rounded down, decides at any vote,   *)
(* and a threshold of zero is met by no yes votes at all.                  *)
TaskStatusAfter(proposal, project) ==
    LET total_votes == proposal.votes_for + proposal.votes_against
        percentage  == IF total_votes > 0 THEN (proposal.votes_for * 100) \div total_votes ELSE 0
    IN  CASE percentage >= project.task_approval_threshold -> "Approved"
          [] percentage < project.task_approval_threshold
             /\ proposal.votes_against > proposal.votes_for
             /\ Cardinality(proposal.voters) >= Len(project.members) \div 2 -> "Rejected"
          [] OTHER -> proposal.status

FaultyStaleTally(address, voter, vote) ==     \* fault: status from the tallies before the vote
    [task_proposals[address] EXCEPT
       !.votes_for = @ + (IF vote THEN 1 ELSE 0),
       !.votes_against = @ + (IF vote THEN 0 ELSE 1),
       !.voters = @ \cup {voter},
       !.status = TaskStatusAfter(task_proposals[address], projects[address[1]])]

WithVote(address, voter, vote) ==
    LET counted == [task_proposals[address] EXCEPT
                      !.votes_for = @ + (IF vote THEN 1 ELSE 0),
                      !.votes_against = @ + (IF vote THEN 0 ELSE 1),
                      !.voters = @ \cup {voter}]
    IN  [counted EXCEPT !.status = TaskStatusAfter(counted, projects[address[1]])]

VaultTokenAccountFor(task, mint) ==
    IF task \in DOMAIN vault_token_accounts THEN vault_token_accounts[task]
                                            ELSE [mint |-> mint, amount |-> 0]

FaultyFundNothing(treasury, address, proposal) == \* fault: the transfer is left out
    /\ vault_token_accounts' = StoreAccount(vault_token_accounts, address,
         VaultTokenAccountFor(address, proposal.token_mint))
    /\ UNCHANGED token_accounts

FaultyFundWithoutDebit(treasury, address, proposal) == \* fault: the treasury is not debited
    /\ vault_token_accounts' = StoreAccount(vault_token_accounts, address,
         [VaultTokenAccountFor(address, proposal.token_mint) EXCEPT !.amount =
            @ + proposal.payment_amount])
    /\ UNCHANGED token_accounts

FundVault(treasury, address, proposal) ==
    /\ token_accounts[treasury].amount >= proposal.payment_amount
    /\ token_accounts' = [token_accounts EXCEPT ![treasury].amount = @ - proposal.payment_amount]
    /\ vault_token_accounts' = StoreAccount(vault_token_accounts, address,
         [VaultTokenAccountFor(address, proposal.token_mint) EXCEPT !.amount =
            @ + proposal.payment_amount])

(* The task is written as Approved, its vault is written and funded, and   *)
(* the task is written again as Ready, all in the approving vote.          *)
CreateTaskAndVault(address, treasury, proposal) ==
    /\ address \notin DOMAIN tasks
    /\ FundVault(treasury, address, proposal)
    /\ task_vaults' = StoreAccount(task_vaults, address,
         [token_mint |-> proposal.token_mint, amount |-> proposal.payment_amount,
          assignee |-> proposal.assignee, is_withdrawable |-> FALSE])
    /\ tasks' = StoreAccount(tasks, address,
         [assignee |-> proposal.assignee, status |-> "Ready",
          payment_amount |-> proposal.payment_amount, votes_for |-> proposal.votes_for,
          votes_against |-> proposal.votes_against, voters |-> proposal.voters,
          reviewer |-> Nobody])

(* Unlike every other ballot this one is open until its end inclusive. *)
VoteOnTaskProposal(voter, address, task, treasury, vote, tokens) ==
    /\ VoteOnTaskProposalAccounts(voter, address, task, treasury)
    /\ LET proposal == task_proposals[address]
           updated  == WithVote(address, voter, vote)
       IN  /\ ~AlreadyVoted(proposal, voter)
           /\ now <= proposal.expires_at
           /\ token_accounts[treasury].amount >= proposal.payment_amount
           /\ HasEnoughTokensToVote(tokens,
                 organization[OrganizationOf(address)].parameters.minimum_token_requirement)
           /\ task_proposals' = [task_proposals EXCEPT ![address] = updated]
           /\ \/ /\ updated.status = "Approved"
                 /\ task = address
                 /\ CreateTaskAndVault(address, treasury, updated)
              \/ /\ updated.status # "Approved"
                 /\ vault_token_accounts' = StoreAccount(vault_token_accounts, task,
                       VaultTokenAccountFor(task, proposal.token_mint))
                 /\ UNCHANGED <<token_accounts, tasks, task_vaults>>
    /\ UNCHANGED <<orgVars, token_registry, projects>>

HasStatus(task, status) == task.status = status

FaultyMayReview(task, key) == TRUE           \* fault: ReviewerCannotBeAssignee dropped

MayReview(task, key) == task.assignee # key

CompleteTaskAccounts(assignee, address) ==
    /\ address \in DOMAIN tasks
    /\ tasks[address].assignee = assignee
    /\ HasStatus(tasks[address], "Ready")
    /\ task_vaults[address].assignee = assignee
    /\ \E key \in DOMAIN token_accounts :
         /\ token_accounts[key].owner = assignee
         /\ token_accounts[key].mint = task_vaults[address].token_mint

CompleteTask(assignee, address) ==
    /\ CompleteTaskAccounts(assignee, address)
    /\ tasks' = [tasks EXCEPT ![address].status = "Completed"]
    /\ UNCHANGED <<treasuryVars, projects, task_proposals, task_vaults, vault_token_accounts>>

EnableTaskVaultWithdrawalAccounts(reviewer, address, account) ==
    /\ address \in DOMAIN tasks
    /\ HasStatus(tasks[address], "Completed")
    /\ MayReview(tasks[address], reviewer)
    /\ IsProjectMember(address, reviewer)
    /\ ~task_vaults[address].is_withdrawable
    /\ account \in DOMAIN token_accounts
    /\ token_accounts[account].mint = task_vaults[address].token_mint
    /\ token_accounts[account].owner = tasks[address].assignee

(* The review pays at once, into any account of the assignee's. *)
EnableTaskVaultWithdrawal(reviewer, address, account) ==
    /\ EnableTaskVaultWithdrawalAccounts(reviewer, address, account)
    /\ vault_token_accounts[address].amount >= task_vaults[address].amount
    /\ tasks' = [tasks EXCEPT ![address].reviewer = reviewer, ![address].status = "Paid"]
    /\ task_vaults' = [task_vaults EXCEPT ![address].is_withdrawable = TRUE]
    /\ vault_token_accounts' = [vault_token_accounts EXCEPT
                                  ![address].amount = @ - task_vaults[address].amount]
    /\ token_accounts' = [token_accounts EXCEPT
                            ![account].amount = @ + task_vaults[address].amount]
    /\ UNCHANGED <<orgVars, token_registry, projects, task_proposals>>

-----------------------------------------------------------------------------
Init ==
    /\ TreasuryInit
    /\ projects = EmptyMap
    /\ task_proposals = EmptyMap
    /\ tasks = EmptyMap
    /\ task_vaults = EmptyMap
    /\ vault_token_accounts = EmptyMap

StartProject ==
    \E o \in Orgs, uuid \in Uuids \cup ProposalAddresses, title \in Titles,
       members \in MemberLists, threshold \in TaskThresholds, period \in Periods :
         OpenProject(o, uuid, title, members, threshold, period)

Propose ==
    /\ Cardinality(DOMAIN task_proposals) < MaxTasks
    /\ \E proposer, assignee \in Wallets, address \in TaskAddresses, amount \in Amounts,
          mint \in Mints, treasury, destination \in TokenAccounts, tokens \in TokenAmounts :
         ProposeTask(proposer, address, amount, assignee, mint, treasury, destination, tokens)

Vote ==
    \E voter \in Wallets, address \in DOMAIN task_proposals, task \in TaskAddresses,
       treasury \in TokenAccounts, vote \in BOOLEAN, tokens \in TokenAmounts :
         VoteOnTaskProposal(voter, address, task, treasury, vote, tokens)

Complete == \E assignee \in Wallets, address \in DOMAIN tasks : CompleteTask(assignee, address)

Review ==
    \E reviewer \in Wallets, address \in DOMAIN tasks, account \in TokenAccounts :
        EnableTaskVaultWithdrawal(reviewer, address, account)

Next ==
    \/ TreasuryNext /\ UNCHANGED <<projects, taskVars>>
    \/ StartProject /\ UNCHANGED <<token_registry, token_accounts, taskVars>>
    \/ Propose
    \/ Vote
    \/ Complete
    \/ Review

Spec == Init /\ [][Next]_vars

(* An assignee reports the work sooner or later, and a member who may      *)
(* review it does.                                                         *)
FairSpec == Spec /\ WF_vars(Complete) /\ WF_vars(Review)

-----------------------------------------------------------------------------
TypeOK ==
    /\ TreasuryTypeOK
    /\ ProjectsTypeOK
    /\ DOMAIN task_proposals \subseteq TaskAddresses
    /\ \A a \in DOMAIN task_proposals : task_proposals[a] \in TaskProposal
    /\ DOMAIN tasks \subseteq DOMAIN task_proposals
    /\ \A a \in DOMAIN tasks : tasks[a] \in Task
    /\ DOMAIN task_vaults = DOMAIN tasks
    /\ \A a \in DOMAIN tasks : task_vaults[a] \in TaskVault
    /\ DOMAIN vault_token_accounts \subseteq TaskAddresses
    /\ \A a \in DOMAIN vault_token_accounts : vault_token_accounts[a] \in VaultTokenAccount

(* A task exists exactly when its proposal was approved, and until it is   *)
(* paid its vault holds the whole payment, in the mint that was voted on;  *)
(* a paid task's vault is empty.                                           *)
VaultsCoverTasks ==
    /\ \A a \in DOMAIN task_proposals : task_proposals[a].status = "Approved" <=> a \in DOMAIN tasks
    /\ \A a \in DOMAIN tasks :
         /\ a \in DOMAIN vault_token_accounts
         /\ vault_token_accounts[a].mint = task_proposals[a].token_mint
         /\ vault_token_accounts[a].amount =
               IF tasks[a].status = "Paid" THEN 0 ELSE task_proposals[a].payment_amount

(* Treasuries, vaults and wallets together hold what the wallets held at   *)
(* the start: no instruction makes or loses a token of any mint.           *)
Held(accounts, mint) ==
    LET keys == {k \in DOMAIN accounts : accounts[k].mint = mint}
    IN  MapThenSumSet(LAMBDA k : accounts[k].amount, keys)

SupplyConserved ==
    \A mint \in Mints :
        Held(token_accounts, mint) + Held(vault_token_accounts, mint) = Held(WalletAccounts, mint)

(* Task proposals keep the promise of Ballots among the members of their   *)
(* project, up to and at the project's end.                                *)
Ballot ==
    INSTANCE Ballots WITH
        Voters <- Wallets, ballots <- task_proposals,
        open <- {a \in DOMAIN task_proposals : now <= task_proposals[a].expires_at},
        electorate <- [a \in DOMAIN task_proposals |-> Members(projects[a[1]])]

TaskBallots == Ballot!BallotsSpec

(* A task approved by project members has at least the project's threshold *)
(* of yes votes among the votes cast, in exact fractions.                  *)
TaskApprovalIsEarned ==
    \A a \in DOMAIN tasks :
        ThresholdShare(tasks[a].votes_for, tasks[a].votes_against,
                       projects[a[1]].task_approval_threshold)

(* The vaults keep the promise of Escrow.                                  *)
Promise ==
    INSTANCE Escrow WITH
        Jobs <- TaskAddresses, Parties <- Wallets, NoJudge <- Nobody,
        escrows <- [a \in DOMAIN tasks |->
                      [payee |-> tasks[a].assignee, amount |-> task_vaults[a].amount,
                       held |-> vault_token_accounts[a].amount, phase |-> tasks[a].status,
                       judge |-> tasks[a].reviewer]]

PromiseKept == Promise!EscrowSpec

(* Under FairSpec a funded task that has another member to review it ends  *)
(* paid: no shortage, mint or flag left behind by an earlier step stops    *)
(* its payment.  (One without another member is never paid.)               *)
FundedTasksArePaid ==
    \A a \in TaskAddresses :
        /\ a \in DOMAIN tasks
        /\ Members(projects[a[1]]) \ {tasks[a].assignee} # {}
        ~> a \in DOMAIN tasks /\ tasks[a].status = "Paid"

=============================================================================
