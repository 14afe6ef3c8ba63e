---------------------------- MODULE TaskVaults_proofs ----------------------------
(***************************************************************************)
(* Theorems about TaskVaults, for every set of wallets, organizations,     *)
(* mints, accounts, projects, tasks, amounts and bounds: any number of     *)
(* mints and treasury accounts in particular.                              *)
(***************************************************************************)
EXTENDS TaskVaults, Accounts_proofs, FiniteSetTheorems, WellFoundedInduction

(* A proposal's project exists, a task's vault is for the payment that was *)
(* voted on, and a vault's token account is empty before its task.         *)
TasksSound ==
    /\ \A a \in DOMAIN task_proposals : a[1] \in DOMAIN projects
    /\ \A a \in DOMAIN tasks : /\ task_vaults[a].amount = task_proposals[a].payment_amount
                              /\ task_vaults[a].token_mint = task_proposals[a].token_mint
    /\ \A a \in DOMAIN vault_token_accounts :
         a \in DOMAIN tasks \/ vault_token_accounts[a].amount = 0

TaskInv ==
    /\ TreasuryInv
    /\ TypeOK
    /\ TasksSound
    /\ VaultsCoverTasks
    /\ TaskApprovalIsEarned

(* No project is changed or closed.                                        *)
ProjectsStay ==
    \A a \in DOMAIN projects : a \in DOMAIN projects' /\ projects'[a] = projects[a]

(* Before anything is proposed the invariant holds.                        *)
THEOREM TaskInit == Init => TaskInv
  <1> SUFFICES ASSUME Init PROVE TaskInv
    OBVIOUS
  <1>1. TreasuryInv
    BY TreasuryInitOK DEF Init
  <1> QED
    BY <1>1 DEF Init, EmptyMap, TreasuryInv, TaskInv, TypeOK, ProjectsTypeOK, TasksSound,
         VaultsCoverTasks, TaskApprovalIsEarned

(* Organizations, treasuries and projects go on without the tasks          *)
(* noticing.                                                               *)
LEMMA EnvironmentKeeps ==
    ASSUME TaskInv, TreasuryInv', ProjectsTypeOK', ProjectsStay, UNCHANGED taskVars
    PROVE  TaskInv'
  <1>1. UNCHANGED <<task_proposals, tasks, task_vaults, vault_token_accounts>>
    BY DEF taskVars
  <1>2. TypeOK'
    BY <1>1 DEF TaskInv, TreasuryInv, TypeOK
  <1>3. TasksSound' /\ VaultsCoverTasks'
    BY <1>1 DEF TaskInv, TasksSound, VaultsCoverTasks, ProjectsStay
  <1>4. TaskApprovalIsEarned'
    <2> SUFFICES ASSUME NEW a \in DOMAIN tasks
                 PROVE  projects'[a[1]] = projects[a[1]]
      BY <1>1 DEF TaskInv, TaskApprovalIsEarned, ThresholdShare
    <2> QED
      BY DEF TaskInv, TypeOK, TasksSound, ProjectsStay
  <1> QED
    BY <1>2, <1>3, <1>4 DEF TaskInv

(* A project is opened at a free address, with a well-formed account.      *)
LEMMA StartProjectKeeps ==
    ASSUME TaskInv, StartProject, UNCHANGED <<token_registry, token_accounts, taskVars>>
    PROVE  TaskInv'
  <1>1. PICK o \in Orgs, uuid \in Uuids \cup ProposalAddresses, title \in Titles,
             members \in MemberLists, threshold \in TaskThresholds, period \in Periods :
               OpenProject(o, uuid, title, members, threshold, period)
    BY DEF StartProject
  <1> DEFINE a == <<o, uuid>>
             project == NewProject(o, title, members, threshold, period)
  <1>2. /\ a \notin DOMAIN projects
        /\ ValidProjectArguments(o, members, threshold, period)
        /\ projects' = StoreAccount(projects, a, project)
        /\ UNCHANGED orgVars
    BY <1>1 DEF OpenProject
  <1>3. /\ members \in Seq(Wallets) /\ threshold \in 0..100
        /\ period \in Int /\ ValidateValidityPeriod(period)
    BY <1>2, ProjectsAssumption DEF ValidProjectArguments, ValidateThreshold
  <1>4. SaturatingAdd(now, period) \in 0..I64Max
    BY <1>3, ExpiryType DEF TaskInv, TreasuryInv
  <1>5. project \in Project
    BY <1>3, <1>4 DEF NewProject, Project
  <1>6. a \in ProjectAddresses
    BY DEF ProjectAddresses
  <1> HIDE DEF a, project
  <1>7. /\ DOMAIN projects' = DOMAIN projects \cup {a}
        /\ projects'[a] = project
        /\ \A b \in DOMAIN projects : projects'[b] = projects[b]
    BY <1>2 DEF StoreAccount
  <1>8. ProjectsTypeOK' /\ ProjectsStay
    BY <1>5, <1>6, <1>7 DEF TaskInv, TypeOK, ProjectsTypeOK, ProjectsStay
  <1>9. TreasuryInv'
    BY <1>2, TreasuryStepOK DEF TaskInv, treasuryVars
  <1> QED
    BY <1>8, <1>9, EnvironmentKeeps

(* propose_task stores an active proposal in a project that exists.        *)
LEMMA ProposeTasks ==
    ASSUME TaskInv, NEW w \in Wallets, NEW assignee \in Wallets, NEW a \in TaskAddresses,
           NEW amount \in Amounts, NEW mint \in Mints, NEW treasury \in TokenAccounts,
           NEW destination \in TokenAccounts, NEW tokens \in TokenAmounts,
           ProposeTask(w, a, amount, assignee, mint, treasury, destination, tokens)
    PROVE  TaskInv'
  <1> DEFINE end == projects[a[1]].validity_end_time
             prop == [proposer |-> w, payment_amount |-> amount, assignee |-> assignee,
                      token_mint |-> mint, destination |-> destination, created_at |-> now,
                      expires_at |-> end, votes_for |-> 0, votes_against |-> 0,
                      status |-> "Active", voters |-> {}]
  <1>1. /\ a[1] \in DOMAIN projects /\ a \notin DOMAIN task_proposals /\ amount > 0
        /\ task_proposals' = StoreAccount(task_proposals, a, prop)
        /\ UNCHANGED treasuryVars
        /\ UNCHANGED <<projects, tasks, task_vaults, vault_token_accounts>>
    BY DEF ProposeTask, ProposeTaskAccounts
  <1>2. TreasuryInv'
    BY <1>1, TreasuryStepOK DEF TaskInv
  <1>3. amount \in Nat \ {0} /\ now \in Nat /\ end \in 0..I64Max
    BY <1>1, TreasuryAssumption
    DEF TaskInv, TreasuryInv, OrgInv, TypeOK, ProjectsTypeOK, Project
  <1> HIDE DEF end
  <1>4. prop \in TaskProposal /\ prop.status # "Approved"
    BY <1>3 DEF TaskProposal, ProposalStatus
  <1> HIDE DEF prop
  <1>5. /\ DOMAIN task_proposals' = DOMAIN task_proposals \cup {a}
        /\ task_proposals'[a] = prop
        /\ \A b \in DOMAIN task_proposals : task_proposals'[b] = task_proposals[b]
    BY <1>1 DEF StoreAccount
  <1>6. TypeOK'
    BY <1>1, <1>2, <1>4, <1>5 DEF TaskInv, TreasuryInv, TypeOK, ProjectsTypeOK
  <1>7. TasksSound' /\ VaultsCoverTasks'
    BY <1>1, <1>4, <1>5 DEF TaskInv, TypeOK, TasksSound, VaultsCoverTasks
  <1>8. TaskApprovalIsEarned'
    BY <1>1 DEF TaskInv, TaskApprovalIsEarned, ThresholdShare
  <1> QED
    BY <1>2, <1>6, <1>7, <1>8 DEF TaskInv

(* A vote changes the tallies, the voters and the status; the votes of an  *)
(* approved task reach the project's threshold.                            *)
LEMMA VoteOnTask ==
    ASSUME NEW a \in DOMAIN task_proposals, task_proposals[a] \in TaskProposal,
           task_proposals[a].status = "Active", projects[a[1]] \in Project,
           NEW voter \in Wallets, NEW vote \in BOOLEAN
    PROVE  LET p == task_proposals[a]
               u == WithVote(a, voter, vote)
           IN  /\ u \in TaskProposal
               /\ u.status \in {"Active", "Approved", "Rejected"}
               /\ u.payment_amount = p.payment_amount /\ u.token_mint = p.token_mint
               /\ u.status = "Approved" =>
                    ThresholdShare(u.votes_for, u.votes_against,
                                   projects[a[1]].task_approval_threshold)
  <1> DEFINE p == task_proposals[a]
             f == p.votes_for + (IF vote THEN 1 ELSE 0)
             n == p.votes_against + (IF vote THEN 0 ELSE 1)
             counted == [p EXCEPT !.votes_for = f, !.votes_against = n, !.voters = @ \cup {voter}]
             st == TaskStatusAfter(counted, projects[a[1]])
             u == [p EXCEPT !.votes_for = f, !.votes_against = n, !.voters = @ \cup {voter},
                            !.status = st]
             threshold == projects[a[1]].task_approval_threshold
  <1>1. f \in Nat /\ n \in Nat /\ f + n > 0
    BY DEF TaskProposal
  <1>2. threshold \in Nat
    <2>1. threshold \in 0..100
      BY DEF Project
    <2> QED
      BY <2>1
  <1>3. WithVote(a, voter, vote) = u
    BY DEF WithVote, TaskProposal
  <1>4. counted.status = "Active" /\ counted.votes_for = f /\ counted.votes_against = n
    BY DEF TaskProposal
  <1> HIDE DEF f, n, counted
  <1>5. /\ st \in {"Active", "Approved", "Rejected"}
        /\ st = "Approved" => (f * 100) \div (f + n) >= threshold
    BY <1>1, <1>2, <1>4 DEF TaskStatusAfter
  <1> HIDE DEF st, threshold
  <1>6. st = "Approved" => ThresholdShare(f, n, threshold)
    BY <1>1, <1>2, <1>5, RoundedDownShare
  <1>7. /\ u \in TaskProposal /\ u.status = st /\ u.votes_for = f /\ u.votes_against = n
        /\ u.payment_amount = p.payment_amount /\ u.token_mint = p.token_mint
    BY <1>1, <1>5 DEF TaskProposal, ProposalStatus
  <1> QED
    BY <1>3, <1>5, <1>6, <1>7 DEF threshold

(* The payment leaves the treasury for a vault that was empty.             *)
LEMMA VaultFunded ==
    ASSUME TaskInv, NEW a \in TaskAddresses, a \notin DOMAIN tasks,
           NEW treasury \in DOMAIN token_accounts, NEW u \in TaskProposal,
           VaultMintMatches(a, u.token_mint), FundVault(treasury, a, u),
           UNCHANGED <<now, organization, contributor, token_registry>>
    PROVE  /\ TreasuryInv'
           /\ DOMAIN vault_token_accounts' = DOMAIN vault_token_accounts \cup {a}
           /\ vault_token_accounts'[a] = [mint |-> u.token_mint, amount |-> u.payment_amount]
           /\ \A b \in DOMAIN vault_token_accounts : b # a =>
                vault_token_accounts'[b] = vault_token_accounts[b]
  <1>1. /\ token_accounts[treasury].amount >= u.payment_amount
        /\ token_accounts' =
             [token_accounts EXCEPT ![treasury].amount = @ - u.payment_amount]
    BY DEF FundVault
  <1> DEFINE old == VaultTokenAccountFor(a, u.token_mint)
             new == [old EXCEPT !.amount = @ + u.payment_amount]
  <1>2. vault_token_accounts' = StoreAccount(vault_token_accounts, a, new)
    BY DEF FundVault
  <1>3. u.payment_amount \in Nat /\ u.token_mint \in Mints
    BY DEF TaskProposal
  <1>4. old = [mint |-> u.token_mint, amount |-> 0]
    BY DEF TaskInv, TypeOK, TasksSound, VaultTokenAccountFor, VaultMintMatches, VaultTokenAccount
  <1>5. new = [mint |-> u.token_mint, amount |-> u.payment_amount]
    BY <1>3, <1>4
  <1> HIDE DEF new, old
  <1>6. /\ DOMAIN vault_token_accounts' = DOMAIN vault_token_accounts \cup {a}
        /\ vault_token_accounts'[a] = new
        /\ \A b \in DOMAIN vault_token_accounts : b # a =>
             vault_token_accounts'[b] = vault_token_accounts[b]
    BY <1>2 DEF StoreAccount
  <1>7. AccountsTypeOK' /\ AccountsStay
    BY <1>1, <1>3
    DEF TaskInv, TreasuryInv, TreasuryTypeOK, AccountsTypeOK, AccountsStay, TokenAccount
  <1>8. OrgInv' /\ OrgsStay
    BY DEF TaskInv, TreasuryInv, OrgInv, OrgsStay, Contributors
  <1>9. TreasuryInv'
    BY <1>7, <1>8, RegistriesStay DEF TaskInv
  <1> QED
    BY <1>5, <1>6, <1>9

(* The vote that approves a task funds its vault; another vote may at most *)
(* open an empty one.                                                      *)
LEMMA VoteTasks ==
    ASSUME TaskInv, NEW v \in Wallets, NEW a \in DOMAIN task_proposals, NEW task \in TaskAddresses,
           NEW treasury \in TokenAccounts, NEW vote \in BOOLEAN, NEW tokens \in TokenAmounts,
           VoteOnTaskProposal(v, a, task, treasury, vote, tokens)
    PROVE  TaskInv'
  <1> DEFINE p == task_proposals[a]
             u == WithVote(a, v, vote)
  <1>1. /\ a \in TaskAddresses /\ p \in TaskProposal /\ p.status = "Active"
        /\ treasury \in DOMAIN token_accounts
        /\ VaultMintMatches(task, p.token_mint)
        /\ task_proposals' = [task_proposals EXCEPT ![a] = u]
        /\ UNCHANGED <<now, organization, contributor, token_registry, projects>>
    BY DEF TaskInv, TypeOK, VoteOnTaskProposal, VoteOnTaskProposalAccounts, IsOpen,
           IsTreasuryAccount, orgVars
  <1>2. \/ u.status = "Approved" /\ task = a /\ CreateTaskAndVault(a, treasury, u)
        \/ /\ u.status # "Approved"
           /\ vault_token_accounts' = StoreAccount(vault_token_accounts, task,
                 VaultTokenAccountFor(task, p.token_mint))
           /\ UNCHANGED <<token_accounts, tasks, task_vaults>>
    BY DEF VoteOnTaskProposal
  <1>3. projects[a[1]] \in Project
    BY DEF TaskInv, TypeOK, TasksSound, ProjectsTypeOK
  <1>4. /\ u \in TaskProposal
        /\ u.payment_amount = p.payment_amount /\ u.token_mint = p.token_mint
        /\ u.status = "Approved" =>
             ThresholdShare(u.votes_for, u.votes_against, projects[a[1]].task_approval_threshold)
    BY <1>1, <1>3, VoteOnTask
  <1> HIDE DEF u
  <1>5. /\ DOMAIN task_proposals' = DOMAIN task_proposals
        /\ task_proposals'[a] = u
        /\ \A b \in DOMAIN task_proposals : b # a => task_proposals'[b] = task_proposals[b]
    BY <1>1
  <1>6. a \notin DOMAIN tasks
    BY <1>1 DEF TaskInv, VaultsCoverTasks
  <1>7. CASE u.status = "Approved" /\ task = a /\ CreateTaskAndVault(a, treasury, u)
    <2> DEFINE vault == [token_mint |-> u.token_mint, amount |-> u.payment_amount,
                         assignee |-> u.assignee, is_withdrawable |-> FALSE]
               made == [assignee |-> u.assignee, status |-> "Ready",
                        payment_amount |-> u.payment_amount, votes_for |-> u.votes_for,
                        votes_against |-> u.votes_against, voters |-> u.voters,
                        reviewer |-> Nobody]
    <2>1. /\ FundVault(treasury, a, u)
          /\ task_vaults' = StoreAccount(task_vaults, a, vault)
          /\ tasks' = StoreAccount(tasks, a, made)
      BY <1>7 DEF CreateTaskAndVault
    <2>2. /\ TreasuryInv'
          /\ DOMAIN vault_token_accounts' = DOMAIN vault_token_accounts \cup {a}
          /\ vault_token_accounts'[a] = [mint |-> u.token_mint, amount |-> u.payment_amount]
          /\ \A b \in DOMAIN vault_token_accounts : b # a =>
               vault_token_accounts'[b] = vault_token_accounts[b]
      BY <1>1, <1>4, <1>6, <1>7, <2>1, VaultFunded
    <2>3. /\ vault \in TaskVault /\ vault.amount = u.payment_amount
          /\ vault.token_mint = u.token_mint
          /\ made \in Task /\ made.status = "Ready" /\ made.votes_for = u.votes_for
          /\ made.votes_against = u.votes_against
          /\ u.payment_amount \in Nat /\ u.token_mint \in Mints
      BY <1>4 DEF TaskProposal, TaskVault, Task, TaskStatus
    <2> HIDE DEF vault, made
    <2>4. /\ DOMAIN tasks' = DOMAIN tasks \cup {a} /\ tasks'[a] = made
          /\ \A b \in DOMAIN tasks : tasks'[b] = tasks[b]
          /\ DOMAIN task_vaults' = DOMAIN task_vaults \cup {a} /\ task_vaults'[a] = vault
          /\ \A b \in DOMAIN task_vaults : b # a => task_vaults'[b] = task_vaults[b]
      BY <1>6, <2>1 DEF StoreAccount
    <2>5. [mint |-> u.token_mint, amount |-> u.payment_amount] \in VaultTokenAccount
      BY <2>3 DEF VaultTokenAccount
    <2>6. DOMAIN task_vaults = DOMAIN tasks
      BY DEF TaskInv, TypeOK
    <2>7. TypeOK'
      BY <1>1, <1>4, <1>5, <1>6, <2>2, <2>3, <2>4, <2>5, <2>6
      DEF TaskInv, TreasuryInv, TypeOK, ProjectsTypeOK
    <2>8. TasksSound'
      BY <1>1, <1>4, <1>5, <1>6, <2>2, <2>3, <2>4, <2>6 DEF TaskInv, TypeOK, TasksSound
    <2>9. VaultsCoverTasks'
      <3>1. \A b \in DOMAIN task_proposals' :
              task_proposals'[b].status = "Approved" <=> b \in DOMAIN tasks'
        BY <1>5, <1>7, <2>4 DEF TaskInv, VaultsCoverTasks
      <3>2. ASSUME NEW b \in DOMAIN tasks'
            PROVE  /\ b \in DOMAIN vault_token_accounts'
                   /\ vault_token_accounts'[b].mint = task_proposals'[b].token_mint
                   /\ vault_token_accounts'[b].amount =
                        IF tasks'[b].status = "Paid" THEN 0 ELSE task_proposals'[b].payment_amount
        <4>1. CASE b = a
          BY <1>5, <2>2, <2>3, <2>4, <4>1
        <4>2. CASE b # a
          BY <1>5, <2>2, <2>4, <3>2, <4>2 DEF TaskInv, TypeOK, VaultsCoverTasks
        <4> QED
          BY <4>1, <4>2
      <3> QED
        BY <3>1, <3>2 DEF VaultsCoverTasks
    <2>10. TaskApprovalIsEarned'
      <3> SUFFICES ASSUME NEW b \in DOMAIN tasks'
                   PROVE  ThresholdShare(tasks'[b].votes_for, tasks'[b].votes_against,
                                         projects[b[1]].task_approval_threshold)
        BY <1>1 DEF TaskApprovalIsEarned, ThresholdShare
      <3> QED
        BY <1>4, <1>7, <2>3, <2>4 DEF TaskInv, TaskApprovalIsEarned
    <2> QED
      BY <2>2, <2>7, <2>8, <2>9, <2>10 DEF TaskInv
  <1>8. CASE /\ u.status # "Approved"
             /\ vault_token_accounts' = StoreAccount(vault_token_accounts, task,
                   VaultTokenAccountFor(task, p.token_mint))
             /\ UNCHANGED <<token_accounts, tasks, task_vaults>>
    <2> DEFINE account == VaultTokenAccountFor(task, p.token_mint)
    <2>1. UNCHANGED treasuryVars /\ UNCHANGED <<tasks, task_vaults, projects>>
      BY <1>1, <1>8 DEF treasuryVars, orgVars
    <2>2. TreasuryInv'
      BY <2>1, TreasuryStepOK DEF TaskInv
    <2>3. /\ account \in VaultTokenAccount
          /\ task \in DOMAIN vault_token_accounts => account = vault_token_accounts[task]
          /\ task \notin DOMAIN vault_token_accounts => account.amount = 0
      BY <1>1 DEF TaskInv, TypeOK, VaultTokenAccountFor, VaultTokenAccount, TaskProposal
    <2> HIDE DEF account
    <2>4. /\ DOMAIN vault_token_accounts' = DOMAIN vault_token_accounts \cup {task}
          /\ vault_token_accounts'[task] = account
          /\ \A b \in DOMAIN vault_token_accounts :
               vault_token_accounts'[b] = vault_token_accounts[b]
      BY <1>8, <2>3 DEF StoreAccount, account
    <2>5. TypeOK'
      BY <1>4, <1>5, <2>1, <2>2, <2>3, <2>4
      DEF TaskInv, TreasuryInv, TypeOK, ProjectsTypeOK
    <2>6. TasksSound'
      BY <1>4, <1>5, <2>1, <2>3, <2>4 DEF TaskInv, TypeOK, TasksSound
    <2>7. VaultsCoverTasks'
      BY <1>4, <1>5, <1>6, <1>8, <2>1, <2>4 DEF TaskInv, TypeOK, VaultsCoverTasks
    <2>8. TaskApprovalIsEarned'
      BY <2>1 DEF TaskInv, TaskApprovalIsEarned, ThresholdShare
    <2> QED
      BY <2>2, <2>5, <2>6, <2>7, <2>8 DEF TaskInv
  <1> QED
    BY <1>2, <1>7, <1>8

(* complete_task moves a task from Ready to Completed and nothing else.    *)
LEMMA CompleteTasks ==
    ASSUME TaskInv, NEW w \in Wallets, NEW a \in DOMAIN tasks, CompleteTask(w, a)
    PROVE  TaskInv'
  <1>1. /\ tasks[a].status = "Ready"
        /\ tasks' = [tasks EXCEPT ![a].status = "Completed"]
        /\ UNCHANGED treasuryVars
        /\ UNCHANGED <<projects, task_proposals, task_vaults, vault_token_accounts>>
    BY DEF CompleteTask, CompleteTaskAccounts, HasStatus
  <1>2. TreasuryInv'
    BY <1>1, TreasuryStepOK DEF TaskInv
  <1>3. /\ DOMAIN tasks' = DOMAIN tasks
        /\ tasks'[a] = [tasks[a] EXCEPT !.status = "Completed"]
        /\ \A b \in DOMAIN tasks : b # a => tasks'[b] = tasks[b]
    BY <1>1
  <1>4. tasks[a] \in Task
    BY DEF TaskInv, TypeOK
  <1>5. /\ tasks'[a] \in Task /\ tasks'[a].status = "Completed"
        /\ tasks'[a].votes_for = tasks[a].votes_for
        /\ tasks'[a].votes_against = tasks[a].votes_against
    BY <1>3, <1>4 DEF Task, TaskStatus
  <1>6. TypeOK'
    BY <1>1, <1>2, <1>3, <1>5 DEF TaskInv, TreasuryInv, TypeOK, ProjectsTypeOK
  <1>7. TasksSound'
    BY <1>1, <1>3 DEF TaskInv, TasksSound
  <1>8. VaultsCoverTasks'
    BY <1>1, <1>3, <1>5 DEF TaskInv, VaultsCoverTasks
  <1>9. TaskApprovalIsEarned'
    BY <1>1, <1>3, <1>5 DEF TaskInv, TaskApprovalIsEarned, ThresholdShare
  <1> QED
    BY <1>2, <1>6, <1>7, <1>8, <1>9 DEF TaskInv

(* The review empties the vault into an account of the assignee's.         *)
LEMMA ReviewTasks ==
    ASSUME TaskInv, NEW w \in Wallets, NEW a \in DOMAIN tasks, NEW account \in TokenAccounts,
           EnableTaskVaultWithdrawal(w, a, account)
    PROVE  TaskInv'
  <1> DEFINE amount == task_vaults[a].amount
  <1>1. /\ tasks[a].status = "Completed" /\ account \in DOMAIN token_accounts
        /\ tasks' = [tasks EXCEPT ![a].reviewer = w, ![a].status = "Paid"]
        /\ task_vaults' = [task_vaults EXCEPT ![a].is_withdrawable = TRUE]
        /\ vault_token_accounts' = [vault_token_accounts EXCEPT ![a].amount = @ - amount]
        /\ token_accounts' = [token_accounts EXCEPT ![account].amount = @ + amount]
        /\ UNCHANGED <<now, organization, contributor, token_registry, projects, task_proposals>>
    BY DEF EnableTaskVaultWithdrawal, EnableTaskVaultWithdrawalAccounts, HasStatus, orgVars
  <1>2. /\ a \in DOMAIN task_vaults /\ DOMAIN task_vaults = DOMAIN tasks
        /\ a \in DOMAIN vault_token_accounts /\ a \in DOMAIN task_proposals
        /\ amount = task_proposals[a].payment_amount /\ amount \in Nat
        /\ vault_token_accounts[a].amount = amount
        /\ tasks[a] \in Task /\ task_vaults[a] \in TaskVault
        /\ vault_token_accounts[a] \in VaultTokenAccount
    BY <1>1 DEF TaskInv, TypeOK, TasksSound, VaultsCoverTasks, TaskVault
  <1> HIDE DEF amount
  <1>3. AccountsTypeOK' /\ AccountsStay
    <2>1. /\ DOMAIN token_accounts' = DOMAIN token_accounts
          /\ token_accounts'[account] = [token_accounts[account] EXCEPT !.amount = @ + amount]
          /\ \A k \in DOMAIN token_accounts : k # account => token_accounts'[k] = token_accounts[k]
      BY <1>1
    <2>2. AccountsTypeOK /\ token_accounts[account] \in TokenAccount
      BY <1>1 DEF TaskInv, TreasuryInv, TreasuryTypeOK, AccountsTypeOK
    <2>3. /\ token_accounts'[account] \in TokenAccount
          /\ token_accounts'[account].mint = token_accounts[account].mint
          /\ token_accounts'[account].owner = token_accounts[account].owner
      BY <1>2, <2>1, <2>2 DEF TokenAccount
    <2> QED
      BY <2>1, <2>2, <2>3 DEF AccountsTypeOK, AccountsStay
  <1>4. OrgInv' /\ OrgsStay
    BY <1>1 DEF TaskInv, TreasuryInv, OrgInv, OrgsStay, Contributors
  <1>5. TreasuryInv'
    BY <1>1, <1>3, <1>4, RegistriesStay DEF TaskInv
  <1>6. /\ DOMAIN tasks' = DOMAIN tasks
        /\ tasks'[a] = [tasks[a] EXCEPT !.reviewer = w, !.status = "Paid"]
        /\ \A b \in DOMAIN tasks : b # a => tasks'[b] = tasks[b]
        /\ DOMAIN task_vaults' = DOMAIN task_vaults
        /\ task_vaults'[a] = [task_vaults[a] EXCEPT !.is_withdrawable = TRUE]
        /\ \A b \in DOMAIN task_vaults : b # a => task_vaults'[b] = task_vaults[b]
        /\ DOMAIN vault_token_accounts' = DOMAIN vault_token_accounts
        /\ vault_token_accounts'[a] = [vault_token_accounts[a] EXCEPT !.amount = @ - amount]
        /\ \A b \in DOMAIN vault_token_accounts : b # a =>
             vault_token_accounts'[b] = vault_token_accounts[b]
    BY <1>1, <1>2
  <1>7. /\ tasks'[a] \in Task /\ tasks'[a].status = "Paid"
        /\ tasks'[a].votes_for = tasks[a].votes_for
        /\ tasks'[a].votes_against = tasks[a].votes_against
        /\ task_vaults'[a] \in TaskVault /\ task_vaults'[a].amount = amount
        /\ vault_token_accounts'[a] \in VaultTokenAccount
        /\ vault_token_accounts'[a].amount = 0
        /\ vault_token_accounts'[a].mint = vault_token_accounts[a].mint
    <2>1. /\ tasks'[a] \in Task /\ tasks'[a].status = "Paid"
          /\ tasks'[a].votes_for = tasks[a].votes_for
          /\ tasks'[a].votes_against = tasks[a].votes_against
      BY <1>2, <1>6 DEF Task, TaskStatus
    <2>2. task_vaults'[a] \in TaskVault /\ task_vaults'[a].amount = task_vaults[a].amount
      BY <1>2, <1>6 DEF TaskVault
    <2>3. amount - amount = 0
      BY <1>2
    <2>4. /\ vault_token_accounts'[a] \in VaultTokenAccount
          /\ vault_token_accounts'[a].amount = 0
          /\ vault_token_accounts'[a].mint = vault_token_accounts[a].mint
      BY <1>2, <1>6, <2>3 DEF VaultTokenAccount
    <2> QED
      BY <2>1, <2>2, <2>4 DEF amount
  <1>8. TypeOK'
    <2>1. TreasuryTypeOK' /\ ProjectsTypeOK'
      BY <1>1, <1>5 DEF TaskInv, TreasuryInv, TypeOK, ProjectsTypeOK
    <2>2. /\ \A b \in DOMAIN tasks' : tasks'[b] \in Task /\ task_vaults'[b] \in TaskVault
          /\ \A b \in DOMAIN vault_token_accounts' : vault_token_accounts'[b] \in VaultTokenAccount
      BY <1>2, <1>6, <1>7 DEF TaskInv, TypeOK
    <2> QED
      BY <1>1, <1>2, <1>6, <2>1, <2>2 DEF TaskInv, TypeOK
  <1>9. TasksSound'
    BY <1>1, <1>2, <1>6, <1>7 DEF TaskInv, TasksSound
  <1>10. VaultsCoverTasks'
    <2>1. ASSUME NEW b \in DOMAIN tasks
          PROVE  /\ b \in DOMAIN vault_token_accounts'
                 /\ vault_token_accounts'[b].mint = task_proposals[b].token_mint
                 /\ vault_token_accounts'[b].amount =
                      IF tasks'[b].status = "Paid" THEN 0 ELSE task_proposals[b].payment_amount
      <3>1. CASE b = a
        BY <1>2, <1>6, <1>7, <3>1 DEF TaskInv, VaultsCoverTasks
      <3>2. CASE b # a
        BY <1>6, <2>1, <3>2 DEF TaskInv, VaultsCoverTasks
      <3> QED
        BY <3>1, <3>2
    <2> QED
      BY <1>1, <1>6, <2>1 DEF TaskInv, VaultsCoverTasks
  <1>11. TaskApprovalIsEarned'
    BY <1>1, <1>6, <1>7 DEF TaskInv, TaskApprovalIsEarned, ThresholdShare
  <1> QED
    BY <1>5, <1>8, <1>9, <1>10, <1>11 DEF TaskInv

(* Every step keeps the invariant.                                         *)
THEOREM TaskStep == TaskInv /\ [Next]_vars => TaskInv'
  <1> SUFFICES ASSUME TaskInv, [Next]_vars PROVE TaskInv'
    OBVIOUS
  <1>1. CASE [TreasuryNext]_treasuryVars /\ UNCHANGED <<projects, taskVars>>
    <2>1. TreasuryInv'
      BY <1>1, TreasuryStepOK DEF TaskInv
    <2>2. ProjectsTypeOK' /\ ProjectsStay
      BY <1>1 DEF TaskInv, TypeOK, ProjectsTypeOK, ProjectsStay
    <2> QED
      BY <1>1, <2>1, <2>2, EnvironmentKeeps
  <1>2. CASE StartProject /\ UNCHANGED <<token_registry, token_accounts, taskVars>>
    BY <1>2, StartProjectKeeps
  <1>3. CASE Propose
    BY <1>3, ProposeTasks DEF Propose
  <1>4. CASE Vote
    BY <1>4, VoteTasks DEF Vote
  <1>5. CASE Complete
    BY <1>5, CompleteTasks DEF Complete
  <1>6. CASE Review
    BY <1>6, ReviewTasks DEF Review
  <1> QED
    BY <1>1, <1>2, <1>3, <1>4, <1>5, <1>6 DEF Next, vars

-----------------------------------------------------------------------------
(***************************************************************************)
(* What a step of a task does to the accounts that other components share. *)
(***************************************************************************)
(* The payment of a task leaves an account of its organization in the step *)
(* that approves the task.                                                 *)
Funds(a, key) ==
    /\ OrganizationOf(a) = token_accounts[key].owner
    /\ task_proposals[a].status = "Active" /\ task_proposals'[a].status = "Approved"
    /\ token_accounts'[key].amount = token_accounts[key].amount - task_proposals[a].payment_amount

SpentOnTasks ==
    \A key \in DOMAIN token_accounts :
        token_accounts[key].owner \in Orgs
          /\ token_accounts'[key].amount < token_accounts[key].amount
        => \E a \in DOMAIN task_proposals : Funds(a, key)

(* A vote takes from the treasury what the task it approves is to be paid. *)
LEMMA VoteSpends ==
    ASSUME TaskInv, NEW v \in Wallets, NEW a \in DOMAIN task_proposals, NEW task \in TaskAddresses,
           NEW treasury \in TokenAccounts, NEW vote \in BOOLEAN, NEW tokens \in TokenAmounts,
           VoteOnTaskProposal(v, a, task, treasury, vote, tokens)
    PROVE  AccountsStay /\ SpentOnTasks
  <1> DEFINE p == task_proposals[a]
             u == WithVote(a, v, vote)
  <1>1. /\ p \in TaskProposal /\ p.status = "Active"
        /\ treasury \in DOMAIN token_accounts
        /\ token_accounts[treasury].owner = OrganizationOf(a)
        /\ task_proposals' = [task_proposals EXCEPT ![a] = u]
        /\ \/ u.status = "Approved" /\ FundVault(treasury, a, u)
           \/ UNCHANGED token_accounts
    BY DEF TaskInv, TypeOK, VoteOnTaskProposal, VoteOnTaskProposalAccounts, IsOpen,
           IsTreasuryAccount, CreateTaskAndVault
  <1>2. projects[a[1]] \in Project
    BY DEF TaskInv, TypeOK, TasksSound, ProjectsTypeOK
  <1>3. u.payment_amount = p.payment_amount
    BY <1>1, <1>2, VoteOnTask
  <1> HIDE DEF u
  <1>4. AccountsTypeOK
    BY DEF TaskInv, TreasuryInv, TreasuryTypeOK, AccountsTypeOK
  <1>5. CASE UNCHANGED token_accounts
    BY <1>4, <1>5, AccountsAmounts DEF AccountsStay, SpentOnTasks
  <1>6. CASE u.status = "Approved" /\ FundVault(treasury, a, u)
    <2>1. token_accounts' = [token_accounts EXCEPT ![treasury].amount = @ - p.payment_amount]
      BY <1>3, <1>6 DEF FundVault
    <2>2. /\ AccountsStay
          /\ token_accounts'[treasury].amount = token_accounts[treasury].amount - p.payment_amount
          /\ \A k \in DOMAIN token_accounts : k # treasury => token_accounts'[k] = token_accounts[k]
      BY <1>1, <1>4, <2>1 DEF AccountsTypeOK, AccountsStay, TokenAccount
    <2>3. Funds(a, treasury)
      BY <1>1, <1>6, <2>2 DEF Funds
    <2>4. SpentOnTasks
      <3> SUFFICES ASSUME NEW key \in DOMAIN token_accounts,
                          token_accounts'[key].amount < token_accounts[key].amount
                   PROVE  key = treasury
        BY <2>3 DEF SpentOnTasks
      <3> QED
        BY <1>4, <2>2, AccountsAmounts
    <2> QED
      BY <2>2, <2>4
  <1> QED
    BY <1>1, <1>5, <1>6

(* A review takes nothing from a treasury account.                         *)
LEMMA ReviewSpends ==
    ASSUME TaskInv, NEW w \in Wallets, NEW a \in DOMAIN tasks, NEW account \in TokenAccounts,
           EnableTaskVaultWithdrawal(w, a, account)
    PROVE  AccountsStay /\ SpentOnTasks
  <1> DEFINE amount == task_vaults[a].amount
  <1>1. /\ account \in DOMAIN token_accounts
        /\ token_accounts' = [token_accounts EXCEPT ![account].amount = @ + amount]
    BY DEF EnableTaskVaultWithdrawal, EnableTaskVaultWithdrawalAccounts
  <1>2. amount \in Nat
    BY DEF TaskInv, TypeOK, TaskVault
  <1> HIDE DEF amount
  <1>3. AccountsTypeOK
    BY DEF TaskInv, TreasuryInv, TreasuryTypeOK, AccountsTypeOK
  <1>4. /\ AccountsStay
        /\ token_accounts'[account].amount = token_accounts[account].amount + amount
        /\ \A k \in DOMAIN token_accounts : k # account => token_accounts'[k] = token_accounts[k]
    BY <1>1, <1>3 DEF AccountsTypeOK, AccountsStay, TokenAccount
  <1>5. SpentOnTasks
    <2> SUFFICES ASSUME NEW key \in DOMAIN token_accounts
                 PROVE  ~(token_accounts'[key].amount < token_accounts[key].amount)
      BY DEF SpentOnTasks
    <2>1. token_accounts[key].amount \in Nat
      BY <1>3, AccountsAmounts
    <2> QED
      BY <1>2, <1>4, <2>1
  <1> QED
    BY <1>4, <1>5

(* No step of a task closes an account, drops a contributor or spends a    *)
(* treasury on anything but the task it approves.                          *)
LEMMA TasksSpend ==
    ASSUME TaskInv, Propose \/ Vote \/ Complete \/ Review
    PROVE  OrgsStay /\ AccountsStay /\ SpentOnTasks
  <1>1. UNCHANGED organization
    <2>1. CASE Propose
      BY <2>1 DEF Propose, ProposeTask, treasuryVars, orgVars
    <2>2. CASE Complete
      BY <2>2 DEF Complete, CompleteTask, treasuryVars, orgVars
    <2>3. CASE Vote
      BY <2>3 DEF Vote, VoteOnTaskProposal, orgVars
    <2>4. CASE Review
      BY <2>4 DEF Review, EnableTaskVaultWithdrawal, orgVars
    <2> QED
      BY <2>1, <2>2, <2>3, <2>4
  <1>2. OrgsStay
    BY <1>1 DEF OrgsStay, Contributors
  <1>3. CASE Propose \/ Complete
    <2>1. UNCHANGED token_accounts
      <3>1. CASE Propose
        BY <3>1 DEF Propose, ProposeTask, treasuryVars
      <3>2. CASE Complete
        BY <3>2 DEF Complete, CompleteTask, treasuryVars
      <3> QED
        BY <1>3, <3>1, <3>2
    <2>2. AccountsTypeOK
      BY DEF TaskInv, TreasuryInv, TreasuryTypeOK, AccountsTypeOK
    <2>3. AccountsStay
      BY <2>1 DEF AccountsStay
    <2>4. SpentOnTasks
      BY <2>1, <2>2, AccountsAmounts DEF SpentOnTasks
    <2> QED
      BY <1>2, <2>3, <2>4
  <1>4. CASE Vote
    BY <1>2, <1>4, VoteSpends DEF Vote
  <1>5. CASE Review
    BY <1>2, <1>5, ReviewSpends DEF Review
  <1> QED
    BY <1>3, <1>4, <1>5

-----------------------------------------------------------------------------
(* The invariant of tasks and vaults holds in every reachable state.       *)
THEOREM TaskInvariant == Spec => []TaskInv
  BY TaskInit, TaskStep, PTL DEF Spec

(* Accounts keep their shape, and every stored time fits an i64.           *)
THEOREM TaskTypes == Spec => []TypeOK
  <1>1. TaskInv => TypeOK
    BY DEF TaskInv
  <1> QED
    BY <1>1, TaskInvariant, PTL

(* Until a task is paid its vault holds the payment its approving vote     *)
(* moved there, in the mint that was voted on (vote_on_task_proposal,      *)
(* enable_task_vault_withdrawal).                                          *)
THEOREM VaultsHoldPayments == Spec => []VaultsCoverTasks
  <1>1. TaskInv => VaultsCoverTasks
    BY DEF TaskInv
  <1> QED
    BY <1>1, TaskInvariant, PTL

(* The votes behind every task reach its project's threshold, in exact     *)
(* fractions, however the program rounds (vote_on_task_proposal).          *)
THEOREM ApprovalsAreEarned == Spec => []TaskApprovalIsEarned
  <1>1. TaskInv => TaskApprovalIsEarned
    BY DEF TaskInv
  <1> QED
    BY <1>1, TaskInvariant, PTL

-----------------------------------------------------------------------------
(***************************************************************************)
(* Refinement of Ballots.                                                  *)
(***************************************************************************)
(* A new task proposal is a ballot without votes.                          *)
LEMMA ProposeOpensTaskBallot ==
    ASSUME NEW w \in Wallets, NEW assignee \in Wallets, NEW a \in TaskAddresses,
           NEW amount \in Amounts, NEW mint \in Mints, NEW treasury \in TokenAccounts,
           NEW destination \in TokenAccounts, NEW tokens \in TokenAmounts,
           ProposeTask(w, a, amount, assignee, mint, treasury, destination, tokens)
    PROVE  Ballot!BallotsNext
  <1>1. PICK prop :
          /\ task_proposals' = StoreAccount(task_proposals, a, prop)
          /\ prop.status = "Active" /\ prop.voters = {}
          /\ prop.votes_for = 0 /\ prop.votes_against = 0
    BY DEF ProposeTask
  <1>2. a \notin DOMAIN task_proposals
    BY DEF ProposeTask, ProposeTaskAccounts
  <1>3. /\ DOMAIN task_proposals' = DOMAIN task_proposals \cup {a}
        /\ \A b \in DOMAIN task_proposals : task_proposals'[b] = task_proposals[b]
        /\ task_proposals'[a] = prop
    BY <1>1, <1>2 DEF StoreAccount
  <1>4. Ballot!Open(a)
    BY <1>1, <1>2, <1>3 DEF Ballot!Open
  <1> QED
    BY <1>3, <1>4 DEF Ballot!BallotsNext

(* A member's vote on a task is a vote cast on an open ballot.             *)
LEMMA VoteCastsTaskBallot ==
    ASSUME TaskInv, NEW v \in Wallets, NEW a \in DOMAIN task_proposals, NEW task \in TaskAddresses,
           NEW treasury \in TokenAccounts, NEW vote \in BOOLEAN, NEW tokens \in TokenAmounts,
           VoteOnTaskProposal(v, a, task, treasury, vote, tokens)
    PROVE  Ballot!BallotsNext
  <1> DEFINE p == task_proposals[a]
             for == IF vote THEN 1 ELSE 0
             against == IF vote THEN 0 ELSE 1
             counted == [p EXCEPT !.votes_for = @ + for, !.votes_against = @ + against,
                                  !.voters = @ \cup {v}]
             st == TaskStatusAfter(counted, projects[a[1]])
  <1>1. /\ p \in TaskProposal /\ p.status = "Active"
        /\ v \in Members(projects[a[1]]) /\ v \notin p.voters
        /\ now <= p.expires_at
        /\ task_proposals' = [task_proposals EXCEPT ![a] = WithVote(a, v, vote)]
    BY DEF VoteOnTaskProposal, VoteOnTaskProposalAccounts, AlreadyVoted, IsOpen,
           IsProjectMember, TaskInv, TypeOK
  <1>2. projects[a[1]] \in Project
    BY DEF TaskInv, TypeOK, TasksSound, ProjectsTypeOK
  <1>3. WithVote(a, v, vote).status \in {"Active", "Approved", "Rejected"}
    BY <1>1, <1>2, VoteOnTask
  <1>4. WithVote(a, v, vote) = [counted EXCEPT !.status = st]
    BY DEF WithVote
  <1>5. [counted EXCEPT !.status = st] = Ballot!Counted(p, v, for, against, st)
    <2> HIDE DEF st
    <2> QED
      BY <1>1 DEF Ballot!Counted, TaskProposal
  <1>6. st \in {"Active", "Approved", "Rejected"}
    <2> HIDE DEF st
    <2>1. counted.status = "Active" /\ [counted EXCEPT !.status = st].status = st
      BY <1>1 DEF TaskProposal
    <2> QED
      BY <1>3, <1>4, <2>1
  <1>7. for \in {0, 1} /\ against = 1 - for
    OBVIOUS
  <1> HIDE DEF for, against, counted, st
  <1>8. task_proposals' = [task_proposals EXCEPT ![a] = Ballot!Counted(p, v, for, 1 - for, st)]
    BY <1>1, <1>4, <1>5, <1>7
  <1>9. Ballot!Cast(a, v)
    BY <1>1, <1>6, <1>7, <1>8 DEF Ballot!Cast
  <1> QED
    BY <1>9 DEF Ballot!BallotsNext

(* Tasks keep the promise of Ballots among the members of their project.   *)
THEOREM TaskBallotsImplemented == Spec => TaskBallots
  <1>1. Init => Ballot!BallotsInit
    BY DEF Init, EmptyMap, Ballot!BallotsInit
  <1>2. TaskInv /\ [Next]_vars => [Ballot!BallotsNext]_task_proposals
    <2> SUFFICES ASSUME TaskInv, [Next]_vars
                 PROVE  Ballot!BallotsNext \/ UNCHANGED task_proposals
      OBVIOUS
    <2>1. CASE Propose
      BY <2>1, ProposeOpensTaskBallot DEF Propose
    <2>2. CASE Vote
      BY <2>2, VoteCastsTaskBallot DEF Vote
    <2>3. CASE Complete
      BY <2>3 DEF Complete, CompleteTask
    <2>4. CASE Review
      BY <2>4 DEF Review, EnableTaskVaultWithdrawal
    <2>5. CASE UNCHANGED taskVars
      BY <2>5 DEF taskVars
    <2> QED
      BY <2>1, <2>2, <2>3, <2>4, <2>5 DEF Next, vars
  <1> QED
    BY <1>1, <1>2, TaskInvariant, PTL DEF Spec, TaskBallots, Ballot!BallotsSpec

-----------------------------------------------------------------------------
(***************************************************************************)
(* Refinement of Escrow.                                                   *)
(***************************************************************************)
EscrowOf(a) ==
    [payee |-> tasks[a].assignee, amount |-> task_vaults[a].amount,
     held |-> vault_token_accounts[a].amount, phase |-> tasks[a].status,
     judge |-> tasks[a].reviewer]

Escrows == [a \in DOMAIN tasks |-> EscrowOf(a)]

(* A vote opens the escrow of the task it approves, and touches no other.  *)
LEMMA VoteOpensEscrow ==
    ASSUME TaskInv, TaskInv', NEW v \in Wallets, NEW a \in DOMAIN task_proposals,
           NEW task \in TaskAddresses, NEW treasury \in TokenAccounts, NEW vote \in BOOLEAN,
           NEW tokens \in TokenAmounts,
           VoteOnTaskProposal(v, a, task, treasury, vote, tokens)
    PROVE  Promise!EscrowNext \/ UNCHANGED Escrows
  <1> DEFINE u == WithVote(a, v, vote)
  <1>1. \/ u.status = "Approved" /\ CreateTaskAndVault(a, treasury, u)
        \/ /\ vault_token_accounts' = StoreAccount(vault_token_accounts, task,
                 VaultTokenAccountFor(task, task_proposals[a].token_mint))
           /\ UNCHANGED <<tasks, task_vaults>>
    BY DEF VoteOnTaskProposal
  <1>2. /\ DOMAIN tasks \subseteq DOMAIN vault_token_accounts
        /\ DOMAIN task_vaults = DOMAIN tasks /\ a \in TaskAddresses
    BY DEF TaskInv, TypeOK, VaultsCoverTasks
  <1>3. CASE u.status = "Approved" /\ CreateTaskAndVault(a, treasury, u)
    <2>1. PICK made, vault, account :
            /\ a \notin DOMAIN tasks
            /\ tasks' = StoreAccount(tasks, a, made)
            /\ made.status = "Ready" /\ made.reviewer = Nobody
            /\ task_vaults' = StoreAccount(task_vaults, a, vault)
            /\ vault_token_accounts' = StoreAccount(vault_token_accounts, a, account)
      <3> HIDE DEF u
      <3> QED
        BY <1>3 DEF CreateTaskAndVault, FundVault
    <2>2. /\ DOMAIN tasks' = DOMAIN tasks \cup {a} /\ tasks'[a] = made
          /\ \A b \in DOMAIN tasks : tasks'[b] = tasks[b]
          /\ \A b \in DOMAIN tasks : task_vaults'[b] = task_vaults[b]
          /\ \A b \in DOMAIN tasks : vault_token_accounts'[b] = vault_token_accounts[b]
      BY <1>2, <2>1 DEF StoreAccount
    <2>3. /\ tasks'[a].assignee \in Wallets /\ tasks'[a].status = "Ready"
          /\ tasks'[a].reviewer = Nobody
          /\ task_vaults'[a].amount = vault_token_accounts'[a].amount
      BY <2>1, <2>2 DEF TaskInv, TypeOK, TasksSound, VaultsCoverTasks, Task
    <2>4. Promise!Open(a)
      BY <2>1, <2>2, <2>3 DEF Promise!Open, Promise!Opened
    <2> QED
      BY <1>2, <2>4 DEF Promise!EscrowNext
  <1>4. CASE /\ vault_token_accounts' = StoreAccount(vault_token_accounts, task,
                 VaultTokenAccountFor(task, task_proposals[a].token_mint))
             /\ UNCHANGED <<tasks, task_vaults>>
    <2>1. \A b \in DOMAIN tasks : vault_token_accounts'[b] = vault_token_accounts[b]
      BY <1>2, <1>4 DEF StoreAccount, VaultTokenAccountFor
    <2>2. \A b \in DOMAIN tasks : EscrowOf(b)' = EscrowOf(b)
      BY <1>4, <2>1 DEF EscrowOf
    <2> QED
      BY <1>4, <2>2 DEF Escrows
  <1> QED
    BY <1>1, <1>3, <1>4

(* complete_task delivers.                                                 *)
LEMMA CompleteDelivers ==
    ASSUME TaskInv, NEW w \in Wallets, NEW a \in DOMAIN tasks, CompleteTask(w, a)
    PROVE  Promise!EscrowNext
  <1>1. /\ tasks[a].status = "Ready"
        /\ tasks' = [tasks EXCEPT ![a].status = "Completed"]
        /\ UNCHANGED <<task_vaults, vault_token_accounts>>
    BY DEF CompleteTask, CompleteTaskAccounts, HasStatus
  <1>2. \A b \in DOMAIN tasks : tasks[b] \in Task
    BY DEF TaskInv, TypeOK
  <1>3. Escrows[a].phase = "Ready"
    BY <1>1 DEF Escrows, EscrowOf
  <1>4. Escrows' = [Escrows EXCEPT ![a].phase = "Completed"]
    <2>1. /\ DOMAIN tasks' = DOMAIN tasks
          /\ EscrowOf(a)' = [EscrowOf(a) EXCEPT !.phase = "Completed"]
          /\ \A b \in DOMAIN tasks : b # a => EscrowOf(b)' = EscrowOf(b)
      BY <1>1, <1>2 DEF EscrowOf, Task
    <2> HIDE DEF EscrowOf
    <2> QED
      BY <2>1 DEF Escrows
  <1>5. Promise!Deliver(a)
    BY <1>3, <1>4 DEF Promise!Deliver, Escrows, EscrowOf
  <1> QED
    BY <1>5 DEF Promise!EscrowNext

(* The review settles, and its reviewer is not the payee.                  *)
LEMMA ReviewSettles ==
    ASSUME TaskInv, NEW w \in Wallets, NEW a \in DOMAIN tasks, NEW account \in TokenAccounts,
           EnableTaskVaultWithdrawal(w, a, account)
    PROVE  Promise!EscrowNext
  <1>1. /\ tasks[a].status = "Completed" /\ tasks[a].assignee # w
        /\ tasks' = [tasks EXCEPT ![a].reviewer = w, ![a].status = "Paid"]
        /\ task_vaults' = [task_vaults EXCEPT ![a].is_withdrawable = TRUE]
        /\ vault_token_accounts' =
             [vault_token_accounts EXCEPT ![a].amount = @ - task_vaults[a].amount]
    BY DEF EnableTaskVaultWithdrawal, EnableTaskVaultWithdrawalAccounts, HasStatus, MayReview
  <1>2. /\ \A b \in DOMAIN tasks : tasks[b] \in Task /\ task_vaults[b] \in TaskVault
        /\ \A b \in DOMAIN tasks : vault_token_accounts[b] \in VaultTokenAccount
        /\ DOMAIN tasks \subseteq DOMAIN vault_token_accounts /\ DOMAIN task_vaults = DOMAIN tasks
    BY DEF TaskInv, TypeOK, VaultsCoverTasks
  <1>3. Escrows[a].phase = "Completed" /\ Escrows[a].payee # w
    BY <1>1 DEF Escrows, EscrowOf
  <1>4. Escrows' = [Escrows EXCEPT ![a].phase = "Paid", ![a].judge = w,
                                   ![a].held = @ - Escrows[a].amount]
    <2>1. /\ DOMAIN tasks' = DOMAIN tasks
          /\ tasks'[a] = [tasks[a] EXCEPT !.reviewer = w, !.status = "Paid"]
          /\ task_vaults'[a] = [task_vaults[a] EXCEPT !.is_withdrawable = TRUE]
          /\ vault_token_accounts'[a] =
               [vault_token_accounts[a] EXCEPT !.amount = @ - task_vaults[a].amount]
          /\ \A b \in DOMAIN tasks : b # a =>
               /\ tasks'[b] = tasks[b] /\ task_vaults'[b] = task_vaults[b]
               /\ vault_token_accounts'[b] = vault_token_accounts[b]
      BY <1>1, <1>2
    <2>2. /\ tasks'[a].assignee = tasks[a].assignee /\ tasks'[a].status = "Paid"
          /\ tasks'[a].reviewer = w
          /\ task_vaults'[a].amount = task_vaults[a].amount
          /\ vault_token_accounts'[a].amount =
               vault_token_accounts[a].amount - task_vaults[a].amount
      BY <1>2, <2>1 DEF Task, TaskVault, VaultTokenAccount
    <2>3. EscrowOf(a)' = [EscrowOf(a) EXCEPT !.phase = "Paid", !.judge = w,
                                             !.held = @ - EscrowOf(a).amount]
      <3> DEFINE rest == vault_token_accounts[a].amount - task_vaults[a].amount
      <3>1. EscrowOf(a)' = [payee |-> tasks[a].assignee, amount |-> task_vaults[a].amount,
                            held |-> rest, phase |-> "Paid", judge |-> w]
        BY <2>2 DEF EscrowOf
      <3>2. EscrowOf(a).held - EscrowOf(a).amount = rest
        BY DEF EscrowOf
      <3> HIDE DEF rest
      <3>3. [EscrowOf(a) EXCEPT !.phase = "Paid", !.judge = w, !.held = rest] =
              [payee |-> tasks[a].assignee, amount |-> task_vaults[a].amount,
               held |-> rest, phase |-> "Paid", judge |-> w]
        <4> DEFINE new == [EscrowOf(a) EXCEPT !.phase = "Paid", !.judge = w, !.held = rest]
        <4>1. DOMAIN new = {"payee", "amount", "held", "phase", "judge"}
          BY DEF EscrowOf
        <4>2. /\ new.payee = tasks[a].assignee /\ new.amount = task_vaults[a].amount
              /\ new.held = rest /\ new.phase = "Paid" /\ new.judge = w
          BY DEF EscrowOf
        <4>3. new = [x \in DOMAIN new |-> new[x]]
          OBVIOUS
        <4> HIDE DEF new
        <4>4. new = [payee |-> tasks[a].assignee, amount |-> task_vaults[a].amount,
                     held |-> rest, phase |-> "Paid", judge |-> w]
          BY <4>1, <4>2, <4>3
        <4> QED
          BY <4>4 DEF new
      <3> HIDE DEF EscrowOf
      <3> QED
        BY <3>1, <3>2, <3>3
    <2>4. \A b \in DOMAIN tasks : b # a => EscrowOf(b)' = EscrowOf(b)
      BY <2>1 DEF EscrowOf
    <2> HIDE DEF EscrowOf
    <2> QED
      BY <2>1, <2>3, <2>4 DEF Escrows
  <1>5. Promise!Settle(a, w)
    BY <1>3, <1>4 DEF Promise!Settle, Escrows, EscrowOf
  <1> QED
    BY <1>5 DEF Promise!EscrowNext

(* Votes, deliveries and reviews keep the promise of Escrow: a payment is  *)
(* set aside in full, and goes to the assignee once another has judged.    *)
THEOREM EscrowImplemented == Spec => PromiseKept
  <1>1. Init => Promise!EscrowInit
    BY DEF Init, EmptyMap, Promise!EscrowInit
  <1>2. TaskInv /\ TaskInv' /\ [Next]_vars => Promise!EscrowNext \/ UNCHANGED Escrows
    <2> SUFFICES ASSUME TaskInv, TaskInv', [Next]_vars
                 PROVE  Promise!EscrowNext \/ UNCHANGED Escrows
      OBVIOUS
    <2>1. CASE UNCHANGED <<tasks, task_vaults, vault_token_accounts>>
      BY <2>1 DEF Escrows, EscrowOf
    <2>2. CASE Propose
      BY <2>1, <2>2 DEF Propose, ProposeTask
    <2>3. CASE Vote
      BY <2>3, VoteOpensEscrow DEF Vote
    <2>4. CASE Complete
      BY <2>4, CompleteDelivers DEF Complete
    <2>5. CASE Review
      BY <2>5, ReviewSettles DEF Review
    <2>6. CASE UNCHANGED taskVars
      BY <2>1, <2>6 DEF taskVars
    <2> QED
      BY <2>2, <2>3, <2>4, <2>5, <2>6 DEF Next, vars
  <1> QED
    BY <1>1, <1>2, TaskInvariant, PTL
    DEF Spec, PromiseKept, Promise!EscrowSpec, Escrows, EscrowOf

-----------------------------------------------------------------------------
(***************************************************************************)
(* The supply: what accounts hold together.                                *)
(***************************************************************************)
(* An account that a sum of amounts takes first. *)
One(s) == CHOOSE x \in s : TRUE

(* h[s] is the sum of the amounts of accounts over s, for every part s of  *)
(* S, as the fold of Held adds them up.                                    *)
Adds(h, accounts, S) ==
    h = [s \in SUBSET S |-> IF s = {} THEN 0 ELSE accounts[One(s)].amount + h[s \ {One(s)}]]

HasAmounts(accounts, S) == \A x \in S : accounts[x].amount \in Nat

(* Among some parts of a finite set there is one that contains no other. *)
LEMMA LeastPart ==
    ASSUME NEW S, IsFiniteSet(S), NEW B \in SUBSET (SUBSET S), B # {}
    PROVE  \E s \in B : \A t \in SUBSET s : t # s => t \notin B
  <1>1. B \subseteq FiniteSubsetsOf(S)
    BY FS_Subset DEF FiniteSubsetsOf
  <1>2. PICK s \in B : \A t \in B : ~ (<<t, s>> \in StrictSubsetOrdering(S))
    BY <1>1, FS_StrictSubsetOrderingWellFounded, WFMin
  <1>3. ASSUME NEW t \in SUBSET s, t # s PROVE t \notin B
    BY <1>1, <1>2, <1>3, FS_Subset DEF StrictSubsetOrdering, FiniteSubsetsOf
  <1> QED BY <1>3

(* A sum is that of the account taken first and of the others. *)
LEMMA AddsUp ==
    ASSUME NEW h, NEW accounts, NEW S, Adds(h, accounts, S), NEW s \in SUBSET S
    PROVE  /\ s = {} => h[s] = 0
           /\ s # {} => /\ One(s) \in s
                        /\ h[s] = accounts[One(s)].amount + h[s \ {One(s)}]
  <1>1. s # {} => One(s) \in s
    BY DEF One
  <1> QED BY <1>1 DEF Adds

(* Amounts add up to a number. *)
LEMMA SumIsNatural ==
    ASSUME NEW S, IsFiniteSet(S), NEW accounts, HasAmounts(accounts, S),
           NEW h, Adds(h, accounts, S)
    PROVE  \A s \in SUBSET S : h[s] \in Nat
  <1> DEFINE B == {s \in SUBSET S : h[s] \notin Nat}
  <1> SUFFICES ASSUME B # {} PROVE FALSE
    OBVIOUS
  <1>1. \E s \in B : \A t \in SUBSET s : t # s => t \notin B
    <2>1. B \in SUBSET (SUBSET S)
      OBVIOUS
    <2> HIDE DEF B
    <2> QED BY <2>1, LeastPart
  <1>2. PICK s \in B : \A t \in SUBSET s : t # s => t \notin B
    BY <1>1
  <1>3. CASE s = {}
    BY <1>3, AddsUp
  <1>4. CASE s # {}
    <2>1. One(s) \in s /\ h[s] = accounts[One(s)].amount + h[s \ {One(s)}]
      BY <1>4, AddsUp
    <2>2. h[s \ {One(s)}] \in Nat
      BY <1>2, <2>1
    <2> QED BY <2>1, <2>2 DEF HasAmounts
  <1> QED BY <1>3, <1>4

(* Where two maps have the same amounts they have the same sums. *)
LEMMA SumsAgree ==
    ASSUME NEW S, NEW T, IsFiniteSet(S), NEW accounts, NEW others,
           NEW h, Adds(h, accounts, S), NEW g, Adds(g, others, T),
           \A x \in S \cap T : accounts[x].amount = others[x].amount
    PROVE  \A s \in SUBSET (S \cap T) : h[s] = g[s]
  <1> DEFINE B == {s \in SUBSET (S \cap T) : h[s] # g[s]}
  <1> SUFFICES ASSUME B # {} PROVE FALSE
    OBVIOUS
  <1>1. \E s \in B : \A t \in SUBSET s : t # s => t \notin B
    <2>1. B \in SUBSET (SUBSET S)
      OBVIOUS
    <2> HIDE DEF B
    <2> QED BY <2>1, LeastPart
  <1>2. PICK s \in B : \A t \in SUBSET s : t # s => t \notin B
    BY <1>1
  <1>3. CASE s = {}
    BY <1>3, AddsUp
  <1>4. CASE s # {}
    <2>1. /\ One(s) \in s
          /\ h[s] = accounts[One(s)].amount + h[s \ {One(s)}]
          /\ g[s] = others[One(s)].amount + g[s \ {One(s)}]
      BY <1>4, AddsUp
    <2>2. h[s \ {One(s)}] = g[s \ {One(s)}]
      BY <1>2, <2>1
    <2> QED BY <2>1, <2>2
  <1> QED BY <1>3, <1>4

(* A sum over a part is the same whatever the part is taken from. *)
LEMMA SumOfPart ==
    ASSUME NEW S, IsFiniteSet(S), NEW T \in SUBSET S, NEW accounts,
           NEW h, Adds(h, accounts, S), NEW g, Adds(g, accounts, T)
    PROVE  h[T] = g[T]
  <1>1. \A s \in SUBSET (S \cap T) : h[s] = g[s]
    BY SumsAgree
  <1> QED BY <1>1

(* Every finite set of accounts can be added up: if some part could not,   *)
(* a least one could not, and that one has the sum of its first account    *)
(* and of the others.                                                      *)
LEMMA SumExists ==
    ASSUME NEW S, IsFiniteSet(S), NEW accounts
    PROVE  \E h : Adds(h, accounts, S)
  <1> DEFINE B == {s \in SUBSET S : ~ \E h : Adds(h, accounts, s)}
  <1> SUFFICES ASSUME B # {} PROVE FALSE
    OBVIOUS
  <1>1. \E s \in B : \A t \in SUBSET s : t # s => t \notin B
    <2>1. B \in SUBSET (SUBSET S)
      OBVIOUS
    <2> HIDE DEF B
    <2> QED BY <2>1, LeastPart
  <1>2. PICK s \in B : \A t \in SUBSET s : t # s => t \notin B
    BY <1>1
  <1> DEFINE Sum(t) == CHOOSE h : Adds(h, accounts, t)
             Value(t) == IF t = {} THEN 0 ELSE accounts[One(t)].amount + Sum(t \ {One(t)})[t \ {One(t)}]
             h == [t \in SUBSET s |-> Value(t)]
  <1>3. ASSUME NEW t \in SUBSET s, t # s
        PROVE  Adds(Sum(t), accounts, t)
    <2>1. \E f : Adds(f, accounts, t)
      BY <1>2, <1>3
    <2> QED BY <2>1, Zenon
  <1>4. ASSUME NEW t \in SUBSET s, t # s
        PROVE  Sum(t)[t] = Value(t)
    <2> DEFINE u == t \ {One(t)}
    <2>1. CASE t = {}
      BY <1>3, <1>4, <2>1, AddsUp
    <2>2. CASE t # {}
      <3>1. One(t) \in t /\ Sum(t)[t] = accounts[One(t)].amount + Sum(t)[u]
        BY <1>3, <1>4, <2>2, AddsUp
      <3>2. u \in SUBSET s /\ u # s /\ IsFiniteSet(t)
        BY <1>4, <3>1, FS_Subset
      <3>3. Adds(Sum(t), accounts, t) /\ Adds(Sum(u), accounts, u)
        BY <1>3, <1>4, <3>2
      <3> HIDE DEF u, Sum
      <3>4. u \in SUBSET t
        BY DEF u
      <3>5. ASSUME NEW f, NEW g, Adds(f, accounts, t), Adds(g, accounts, u)
            PROVE  f[u] = g[u]
        BY <3>2, <3>4, <3>5, SumOfPart
      <3>6. Sum(t)[u] = Sum(u)[u]
        BY <3>3, <3>5
      <3> QED BY <2>2, <3>1, <3>6 DEF u
    <2> QED BY <2>1, <2>2
  <1> HIDE DEF Sum
  <1>5. ASSUME NEW t \in SUBSET s
        PROVE  h[t] = IF t = {} THEN 0 ELSE accounts[One(t)].amount + h[t \ {One(t)}]
    <2>1. CASE t = {}
      BY <2>1
    <2>2. CASE t # {}
      <3>1. One(t) \in t
        BY <2>2 DEF One
      <3>2. t \ {One(t)} \in SUBSET s /\ t \ {One(t)} # s
        BY <3>1
      <3>3. h[t \ {One(t)}] = Sum(t \ {One(t)})[t \ {One(t)}]
        BY <3>2, <1>4
      <3> QED BY <2>2, <3>3
    <2> QED BY <2>1, <2>2
  <1>6. Adds(h, accounts, s)
    <2> HIDE DEF Value
    <2>1. h = [t \in SUBSET s |-> h[t]]
      OBVIOUS
    <2> HIDE DEF h
    <2> QED BY <1>5, <2>1, Zenon DEF Adds
  <1> QED BY <1>6

(* Not only the account taken first can be taken out of a sum. *)
LEMMA TakeOut ==
    ASSUME NEW S, IsFiniteSet(S), NEW accounts, HasAmounts(accounts, S),
           NEW h, Adds(h, accounts, S)
    PROVE  \A s \in SUBSET S, x \in S : x \in s => h[s] = accounts[x].amount + h[s \ {x}]
  <1> DEFINE B == {s \in SUBSET S : \E x \in s : h[s] # accounts[x].amount + h[s \ {x}]}
  <1> SUFFICES ASSUME B # {} PROVE FALSE
    OBVIOUS
  <1>1. \E s \in B : \A t \in SUBSET s : t # s => t \notin B
    <2>1. B \in SUBSET (SUBSET S)
      OBVIOUS
    <2> HIDE DEF B
    <2> QED BY <2>1, LeastPart
  <1>2. PICK s \in B : \A t \in SUBSET s : t # s => t \notin B
    BY <1>1
  <1>3. PICK x \in s : h[s] # accounts[x].amount + h[s \ {x}]
    BY <1>2
  <1> DEFINE c == One(s)
  <1>4. c \in s /\ h[s] = accounts[c].amount + h[s \ {c}]
    BY <1>2, <1>3, AddsUp
  <1> HIDE DEF c
  <1>5. c # x
    BY <1>3, <1>4
  <1>6. /\ h[s \ {c}] = accounts[x].amount + h[(s \ {c}) \ {x}]
        /\ h[s \ {x}] = accounts[c].amount + h[(s \ {x}) \ {c}]
    BY <1>2, <1>3, <1>4, <1>5
  <1>7. (s \ {c}) \ {x} = (s \ {x}) \ {c}
    OBVIOUS
  <1>8. /\ h[(s \ {x}) \ {c}] \in Nat
        /\ accounts[c].amount \in Nat /\ accounts[x].amount \in Nat
    BY <1>2, <1>3, <1>4, SumIsNatural DEF HasAmounts
  <1> DEFINE rest == h[(s \ {x}) \ {c}]
  <1>9. /\ h[s \ {c}] = accounts[x].amount + rest
        /\ h[s \ {x}] = accounts[c].amount + rest
        /\ rest \in Nat
    BY <1>6, <1>7, <1>8
  <1> HIDE DEF rest
  <1>10. h[s] = accounts[x].amount + h[s \ {x}]
    BY <1>4, <1>8, <1>9
  <1> QED BY <1>3, <1>10

(* Accounts that can be added up. *)
Ledger(accounts) ==
    /\ IsFiniteSet(DOMAIN accounts)
    /\ HasAmounts(accounts, DOMAIN accounts)

KeysOf(accounts, mint) == {k \in DOMAIN accounts : accounts[k].mint = mint}

(* What Held adds up. *)
LEMMA HeldIs ==
    ASSUME NEW accounts, Ledger(accounts), NEW mint
    PROVE  \E h : /\ Adds(h, accounts, KeysOf(accounts, mint))
                  /\ Held(accounts, mint) = h[KeysOf(accounts, mint)]
  <1> DEFINE S == KeysOf(accounts, mint)
             h == CHOOSE iter : iter = [s \in SUBSET S |->
                    IF s = {} THEN 0 ELSE accounts[One(s)].amount + iter[s \ {One(s)}]]
  <1>1. \E g : Adds(g, accounts, S)
    BY FS_Subset, SumExists DEF Ledger, KeysOf
  <1>2. Adds(h, accounts, S)
    BY <1>1, Zenon DEF Adds
  <1>3. Held(accounts, mint) = h[S]
    BY Zenon DEF Held, MapThenSumSet, MapThenFoldSet, One, KeysOf
  <1> QED BY <1>2, <1>3

(* What is held is a number. *)
LEMMA HeldIsNatural ==
    ASSUME NEW accounts, Ledger(accounts), NEW mint
    PROVE  Held(accounts, mint) \in Nat
  <1> DEFINE S == KeysOf(accounts, mint)
  <1>1. IsFiniteSet(S) /\ HasAmounts(accounts, S)
    BY FS_Subset DEF Ledger, KeysOf, HasAmounts
  <1>2. PICK h : Adds(h, accounts, S) /\ Held(accounts, mint) = h[S]
    BY HeldIs
  <1> QED BY <1>1, <1>2, SumIsNatural

(* What an account adds to what is held in a mint. *)
Share(accounts, k, mint) ==
    IF k \in DOMAIN accounts /\ accounts[k].mint = mint THEN accounts[k].amount ELSE 0

(* Two ledgers that differ in one account. *)
Beside(accounts, others, k) ==
    /\ DOMAIN accounts \ {k} = DOMAIN others \ {k}
    /\ \A i \in DOMAIN accounts \ {k} :
         accounts[i].mint = others[i].mint /\ accounts[i].amount = others[i].amount

(* What is held is the share of any one account and what the others hold. *)
LEMMA ShareTakenOut ==
    ASSUME NEW accounts, Ledger(accounts), NEW k, NEW mint,
           NEW h, Adds(h, accounts, KeysOf(accounts, mint))
    PROVE  /\ h[KeysOf(accounts, mint)]
                = Share(accounts, k, mint) + h[KeysOf(accounts, mint) \ {k}]
           /\ h[KeysOf(accounts, mint) \ {k}] \in Nat /\ Share(accounts, k, mint) \in Nat
  <1> DEFINE S == KeysOf(accounts, mint)
  <1>1. IsFiniteSet(S) /\ HasAmounts(accounts, S)
    BY FS_Subset DEF Ledger, KeysOf, HasAmounts
  <1>2. \A s \in SUBSET S : h[s] \in Nat
    BY <1>1, SumIsNatural
  <1>3. CASE k \in S
    <2>1. h[S] = accounts[k].amount + h[S \ {k}]
      BY <1>1, <1>3, TakeOut
    <2>2. Share(accounts, k, mint) = accounts[k].amount /\ accounts[k].amount \in Nat
      BY <1>1, <1>3 DEF Share, KeysOf, HasAmounts
    <2> QED BY <1>2, <2>1, <2>2
  <1>4. CASE k \notin S
    <2>1. Share(accounts, k, mint) = 0 /\ S \ {k} = S
      BY <1>4 DEF Share, KeysOf
    <2>2. h[S \ {k}] = h[S]
      BY <2>1
    <2>3. h[S] \in Nat
      BY <1>2
    <2> HIDE DEF S
    <2>4. h[S] = Share(accounts, k, mint) + h[S \ {k}]
      BY <2>1, <2>2, <2>3
    <2> QED BY <2>1, <2>2, <2>3, <2>4 DEF S
  <1> QED BY <1>3, <1>4

(* Ledgers that differ in one account hold what its shares differ by. *)
LEMMA HeldDiffers ==
    ASSUME NEW accounts, Ledger(accounts), NEW others, Ledger(others), NEW k, NEW mint,
           Beside(accounts, others, k)
    PROVE  /\ Held(accounts, mint) + Share(others, k, mint)
                = Held(others, mint) + Share(accounts, k, mint)
           /\ Share(accounts, k, mint) \in Nat /\ Share(others, k, mint) \in Nat
  <1> DEFINE S == KeysOf(accounts, mint)
             T == KeysOf(others, mint)
             R == S \ {k}
  <1>1. PICK h : Adds(h, accounts, S) /\ Held(accounts, mint) = h[S]
    BY HeldIs
  <1>2. PICK g : Adds(g, others, T) /\ Held(others, mint) = g[T]
    BY HeldIs
  <1>3. R = T \ {k} /\ R \in SUBSET (S \cap T)
    BY DEF Beside, KeysOf
  <1>4. IsFiniteSet(S)
    BY FS_Subset DEF Ledger, KeysOf
  <1>5. h[R] = g[R]
    <2>1. IsFiniteSet(R) /\ R \subseteq S /\ R \subseteq T /\ IsFiniteSet(T)
      BY <1>3, <1>4, FS_Subset DEF Ledger, KeysOf
    <2>2. PICK f : Adds(f, accounts, R)
      BY <2>1, SumExists
    <2>3. h[R] = f[R]
      BY <1>1, <1>4, <2>1, <2>2, SumOfPart
    <2>4. \A x \in T \cap R : others[x].amount = accounts[x].amount
      BY DEF Beside, KeysOf
    <2>5. \A s \in SUBSET (T \cap R) : g[s] = f[s]
      BY <1>2, <2>1, <2>2, <2>4, SumsAgree
    <2> QED BY <2>1, <2>3, <2>5
  <1>6. /\ h[S] = Share(accounts, k, mint) + h[R]
        /\ h[R] \in Nat /\ Share(accounts, k, mint) \in Nat
    BY <1>1, ShareTakenOut
  <1>7. /\ g[T] = Share(others, k, mint) + g[T \ {k}]
        /\ g[T \ {k}] \in Nat /\ Share(others, k, mint) \in Nat
    BY <1>2, ShareTakenOut
  <1>8. g[T] = Share(others, k, mint) + g[R]
    BY <1>3, <1>7
  <1> HIDE DEF S, T, R
  <1> QED BY <1>1, <1>2, <1>5, <1>6, <1>7, <1>8

(* Nobody holds anything where there is no account. *)
LEMMA HeldOfNone ==
    ASSUME NEW accounts, DOMAIN accounts = {}
    PROVE  Ledger(accounts) /\ \A mint : Held(accounts, mint) = 0
  <1>1. Ledger(accounts)
    BY FS_EmptySet DEF Ledger, HasAmounts
  <1>2. ASSUME NEW mint PROVE Held(accounts, mint) = 0
    <2>1. KeysOf(accounts, mint) = {}
      BY DEF KeysOf
    <2>2. PICK h : Adds(h, accounts, {}) /\ Held(accounts, mint) = h[{}]
      BY <1>1, <2>1, HeldIs
    <2> QED BY <2>2, AddsUp
  <1> QED BY <1>1, <1>2

(* An account that is opened empty changes nothing that is held. *)
LEMMA HeldAfterOpening ==
    ASSUME NEW accounts, Ledger(accounts), NEW k, k \notin DOMAIN accounts,
           NEW account, account.amount = 0
    PROVE  /\ Ledger(StoreAccount(accounts, k, account))
           /\ \A mint : Held(StoreAccount(accounts, k, account), mint) = Held(accounts, mint)
  <1> DEFINE new == StoreAccount(accounts, k, account)
  <1>1. /\ DOMAIN new = DOMAIN accounts \cup {k} /\ new[k] = account
        /\ \A i \in DOMAIN accounts : new[i] = accounts[i]
    BY DEF StoreAccount
  <1> HIDE DEF new
  <1>2. Ledger(new)
    BY <1>1, FS_AddElement DEF Ledger, HasAmounts
  <1>3. Beside(new, accounts, k)
    BY <1>1 DEF Beside
  <1>4. ASSUME NEW mint PROVE Held(new, mint) = Held(accounts, mint)
    <2>1. Share(new, k, mint) = 0 /\ Share(accounts, k, mint) = 0
      BY <1>1 DEF Share
    <2>2. Held(new, mint) + Share(accounts, k, mint) = Held(accounts, mint) + Share(new, k, mint)
      BY <1>2, <1>3, HeldDiffers
    <2>3. Held(new, mint) \in Nat /\ Held(accounts, mint) \in Nat
      BY <1>2, HeldIsNatural
    <2> QED BY <2>1, <2>2, <2>3
  <1> QED BY <1>2, <1>4 DEF new

(* A new amount in one account changes what is held in its mint, by what   *)
(* the amounts differ.                                                     *)
LEMMA HeldAfterChange ==
    ASSUME NEW accounts, Ledger(accounts), NEW k \in DOMAIN accounts, NEW others,
           DOMAIN others = DOMAIN accounts, others[k].mint = accounts[k].mint,
           others[k].amount \in Nat,
           \A i \in DOMAIN accounts : i # k => others[i] = accounts[i]
    PROVE  /\ Ledger(others)
           /\ \A mint : Held(others, mint) =
                Held(accounts, mint) + (IF accounts[k].mint = mint
                                        THEN others[k].amount - accounts[k].amount ELSE 0)
  <1>1. Ledger(others)
    BY DEF Ledger, HasAmounts
  <1>2. Beside(others, accounts, k)
    BY DEF Beside
  <1>3. ASSUME NEW mint
        PROVE  Held(others, mint) =
                 Held(accounts, mint) + (IF accounts[k].mint = mint
                                         THEN others[k].amount - accounts[k].amount ELSE 0)
    <2>1. /\ Share(others, k, mint) = IF accounts[k].mint = mint THEN others[k].amount ELSE 0
          /\ Share(accounts, k, mint) = IF accounts[k].mint = mint THEN accounts[k].amount ELSE 0
      BY DEF Share
    <2>2. Held(others, mint) + Share(accounts, k, mint) = Held(accounts, mint) + Share(others, k, mint)
      BY <1>1, <1>2, HeldDiffers
    <2>3. /\ Held(others, mint) \in Nat /\ Held(accounts, mint) \in Nat
          /\ accounts[k].amount \in Nat
      BY <1>1, HeldIsNatural DEF Ledger, HasAmounts
    <2> QED BY <2>1, <2>2, <2>3
  <1> QED BY <1>1, <1>3

(* A ledger that is written as it was holds what it held.                  *)
LEMMA LedgerCopied ==
    ASSUME NEW accounts, Ledger(accounts), NEW others, DOMAIN others = DOMAIN accounts,
           \A i \in DOMAIN accounts : others[i] = accounts[i]
    PROVE  Ledger(others) /\ \A mint : Held(others, mint) = Held(accounts, mint)
  <1>1. Ledger(others)
    BY DEF Ledger, HasAmounts
  <1>2. ASSUME NEW mint PROVE Held(others, mint) = Held(accounts, mint)
    <2> DEFINE k == CHOOSE k : k \notin DOMAIN accounts
    <2>1. Held(others, mint) \in Nat /\ Held(accounts, mint) \in Nat
      BY <1>1, HeldIsNatural
    <2>2. Beside(others, accounts, k) /\ Share(others, k, mint) = Share(accounts, k, mint)
      BY DEF Beside, Share
    <2>3. Held(others, mint) + Share(accounts, k, mint) = Held(accounts, mint) + Share(others, k, mint)
      BY <1>1, <2>2, HeldDiffers
    <2>4. Share(accounts, k, mint) \in Nat
      BY <1>1, <2>2, HeldDiffers
    <2> HIDE DEF k
    <2> QED BY <2>1, <2>2, <2>3, <2>4
  <1> QED BY <1>1, <1>2

-----------------------------------------------------------------------------
(* The inductive invariant of the supply: there is something to add up.    *)
SupplyInv ==
    /\ Ledger(token_accounts)
    /\ Ledger(vault_token_accounts)
    /\ SupplyConserved

(* What a step makes of both kinds of accounts together. *)
SupplyKept ==
    /\ Ledger(token_accounts)' /\ Ledger(vault_token_accounts)'
    /\ \A mint \in Mints :
         Held(token_accounts, mint)' + Held(vault_token_accounts, mint)'
           = Held(token_accounts, mint) + Held(vault_token_accounts, mint)

(* At first the wallets hold everything. *)
LEMMA SupplyInit == Init => SupplyInv
  <1> SUFFICES ASSUME Init PROVE SupplyInv
    OBVIOUS
  <1>1. token_accounts = WalletAccounts /\ DOMAIN vault_token_accounts = {}
    BY DEF Init, TreasuryInit, EmptyMap
  <1>2. Ledger(token_accounts)
    BY <1>1, TreasuryAssumption DEF Ledger, HasAmounts, TokenAccount
  <1>3. Ledger(vault_token_accounts) /\ \A mint : Held(vault_token_accounts, mint) = 0
    BY <1>1, HeldOfNone
  <1>4. \A mint \in Mints : Held(token_accounts, mint) \in Nat
    BY <1>2, HeldIsNatural
  <1> QED BY <1>1, <1>2, <1>3, <1>4 DEF SupplyInv, SupplyConserved

(* A transfer between token accounts, whoever orders it. *)
LEMMA TransferKeepsSupply ==
    ASSUME AccountsTypeOK, Ledger(token_accounts), NEW from, NEW to, NEW amount \in Nat,
           TransferTokens(from, to, amount)
    PROVE  /\ Ledger(token_accounts)'
           /\ \A mint \in Mints : Held(token_accounts, mint)' = Held(token_accounts, mint)
  <1>1. /\ from \in DOMAIN token_accounts /\ to \in DOMAIN token_accounts
        /\ token_accounts[from] \in TokenAccount /\ token_accounts[to] \in TokenAccount
        /\ token_accounts[from].mint = token_accounts[to].mint
        /\ token_accounts[from].amount >= amount
        /\ token_accounts' = IF from = to THEN token_accounts
             ELSE [token_accounts EXCEPT ![from].amount = @ - amount, ![to].amount = @ + amount]
    BY DEF AccountsTypeOK, TransferTokens
  <1>2. CASE from = to
    BY <1>1, <1>2
  <1>3. CASE from # to
    <2> DEFINE between == [token_accounts EXCEPT ![from].amount = @ - amount]
    <2>1. /\ DOMAIN between = DOMAIN token_accounts
          /\ between[from].mint = token_accounts[from].mint
          /\ between[from].amount = token_accounts[from].amount - amount
          /\ \A i \in DOMAIN token_accounts : i # from => between[i] = token_accounts[i]
      BY <1>1 DEF TokenAccount
    <2>2. /\ DOMAIN token_accounts' = DOMAIN between
          /\ token_accounts'[to].mint = between[to].mint
          /\ token_accounts'[to].amount = between[to].amount + amount
          /\ \A i \in DOMAIN between : i # to => token_accounts'[i] = between[i]
      BY <1>1, <1>3 DEF TokenAccount
    <2>3. between[from].amount \in Nat /\ token_accounts'[to].amount \in Nat
      BY <1>1, <1>3, <2>1, <2>2 DEF TokenAccount
    <2> HIDE DEF between
    <2>4. /\ Ledger(between)
          /\ \A mint : Held(between, mint) = Held(token_accounts, mint)
               + (IF token_accounts[from].mint = mint
                  THEN between[from].amount - token_accounts[from].amount ELSE 0)
      BY <1>1, <2>1, <2>3, HeldAfterChange
    <2>5. ASSUME NEW new, new = token_accounts'
          PROVE  /\ Ledger(new)
                 /\ \A mint : Held(new, mint) = Held(between, mint)
                      + (IF between[to].mint = mint
                         THEN new[to].amount - between[to].amount ELSE 0)
      <3>1. /\ to \in DOMAIN between /\ DOMAIN new = DOMAIN between
            /\ new[to].mint = between[to].mint /\ new[to].amount \in Nat
            /\ \A i \in DOMAIN between : i # to => new[i] = between[i]
        BY <1>1, <2>1, <2>2, <2>3, <2>5
      <3>2. Ledger(between)
        BY <2>4
      <3> QED BY <3>1, <3>2, HeldAfterChange
    <2>6. between[to].mint = token_accounts[from].mint
      BY <1>1, <1>3, <2>1
    <2>7. ASSUME NEW mint \in Mints, NEW new, new = token_accounts'
          PROVE  Held(new, mint) = Held(token_accounts, mint)
      <3>1. /\ Held(token_accounts, mint) \in Nat
            /\ between[from].amount - token_accounts[from].amount = 0 - amount
            /\ new[to].amount - between[to].amount = amount
        BY <1>1, <1>3, <2>1, <2>2, <2>7, HeldIsNatural DEF TokenAccount
      <3> QED BY <2>4, <2>5, <2>6, <2>7, <3>1
    <2> QED BY <2>5, <2>7
  <1> QED BY <1>2, <1>3
(* An account that the token program opens is empty.                       *)
LEMMA OpeningKeepsSupply ==
    ASSUME Ledger(token_accounts), NEW key, NEW mint, NEW owner,
           InitializeAccount(key, mint, owner)
    PROVE  /\ Ledger(token_accounts)'
           /\ \A m \in Mints : Held(token_accounts, m)' = Held(token_accounts, m)
  <1> DEFINE account == [mint |-> mint, owner |-> owner, amount |-> 0]
  <1>1. /\ key \notin DOMAIN token_accounts /\ account.amount = 0
        /\ token_accounts' = StoreAccount(token_accounts, key, account)
    BY DEF InitializeAccount
  <1> HIDE DEF account
  <1> QED BY <1>1, HeldAfterOpening

(* Wallets and treasuries trade among themselves.                          *)
LEMMA FundKeepsSupply ==
    ASSUME TreasuryInv, Ledger(token_accounts), Fund
    PROVE  /\ Ledger(token_accounts)'
           /\ \A mint \in Mints : Held(token_accounts, mint)' = Held(token_accounts, mint)
  <1>1. ASSUME NEW key, NEW mint, NEW owner, OpenTokenAccount(key, mint, owner)
        PROVE  InitializeAccount(key, mint, owner)
    BY <1>1 DEF OpenTokenAccount
  <1>2. ASSUME NEW w, NEW o, InitializeTreasuryRegistry(w, o)
        PROVE  UNCHANGED token_accounts
    BY <1>2 DEF InitializeTreasuryRegistry
  <1>3. ASSUME NEW w, NEW o, NEW mint, NEW key, RegisterTreasuryToken(w, o, mint, key)
        PROVE  InitializeAccount(key, mint, o)
    BY <1>3 DEF RegisterTreasuryToken
  <1>4. ASSUME NEW w, NEW o, NEW from, NEW to, NEW amount \in Amounts,
               DepositToTreasury(w, o, from, to, amount)
        PROVE  TransferTokens(from, to, amount) /\ amount \in Nat
    BY <1>4, TreasuryAssumption DEF DepositToTreasury
  <1>5. AccountsTypeOK
    BY DEF TreasuryInv, TreasuryTypeOK, AccountsTypeOK
  <1>6. CASE UNCHANGED token_accounts
    BY <1>6
  <1>7. CASE \E key, mint, owner : InitializeAccount(key, mint, owner)
    BY <1>7, OpeningKeepsSupply
  <1>8. CASE \E from, to : \E amount \in Nat : TransferTokens(from, to, amount)
    BY <1>5, <1>8, TransferKeepsSupply
  <1> QED BY <1>1, <1>2, <1>3, <1>4, <1>6, <1>7, <1>8 DEF Fund

(* One account of a ledger has an amount more than in another ledger.      *)
Credited(accounts, others, k, amount) ==
    /\ k \in DOMAIN accounts /\ amount \in Int
    /\ DOMAIN others = DOMAIN accounts /\ others[k].mint = accounts[k].mint
    /\ others[k].amount = accounts[k].amount + amount /\ others[k].amount \in Nat
    /\ \A i \in DOMAIN accounts : i # k => others[i] = accounts[i]

LEMMA HeldAfterCredit ==
    ASSUME NEW accounts, Ledger(accounts), NEW others, NEW k, NEW amount,
           Credited(accounts, others, k, amount)
    PROVE  /\ Ledger(others)
           /\ \A mint : Held(others, mint) =
                Held(accounts, mint) + (IF accounts[k].mint = mint THEN amount ELSE 0)
  <1>1. /\ Ledger(others)
        /\ \A mint : Held(others, mint) =
             Held(accounts, mint) + (IF accounts[k].mint = mint
                                     THEN others[k].amount - accounts[k].amount ELSE 0)
    BY HeldAfterChange DEF Credited
  <1>2. others[k].amount - accounts[k].amount = amount
    BY DEF Ledger, HasAmounts, Credited
  <1> QED BY <1>1, <1>2

(* The approving vote moves the payment from the treasury to the vault.    *)
LEMMA FundVaultKeepsSupply ==
    ASSUME TaskInv, SupplyInv, NEW a \in TaskAddresses, a \notin DOMAIN tasks,
           NEW treasury \in DOMAIN token_accounts, NEW u \in TaskProposal,
           token_accounts[treasury].mint = u.token_mint,
           VaultMintMatches(a, u.token_mint), FundVault(treasury, a, u),
           UNCHANGED <<now, organization, contributor, token_registry>>
    PROVE  SupplyKept
  <1> DEFINE p == u.payment_amount
             empty == [mint |-> u.token_mint, amount |-> 0]
             opened == IF a \in DOMAIN vault_token_accounts THEN vault_token_accounts
                       ELSE StoreAccount(vault_token_accounts, a, empty)
  <1>1. p \in Nat /\ u.token_mint \in Mints /\ empty.amount = 0 /\ empty.mint = u.token_mint
    BY DEF TaskProposal
  <1>2. /\ token_accounts[treasury] \in TokenAccount
        /\ token_accounts[treasury].amount >= p
        /\ token_accounts' = [token_accounts EXCEPT ![treasury].amount = @ - p]
    BY DEF FundVault, TaskInv, TreasuryInv, TreasuryTypeOK
  <1>3. /\ DOMAIN token_accounts' = DOMAIN token_accounts
        /\ token_accounts'[treasury].mint = token_accounts[treasury].mint
        /\ token_accounts'[treasury].amount = token_accounts[treasury].amount - p
        /\ token_accounts'[treasury].amount \in Nat
        /\ \A i \in DOMAIN token_accounts : i # treasury => token_accounts'[i] = token_accounts[i]
    BY <1>1, <1>2 DEF TokenAccount
  <1>4. /\ DOMAIN vault_token_accounts' = DOMAIN vault_token_accounts \cup {a}
        /\ vault_token_accounts'[a] = [mint |-> u.token_mint, amount |-> p]
        /\ \A b \in DOMAIN vault_token_accounts : b # a =>
             vault_token_accounts'[b] = vault_token_accounts[b]
    BY VaultFunded
  <1>5. /\ Ledger(opened) /\ a \in DOMAIN opened
        /\ opened[a].mint = u.token_mint /\ opened[a].amount = 0
        /\ DOMAIN opened = DOMAIN vault_token_accounts \cup {a}
        /\ \A b \in DOMAIN vault_token_accounts : b # a => opened[b] = vault_token_accounts[b]
        /\ \A mint : Held(opened, mint) = Held(vault_token_accounts, mint)
    <2>1. CASE a \in DOMAIN vault_token_accounts
      BY <2>1 DEF TaskInv, TasksSound, VaultMintMatches, SupplyInv
    <2>2. CASE a \notin DOMAIN vault_token_accounts
      <3>1. /\ Ledger(opened)
            /\ \A mint : Held(opened, mint) = Held(vault_token_accounts, mint)
        BY <1>1, <2>2, HeldAfterOpening DEF SupplyInv
      <3>2. /\ DOMAIN opened = DOMAIN vault_token_accounts \cup {a} /\ opened[a] = empty
            /\ \A b \in DOMAIN vault_token_accounts : opened[b] = vault_token_accounts[b]
        BY <2>2 DEF StoreAccount
      <3> QED BY <1>1, <2>2, <3>1, <3>2
    <2> QED BY <2>1, <2>2
  <1> HIDE DEF p, empty, opened
  <1>6. ASSUME NEW t, t = token_accounts', NEW v, v = vault_token_accounts'
        PROVE  /\ Ledger(t) /\ Ledger(v)
               /\ \A mint : Held(t, mint) + Held(v, mint)
                              = Held(token_accounts, mint) + Held(opened, mint)
    <2>1. Credited(token_accounts, t, treasury, 0 - p)
      BY <1>1, <1>2, <1>3, <1>6 DEF Credited, TokenAccount
    <2>2. Credited(opened, v, a, p)
      BY <1>1, <1>4, <1>5, <1>6 DEF Credited
    <2>3. /\ Ledger(token_accounts) /\ Ledger(opened)
          /\ token_accounts[treasury].mint = opened[a].mint
      BY <1>1, <1>5 DEF SupplyInv
    <2>4. /\ Ledger(t)
          /\ \A mint : Held(t, mint) = Held(token_accounts, mint)
               + (IF token_accounts[treasury].mint = mint THEN 0 - p ELSE 0)
      BY <2>1, <2>3, HeldAfterCredit
    <2>5. /\ Ledger(v)
          /\ \A mint : Held(v, mint) = Held(opened, mint)
               + (IF opened[a].mint = mint THEN p ELSE 0)
      BY <2>2, <2>3, HeldAfterCredit
    <2>6. \A mint : Held(token_accounts, mint) \in Nat /\ Held(opened, mint) \in Nat
      BY <2>3, HeldIsNatural
    <2> QED BY <1>1, <2>3, <2>4, <2>5, <2>6
  <1> QED BY <1>5, <1>6 DEF SupplyKept

(* A vote funds the vault, or at most opens an empty one.                  *)
LEMMA VoteKeepsSupply ==
    ASSUME TaskInv, SupplyInv, NEW v \in Wallets, NEW a \in DOMAIN task_proposals,
           NEW task \in TaskAddresses, NEW treasury \in TokenAccounts, NEW vote \in BOOLEAN,
           NEW tokens \in TokenAmounts, VoteOnTaskProposal(v, a, task, treasury, vote, tokens)
    PROVE  SupplyKept
  <1> DEFINE p == task_proposals[a]
             u == WithVote(a, v, vote)
             account == VaultTokenAccountFor(task, p.token_mint)
  <1>1. /\ a \in TaskAddresses /\ p \in TaskProposal /\ p.status = "Active"
        /\ treasury \in DOMAIN token_accounts /\ token_accounts[treasury].mint = p.token_mint
        /\ VaultMintMatches(task, p.token_mint)
        /\ UNCHANGED <<now, organization, contributor, token_registry, projects>>
    BY DEF TaskInv, TypeOK, VoteOnTaskProposal, VoteOnTaskProposalAccounts, IsOpen,
           IsTreasuryAccount, orgVars
  <1>2. \/ task = a /\ FundVault(treasury, a, u)
        \/ /\ vault_token_accounts' = StoreAccount(vault_token_accounts, task, account)
           /\ UNCHANGED token_accounts
    BY DEF VoteOnTaskProposal, CreateTaskAndVault
  <1>3. projects[a[1]] \in Project
    BY DEF TaskInv, TypeOK, TasksSound, ProjectsTypeOK
  <1>4. u \in TaskProposal /\ u.token_mint = p.token_mint
    BY <1>1, <1>3, VoteOnTask
  <1> HIDE DEF u
  <1>5. CASE task = a /\ FundVault(treasury, a, u)
    <2>1. a \notin DOMAIN tasks
      BY <1>1 DEF TaskInv, VaultsCoverTasks
    <2> QED BY <1>1, <1>4, <1>5, <2>1, FundVaultKeepsSupply
  <1>6. CASE /\ vault_token_accounts' = StoreAccount(vault_token_accounts, task, account)
             /\ UNCHANGED token_accounts
    <2>1. CASE task \in DOMAIN vault_token_accounts
      <3>1. account = vault_token_accounts[task]
        BY <2>1 DEF VaultTokenAccountFor
      <3> HIDE DEF account
      <3>2. /\ DOMAIN vault_token_accounts' = DOMAIN vault_token_accounts
            /\ \A b \in DOMAIN vault_token_accounts :
                 vault_token_accounts'[b] = vault_token_accounts[b]
        BY <1>6, <2>1, <3>1 DEF StoreAccount
      <3>3. /\ Ledger(vault_token_accounts)'
            /\ \A mint : Held(vault_token_accounts, mint)' = Held(vault_token_accounts, mint)
        BY <3>2, LedgerCopied DEF SupplyInv
      <3> QED BY <1>6, <3>3 DEF SupplyKept, SupplyInv
    <2>2. CASE task \notin DOMAIN vault_token_accounts
      <3>1. account.amount = 0
        BY <2>2 DEF VaultTokenAccountFor
      <3> HIDE DEF account
      <3>2. /\ Ledger(vault_token_accounts)'
            /\ \A mint : Held(vault_token_accounts, mint)' = Held(vault_token_accounts, mint)
        BY <1>6, <2>2, <3>1, HeldAfterOpening DEF SupplyInv
      <3> QED BY <1>6, <3>2 DEF SupplyKept, SupplyInv
    <2> QED BY <2>1, <2>2
  <1> QED BY <1>2, <1>5, <1>6

(* The review moves the payment from the vault to the assignee.            *)
LEMMA ReviewKeepsSupply ==
    ASSUME TaskInv, SupplyInv, NEW w \in Wallets, NEW a \in DOMAIN tasks,
           NEW account \in TokenAccounts, EnableTaskVaultWithdrawal(w, a, account)
    PROVE  SupplyKept
  <1> DEFINE amount == task_vaults[a].amount
  <1>1. /\ account \in DOMAIN token_accounts
        /\ token_accounts[account].mint = task_vaults[a].token_mint
        /\ vault_token_accounts[a].amount >= amount
        /\ vault_token_accounts' = [vault_token_accounts EXCEPT ![a].amount = @ - amount]
        /\ token_accounts' = [token_accounts EXCEPT ![account].amount = @ + amount]
    BY DEF EnableTaskVaultWithdrawal, EnableTaskVaultWithdrawalAccounts
  <1>2. /\ a \in DOMAIN vault_token_accounts /\ amount \in Nat
        /\ task_vaults[a].token_mint = vault_token_accounts[a].mint
        /\ vault_token_accounts[a] \in VaultTokenAccount
        /\ token_accounts[account] \in TokenAccount
    BY <1>1
    DEF TaskInv, TreasuryInv, TreasuryTypeOK, TypeOK, TasksSound, VaultsCoverTasks, TaskVault
  <1> HIDE DEF amount
  <1>3. ASSUME NEW t, t = token_accounts', NEW v, v = vault_token_accounts'
        PROVE  /\ Ledger(t) /\ Ledger(v)
               /\ \A mint : Held(t, mint) + Held(v, mint)
                              = Held(token_accounts, mint) + Held(vault_token_accounts, mint)
    <2>1. Credited(token_accounts, t, account, amount)
      BY <1>1, <1>2, <1>3 DEF Credited, TokenAccount
    <2>2. Credited(vault_token_accounts, v, a, 0 - amount)
      BY <1>1, <1>2, <1>3 DEF Credited, VaultTokenAccount
    <2>3. /\ Ledger(token_accounts) /\ Ledger(vault_token_accounts)
          /\ token_accounts[account].mint = vault_token_accounts[a].mint
      BY <1>1, <1>2 DEF SupplyInv
    <2>4. /\ Ledger(t)
          /\ \A mint : Held(t, mint) = Held(token_accounts, mint)
               + (IF token_accounts[account].mint = mint THEN amount ELSE 0)
      BY <2>1, <2>3, HeldAfterCredit
    <2>5. /\ Ledger(v)
          /\ \A mint : Held(v, mint) = Held(vault_token_accounts, mint)
               + (IF vault_token_accounts[a].mint = mint THEN 0 - amount ELSE 0)
      BY <2>2, <2>3, HeldAfterCredit
    <2>6. \A mint : /\ Held(token_accounts, mint) \in Nat
                    /\ Held(vault_token_accounts, mint) \in Nat
      BY <2>3, HeldIsNatural
    <2> QED BY <1>2, <2>3, <2>4, <2>5, <2>6
  <1> QED BY <1>3 DEF SupplyKept

(* No step makes or loses a token.                                         *)
LEMMA SupplyStep ==
    ASSUME TaskInv, SupplyInv, [Next]_vars
    PROVE  SupplyInv'
  <1>1. ASSUME SupplyKept PROVE SupplyInv'
    BY <1>1 DEF SupplyKept, SupplyInv, SupplyConserved
  <1>2. CASE UNCHANGED <<token_accounts, vault_token_accounts>>
    BY <1>1, <1>2 DEF SupplyKept, SupplyInv
  <1>3. CASE Fund /\ UNCHANGED <<projects, taskVars>>
    <2>1. /\ Ledger(token_accounts)'
          /\ \A mint \in Mints : Held(token_accounts, mint)' = Held(token_accounts, mint)
      BY <1>3, FundKeepsSupply DEF TaskInv, SupplyInv
    <2> QED BY <1>1, <1>3, <2>1 DEF SupplyKept, SupplyInv, taskVars
  <1>4. CASE Vote
    BY <1>1, <1>4, VoteKeepsSupply DEF Vote
  <1>5. CASE Review
    BY <1>1, <1>5, ReviewKeepsSupply DEF Review
  <1>6. CASE Propose
    BY <1>2, <1>6 DEF Propose, ProposeTask, treasuryVars
  <1>7. CASE Complete
    BY <1>2, <1>7 DEF Complete, CompleteTask, treasuryVars
  <1> QED
    BY <1>2, <1>3, <1>4, <1>5, <1>6, <1>7 DEF Next, TreasuryNext, vars, taskVars, treasuryVars

(* Who else transfers tokens between accounts does not change the supply.  *)
LEMMA SupplyUndisturbed ==
    ASSUME TaskInv, SupplyInv, UNCHANGED vault_token_accounts,
           \/ UNCHANGED token_accounts
           \/ \E from, to : \E amount \in Nat : TransferTokens(from, to, amount)
    PROVE  SupplyInv'
  <1>1. AccountsTypeOK
    BY DEF TaskInv, TreasuryInv, TreasuryTypeOK, AccountsTypeOK
  <1>2. /\ Ledger(token_accounts)'
        /\ \A mint \in Mints : Held(token_accounts, mint)' = Held(token_accounts, mint)
    BY <1>1, TransferKeepsSupply DEF SupplyInv
  <1> QED BY <1>2 DEF SupplyInv, SupplyConserved

(* Treasuries, vaults and wallets together always hold what the wallets    *)
(* held at the start, in every mint and with any number of accounts: no    *)
(* instruction makes or loses a token.                                     *)
THEOREM SupplyIsConserved == Spec => []SupplyConserved
  <1>1. Init => TaskInv /\ SupplyInv
    BY TaskInit, SupplyInit
  <1>2. TaskInv /\ SupplyInv /\ [Next]_vars => (TaskInv /\ SupplyInv)'
    BY TaskStep, SupplyStep
  <1>3. SupplyInv => SupplyConserved
    BY DEF SupplyInv
  <1> QED BY <1>1, <1>2, <1>3, PTL DEF Spec
=============================================================================
