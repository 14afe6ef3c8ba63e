# A verification development for deorg-api

deorg-api is two programs.  A **voting program** (Rust, Anchor, under
`deorg-voting-program/`) runs on Solana: organizations elect contributors, decide on
spending their treasury, start projects and pay for tasks, by ballots.  An **API**
(TypeScript, NestJS, under `src/`) prepares transactions for that program, sends the signed
ones, and mirrors organizations, members and proposals in a database for its clients.

This directory holds TLA+ models of both, the instances that TLC checks, and the theorems
that TLAPS proves about them.  Paths below are relative to the repository;
`programs/…/src/` stands for `deorg-voting-program/programs/gibwork-voting-program/src/`,
and `usecases/` for the use cases below `src/domains/`.

## 1. Inventory

### The voting program

An instruction is atomic: any failed check, failed call of the token program, or account
that cannot hold its new contents rolls everything back.  Concurrency is therefore the
*order* of instructions of different signers, with the clock advancing in between; the
hard behaviours are long sequences of legal instructions, parameters and electorates that
change under an open ballot, several proposals that compete for one candidate, one address
or one balance, and capacities fixed when an account was created.

| Component | State | Operations | Correct when |
|---|---|---|---|
| Voting rules (`utils.rs`) | none | quorum, threshold, expiry, status, argument checks | a ballot is decided by the documented shares, in exact fractions |
| Organization accounts (`organization.rs`, `state.rs`) | organization (creator, contributor list, parameters), contributor accounts | create, update parameters, renew, admit (by a vote) | list and accounts name the same keys, no key twice, within the account's size |
| Organization metadata (`organization.rs`) | optional texts | initialize, update | only the creator writes; lengths bounded |
| Contributor proposals (`contributor.rs`) | proposal accounts | propose, vote | one vote each, in time; approval and admission are one step; nobody is a contributor unelected |
| Treasury (`treasury.rs`) | registry of mints, token accounts | initialize registry, register token, deposit | one account of the organization per mint |
| Treasury transfers (`treasury.rs`) | transfer proposals | propose, vote, execute | tokens leave only by an approved proposal, once |
| Projects (`project.rs`) | project proposals, project accounts | propose, vote, create | a project is what was approved, approval creates it |
| Tasks and vaults (`task.rs`) | task proposals, tasks, vaults, vault token accounts | propose, vote, complete, enable withdrawal | a task's payment is set aside in full, and paid once to the assignee on another member's word |

Instructions interact through shared accounts: the contributor list is the electorate of
three kinds of ballots and is written by one of them; the organization's parameters are
read by every vote; a treasury's token account is spent by transfers and by task approvals;
a project's member list is the electorate of its tasks' ballots.

### The API

Every request is a sequence of awaits; between two of them other requests run, the process
may stop, and a call may fail or never be answered.  Nothing spans two writes: no database
transaction, no lock, and hardly a unique constraint.

| Component | State | Operations | Correct when |
|---|---|---|---|
| Transaction submission (`src/utils/sendTransaction.ts`, `usecases/…`) | transactions, organizations, proposals tables; in-flight requests | prepare (7 kinds), send, confirm, record | what is stored is on the chain; what is answered is stored; a retry after finality stores nothing |
| Membership (`join-organization`, `get-organization-members`, `create-contributor-proposal`, `create-organization`) | organizations, organization_members | join, list members (adds contributors), propose, create | no member is displaced, duplicates stay within overlapping requests, contributors become members |
| Users and sign-in (`signin`, `list-tasks`, `list-projects`, `auth.guard`) | users table, Clerk accounts | find or create | a wallet that signs in gets a row, also after an interrupted sign-in |
| Caches and program events (`program-handle-events`, `program.listener`, `get-organization-*`) | Redis entries with a time to live, clears that wait, one socket | read through, delete on a join, clear on events | an entry is stale only for a reason the code has, and not for ever |
| Reads, tokens, prices (`token.service`, `get-user-balance`, `get-token-price`) | the same entries | balances, prices, lists | as above; the queries that store nothing are pure I/O |
| Infrastructure, outside services | none | HTTP, storage, wiring, webhook, socket | (framework) |

The API and the chain meet in two places: the API learns what happened by waiting for the
confirmation of a signature, and by subscribing to the program's log.

The clients call the program through a generated interface (`deorg-voting-program/deorg_voting_program.ts`): for
each instruction its signers, the accounts it may write, and the seeds of derived addresses.  It
is a copy, and correct when it declares whatever the program changes.

`PROJECT.json` lists every component with its status, and under `hazards` the places where
these behaviours bite, with the properties that watch them.

## 2. Modules

| Module | Models |
|---|---|
| `VotingRules` | `utils.rs`: the rules as operators, and the documents' shares as reference definitions |
| `Ballots` | abstract: what any ballot promises |
| `Organization` | organization and contributor accounts; `OrgSpec`, the environment of the others and the abstraction of the elections |
| `ContributorGovernance` | elections |
| `Treasury` | registry, token accounts, the token program (external) |
| `TreasuryTransfers` | transfer proposals and executions, on `Treasury` |
| `Projects` | project accounts; `ProjectsSpec`, the abstraction of the next |
| `ProjectGovernance` | project proposals |
| `Escrow` | abstract: what task vaults promise |
| `TaskVaults` | tasks and vaults, on `Treasury` and `Projects` |
| `Metadata` | the record of texts of an organization |
| `Interface` | what the generated interface declares for each instruction: signers, writable accounts, derived addresses |
| `Program` | `lib.rs`: all of the above but the API, over one set of accounts; every step checked against `Interface` |
| `Submission` | how the API carries transactions to the chain |
| `Membership` | users, accounts, members |
| `ReadCache` | the API's cached answers: reads in steps, clears, events, the socket, restarts |
| `…_proofs` | theorems about the module of that name (section 4); `Accounts_proofs` about `VotingRules`, `Organization` and `Treasury`, `Membership_proofs` about `ReadCache` too |
| `MC…` | instances for TLC |

`EXTENDS` gives the layering: `VotingRules` ← `Organization` ← {`ContributorGovernance`,
`Treasury` ← `TreasuryTransfers`, `Projects` ← `ProjectGovernance`}, and `TaskVaults` on
both `Treasury` and `Projects`.  A component that another one builds on appears there as its
*abstract* next-state relation (`OrgNext`, `TreasuryNext`, `OpenProject`), so that a
treasury is checked against every way an organization may gain contributors, and the
elections are shown, separately, to be one of those ways (`OrgSpec`).  `Program` has no
abstraction left: it takes the *concrete* actions of `ContributorGovernance`,
`ProjectGovernance`, `TreasuryTransfers` and `TaskVaults`, each instantiated on the shared
variables, so that transfers and task payments spend one treasury, projects that were
voted on hold the tasks, and elected contributors vote on both.

### From code to model

* **Accounts** are functions from the addresses allocated so far; an address is the tuple
  of seeds that the code derives it from (a contributor proposal is at
  `<<organization, candidate, timestamp>>`).  `init` is `address \notin DOMAIN …`.
* **One instruction is one action** named after it.  Its accounts struct, with its
  constraints, is the operator `…Accounts`; the `require!`s are the other conjuncts in
  their order; the events it emits carry no state and are left out.
* **The clock** `now` only advances (`Tick`), by one, at any time.
* **i64 saturation** is kept: `I64Max` is a constant, and `SaturatingAdd` stops there.
  Percentages and roundings are the code's integer arithmetic.
* **Capacities** are kept: `OrganizationFits` is the number of bytes the account was
  allocated with (a shorter name leaves room for more keys), `MaxVoters`, `MaxMembers`,
  `MaxTokens` the reserved entries.
* **The API**: an action is what runs between two awaits.  A request is a record with the
  step it is at and what it has read.  Requests run concurrently and can be cut off at any
  step.

### Abstractions

* Balances of the governance token are not tracked.  The amount a voter's account holds is
  an argument of the instruction, any of `TokenAmounts`.
* The organization's parameters are one record; the name is its length.
* A voters list is the set of its entries with the list's capacity (it is only searched and
  appended to, after the search found nothing).
* A contributor account that `init_if_needed` has only zeroed counts as absent: its
  authority is nobody's key, so no instruction can tell.
* The uuid of a project made by the approving vote is cut from the proposal's address;
  the address stands for it.  A member list keeps its order and repetitions.
* Treasury transfer votes take a linked task and vault; those branches need a task stored as
  Proposed or Approved, and no instruction stores one.  They can only make a vote fail and
  are left out.
* Token accounts: what the instructions ask of the token program.  Wallets' transfers
  among themselves or to a treasury from outside, closing of accounts, and changes of an
  account's authority are left out.  A vault's token account can be spent only by the
  program, which signs for it.
* `Submission`: a client sends the transaction that it was given to the endpoint of its
  type, as the author of the row.  A read that finds nothing or a service that fails is the
  refusal any step allows.  Preparations read the chain; what they check beyond the
  organization's existence is a refusal too.
  A transaction has a commitment level: processed (a fork may still take it back), confirmed,
  finalized.  Every use case makes its connection without a commitment, so the preflight
  of `sendRawTransaction` runs on the finalized state and refuses only what is final;
  `confirmTransaction` awaits 'finalized' (`sendTransaction.ts:21`), but 'confirmed' for the
  completion of a task and its withdrawal (`complete-task.usecase.ts:33`,
  `enable-withdraw.usecase.ts:33`).  `Simulated` and `Committed` keep the two apart.
  Taken for granted of the network: a confirmed block is not rolled back; of the SDK,
  which is not in the repository and is given a URL only: it reads what is confirmed, or
  later (its connections, like the others, default to finalized).
* `Interface` gives each instruction a record of its signers and its writable accounts, by
  address; optional accounts and programs are left out.  `Program` derives what a step
  changed from its primed variables (`Changed`) and who voted (`NewVoters`), and asks for
  one instruction that declares all of it.  A voter of a transfer is the proposer too.
* `ReadCache`: a datum is the set of changes it reflects, so an entry is stale when a change
  of what it is made from is missing in it; one organization, wallet and token stand
  for all (other keys share nothing with them).  A node may lag behind a change until
  `CatchUp`; the wait of 20 seconds is taken to be longer than any lag.  A message is the set
  of its numbers' sizes: one beyond 2^53 - 1 makes the conversion throw.  An entry may
  expire at any time; one that is stored again while it is there grows old first (`GrowOld`),
  because storing starts its time to live anew.  Which instructions emit no event was read off the
  program; the model lets any one be silent or announced.  One API process, the cache
  switched on, and Redis that outlives the process.
* `Membership`: a user row is `<<wallet, i>>`, the i-th row of its wallet; `findOne`
  returns any of them.  Roles are left out.  The username that Clerk sees is the constant
  function `Username`, which may map two wallets to one name.  Saving an organization over a
  row that has members fails: the members relation is replaced, and a member cannot be
  without an organization.  Member lists answered from the cache change nothing
  (stuttering).  The row that the `AuthGuard` makes for an account without one is left out:
  the API hands out a session only after the row exists.

## 3. Runs

| Run | Question | Instance | Distinct states (about) |
|---|---|---|---|
| `elections` | Are elections counted, and does nobody enter a list unelected, twice or without account? | 3 wallets, 1 organization, 3 proposals, 2 rates, electorate 1–3, clock 0–2 | 265,909 |
| `elections_under_updates` | Do decisions stay earned and final, and do the accounts change only as `OrgSpec` and `Ballots` allow, while parameters change and the list fills? | 5 parameter sets, 3 of them refused; list with room for 2 keys, or 3 with a short name; token minimum 0 or 1 | 15,335 |
| `transfers` | Are transfer ballots counted, in time and with their quorum? | 2 proposals over 1 token, 3 wallets, quorum of half or all (changed at any time), 2 executions | 198,660 |
| `transfer_threshold_missed` | (violation) Do the votes on an approved transfer meet its threshold? | 2 proposals of 1–2 tokens over 2 tokens, 1 parameter set, clock 0–1, 2 executions | – |
| `transfer_executed_twice` | (violation) Is an executed proposal not executed again? | 2 proposals of 1–2 tokens over 2 tokens, 1 parameter set, clock 0–1, 2 executions | – |
| `projects` | Is a project what was approved, and does approval create it, whatever `create_project` did before? | 2 proposals, 3 wallets, derived and chosen uuids, arguments that must be refused | 262,747 |
| `task_vaults` | Are task ballots counted and earned, and is a task's payment set aside, and paid once to the assignee? | 2 tasks over 2 tokens, a member list of 4 entries, clock past the project's end | 147,470 |
| `program` | Do all instructions together keep every decision funded, every token, every registry, and to what the interface declares? | from nothing, and from 2 organizations with treasuries of 1 mint; 2 wallets, 1 proposal of each kind, 2 executions, clock stopped | 237,840 |
| `submission` | Does the database record what is on the chain, all that was answered, and nothing of a transaction sent again after it is final? | 2 transactions, 2 requests, 3 commitment levels | 330,659 |
| `membership` | Do concurrent requests displace a member, or make more rows than they are? | 2 clients, 2 wallets, 1 fault | 408,257 |
| `read_cache` | Why is an entry stale, and for how long? | 3 keys (one that a join deletes, one that it does not, a price), 1 request, 2 changes, 1 restart or closed socket | 419,514 |
| `sign_in` | Do repeated sign-in and listing overcome interruptions? | 2 clients, 1 wallet, 3 faults | 14,008 |

What they show, by property:

* **Ballots** (`ContributorBallots`, `TransferBallots`, `ProjectBallots`, `TaskBallots`):
  each of the four proposal kinds implements `Ballots`: the subject is fixed when the ballot
  opens; a voter of the electorate of the moment votes once, while it is open and
  undecided; a vote counts one on its side; nothing touches a decided ballot.  One abstract
  specification for four implementations which differ in their ends (exclusive or inclusive),
  electorates (a list that grows, a project's members) and first votes (a transfer starts
  with the proposer's).
* **Decisions are earned** (`ApprovalIsEarned`, `ProjectApprovalIsEarned`,
  `TaskApprovalIsEarned`, `QuorumBehindTransfer`): measured in exact fractions against the
  electorate and parameters of the deciding step, not with the code's roundings.
  `NoOverlookedMajority`: with fixed parameters no open proposal holds a majority.
* **Elections** (`MembersWereElected`, `ApprovedIsMember`, `MembersHaveAccounts`,
  `NoDuplicateContributors`, `BallotsCounted`, `OrgSpec`): several proposals for one
  candidate with different rates may all be approved; the candidate enters once and keeps
  the rate of its first approval.  At a full list the whole vote fails.
* **Spending** (`DecisionsAreFunded`, `TreasurySpendsByDecision`, `SupplyConserved`,
  `RegistrySound`; run `program`): a vote that approves what the treasury no longer covers is
  not counted at all, whether a transfer or a task took it; tokens leave a treasury in a step
  that pays one transfer or funds one task of the same organization, in its amount.
* **The interface** (`ChangesAreDeclared`): whatever a step changes, in however many
  accounts, one instruction of the generated file declares all of it writable, and nobody
  becomes a voter without signing.
* **Projects** (`ProjectsWereApproved`, `ApprovedHasItsProject`, `ProjectsSpec`).
* **Tasks** (`PromiseKept` = refinement of `Escrow`, and the liveness property
  `FundedTasksArePaid`).
* **API** (`RecordedIsOnChain`, `AnsweredIsRecorded`, `ResubmissionRefused`,
  `LandedIsRecorded`; `DuplicatesBounded`, `MembersStay`, `SignInSettles`,
  `ContributorsBecomeMembers`).  What is recorded has the commitment that its use case awaits,
  and a retry is refused once the transaction is final.  The run also has the retries before
  that, which pass and are carried again (see below).
* **Cache** (`StaleHasCause`, `CacheSettles`): an entry lacks a change only because nobody
  heard of the change, its clear is on the way, it was a join, which forgets two keys only, or
  the request that stored the entry was overtaken by a clear.  All of these happen; the
  time to live ends each of them, but for a price, which every request for it stores again.

### Bounds

Behaviours end because the clock (`MaxTime`), the proposals opened (`MaxProposals`,
`MaxTransfers`, `MaxTasks`), projects (`MaxProjects`), by-hand executions of one proposal
(`MaxExecutions`) and interruptions (`MaxFaults`, `MaxLosses`) are bounded; transactions and requests of
`Submission` are used once each.  A model that has used them up stops, hence
`CHECK_DEADLOCK FALSE` everywhere.  No property quantifies over the ends of behaviours
except the liveness properties, which hold at those ends too.

Why they are enough: three contributors are the fewest for which quorum, majority and
unanimity differ and a vote can be outvoted; two competing proposals over a balance that
covers one of them produce every conflict for one treasury; two titles give a project
proposal whose derived address another proposal's `create_project` can take; a clock of
`0..2` with periods of 1 and 2 lets a ballot be open, at its end, and over.  With
fewer than four entries in a member list the first vote decides a task, so the task runs
use four (naming two members twice, which the program accepts).  `I64Max` of 2 or 3 puts
saturation within reach.  `program` stops the clock, because expiry is covered by the runs of
the single components, and starts from two states: from nothing, with one organization (so
that every instruction happens in its order), and from two founded organizations of one mint
(so that a decision of one could spend the treasury of the other).  In `read_cache` two
changes are a join and an event that cross; the keys are one that a join deletes, one it does
not, and the price.  Balances, which a request may ask to have read again, are left to larger
instances, which hold too (`Keys = {"organization_balance", "user_balance", "price"}`: 906,820
states; `{"organization", "organizations", "organization_balance"}`: 877,255).  Two requests are all that a lookup-then-insert
race needs; with one more client than faults, an interruption meets an uninterrupted
neighbour.

Symmetry: wallets are interchangeable where no constant names one
(`WalletSymmetry`, `OtherWallets` keeps apart the one that holds the tokens), fresh token
accounts (`FreshAccounts`) and API clients (`AnyClients`) likewise.  No run of a liveness
property uses symmetry.

### Fairness

* `TaskVaults!FairSpec`: weak fairness of *some* assignee completing and *some* other
  member reviewing.  This is an assumption about people, not code; what it shows is that
  the program always lets them (no shortage, mint or flag blocks the payment).  Tasks whose
  only member is the assignee are excluded: nobody can review those.
* `Submission!FairSpec`: weak fairness of each request's next step.  Every await in
  `sendTransaction` ends: `confirmTransaction` is called without a block height and
  gives up after the library's own timeout, and the other calls return or throw.  The network owes nothing: a transaction may stay pending.
* `ReadCache!FairCacheSpec`: weak fairness of a node catching up, of a clear that has begun, of
  each request's next step, and of time passing for each entry.  Nothing is assumed of
  sockets, events, users or restarts.
* `Membership!FairSpec`: weak fairness of a running request's next step, and strong
  fairness of a wallet signing in again and of the member list being asked for again
  (strong, because a client is not always free to carry the request).  Faults are finite.

### What the documents say and the code does not do

Two runs find it (`expect: violation`):

* `transfer_threshold_missed`: `vote_on_funds_transfer_proposal` computes the status from
  the tallies it captured before recording the vote (`treasury.rs:535-536,670`), so the
  deciding vote is not counted in its own decision, and a vote against can approve and pay
  a transfer whose votes miss the threshold that `business-rules.md:52` demands.
* `transfer_executed_twice`: the approving vote pays, and `execute_funds_transfer`
  pays the same proposal again, any number of times (`treasury.rs:837`); the error
  `ProposalAlreadyExecuted` (`errors.rs:84`) is never raised.

The following were read off the code and need no run:

* A contributor whose validity has ended keeps voting (`utils.rs:12`), while
  `business-rules.md:109` says inactive contributors are excluded.
* The proposer of a contributor has no automatic vote (`contributor.rs:166`), as
  `business-rules.md:36` says.
* No proposal ever becomes Expired (`contributor.rs:224` refuses the vote that would mark
  it), as `business-rules.md:93` says.
* `create_project` makes a second project from a proposal that has one (`project.rs:377`
  asks a fresh account whether it is active), though the comment above it takes the project
  to exist.
* `propose_task` asks nobody's membership (`task.rs:239`), though `errors.rs:29` reads
  "Only project members can vote on or create tasks".
* Transactions of type `WITHDRAW_TASK_FUNDS` and `CREATE_ORGANIZATION_TREASURY` are
  declared and never prepared, so the endpoint that submits a withdrawal finds none.
* Between its being processed and its finality a transaction passes the preflight again.  A
  request to enable a withdrawal that is repeated right after its answer is answered once more and
  stores its txHash once more; a proposal whose request was interrupted, or is still waiting,
  and that is submitted again in that time gets a second row
  (`create-contributor-proposal.usecase.ts:68`).  No document promises otherwise;
  `ResubmissionRefused` begins with finality.
* A balance of an organization is stored as an array and parsed as text when it is read
  back (`get-organization-balance.usecase.ts:20,33`).
* `join-organization.usecase.ts:73` refuses a user who has joined, but two overlapping
  joins both pass (`DuplicatesBounded` says by how much); a creator whose organization was
  joined before its row was saved gets an error and no member row of its own.

## 4. Proofs

Eight modules hold theorems, for every set of wallets, organizations, tokens, requests and
clients, all parameters, timestamps and bounds.  What each states of its `Spec`
(`CacheSpec` in `ReadCache`):

| Module | Type | Invariants | Steps and refinements |
|---|---|---|---|
| `Accounts_proofs` | – | `RoundedUpQuorum`, `RoundedDownShare`: the arithmetic of decisions | `OrgStepOK`, `TreasuryStepOK`: the environment of the next four |
| `ContributorGovernance_proofs` | `TypeCorrect` | `ElectionInvariant`, `BallotsAreCounted`, `ListsHaveNoDuplicates`, `ContributorsWereElected`, `ApprovedAreMembers`, `AccountsMatchLists`, `NoMajorityIsOverlooked` | `OrganizationImplemented` (`OrgSpec`), `BallotsImplemented`, `AdmissionsAreEarned` |
| `ProjectGovernance_proofs` | `ProjectTypes` | `ProjectInvariant`, `ProjectsAreApproved`, `ApprovalsHaveProjects`, `ProjectTalliesCounted` | `ProjectsImplemented` (`ProjectsSpec`), `ProjectBallotsImplemented`, `ProjectsAreEarned` |
| `TreasuryTransfers_proofs` | `TransferTypes` | `TransferInvariant`, `RegistriesSound`, `ApprovalsArePaid`, `TransferTalliesCounted` | `SpendingIsDecided`, `TransferBallotsImplemented`, `TransfersHaveQuorum` |
| `TaskVaults_proofs` | `TaskTypes` | `TaskInvariant`, `VaultsHoldPayments`, `ApprovalsAreEarned`, `SupplyIsConserved` | `TaskBallotsImplemented`, `EscrowImplemented` (`PromiseKept`) |
| `Program_proofs` | `ProgramTypes` | `ProgramInvariant`, `ProgramDecisionsFunded`, `ProgramRegistriesSound`, `ProgramSupplyConserved` | `ProgramSpendsByDecision`, `ElectionsImplemented`, `ProjectVotesImplemented` |
| `Submission_proofs` | `SubmissionTypes` | `SubmissionInvariant`, `DatabaseFollowsChain`, `AnswersAreRecorded`, `ResubmissionsAreRefused` | – |
| `Membership_proofs` | `MembershipTypes`, `CachedTypes` | `MembershipInvariant`, `DuplicatesAreBounded`; of `ReadCache`: `CacheInvariant`, `StalenessIsExplained` | `MembersAreKept` (`MembersStay`) |

*Assumptions.*  Constants have named `ASSUME`s, which TLC evaluates in the runs: `I64Max`, capacities and bounds are naturals, timestamps, amounts and thresholds are
naturals, parameter records and initial token accounts are of their type, wallets are no
organizations, the token accounts that wallets start with, requests and clients are finitely
many, and what is called `Nobody` is no wallet.
Parameter sets, member lists and thresholds need not be valid: the program's own checks are
what the proofs use.

*Elections.*  `TypeOK` alone is not inductive: a stored expiry stays in `0..I64Max` only
because the periods that `create` and `update` let through are positive, so `TypeInv` adds
that the stored periods are.  `ElectionInv` adds to `TypeInv` the safety properties, which
need one another.  Suppose only that members were elected at the rate of their account.  An
admission writes the candidate's account, and if the candidate already had one, somebody
else's claim would change; `MembersHaveAccounts` says that a key off the list has no account.
That in turn needs admission to be refused for a key on the list, which gives
`NoDuplicateContributors`.  `ApprovedIsMember` survives because nothing leaves a list, and
approved proposals never change; tallies stay the number of voters because a vote of someone
on the list of voters is refused (`BallotsOpen` supplies that voters are finite).  Most
actions are *quiet* (`QuietStep`: no list and no rate changes), and for those one lemma per
group of invariants is enough; creation and the admitting vote are done in full.

*Earned decisions.*  `ApprovalIsEarned`, `ProjectApprovalIsEarned` and `QuorumBehindTransfer`
compare the documents' exact shares of the *voters* with what the code computes by rounding
from its *tallies*.  The two lemmas on rounding (`RoundedUpQuorum`, `RoundedDownShare`) bridge
the arithmetic: a quorum rounded up, or a share rounded down, reaches a whole percentage only
if the exact one does.  That the tallies are the number of voters is an invariant of its own
(`ProjectTalliesCounted`, `TransferTalliesCounted`), read off the refinement of `Ballots`: only
opening and casting change a ballot.  For transfers only the quorum is earned; the threshold is
not (section 3).

*Overlooked majorities.*  `NoOverlookedMajority` is not an invariant of `Spec`: an update may
lower a threshold below what an active proposal holds already.  `NoMajorityIsOverlooked` proves
it for the behaviours in which parameters stay what they are (`Spec /\ [][ParametersKept]_vars`).
Lists only grow, so what met no quorum meets none later (`QuorumOfFewer`: a larger
list asks for no fewer votes), and the vote that would complete a majority decides the proposal.

*The environment.*  The other modules step in the company of `OrgNext` or `TreasuryNext`.
`OrgStepOK` shows once that such a step keeps the types, closes no organization and takes
nobody off a list (`OrgsStay`); `TreasuryStepOK` that it also keeps the registries sound,
closes no token account, changes none's mint or owner, and takes nothing out of an
organization's account (`AccountsStay`, `AccountsOnlyGrow`).  What a stored proposal needs of
the accounts around it therefore survives every step of the environment, and only the
module's own actions are left.

*Transfers.*  `ApprovedIsPaid` is inductive with the types and `ProposalsPlaced`: a
proposal's organization exists, and its destination is an account of its mint.  That the
account paid *from* is of that mint and of the proposal's organization comes from the checks of
the instruction; that paying adds to one account what it takes from the other, and so that
`TreasurySpendsByDecision` can name the decision, from both.

*Projects.*  `ProjectsWereApproved` and `ApprovedHasItsProject` need that a stored proposal's
arguments were checked (`ProposalsSound`: thresholds, periods and members, who stay
contributors), because `create_project` copies them without looking again, and that the
organization of a project exists.

*Tasks.*  `VaultsCoverTasks` needs `TasksSound`, in which the vault's token account of an
address without a task is empty: any vote may open it, for any mint, and a balance left in
it would be counted as part of the payment.  `TaskApprovalIsEarned` is an invariant here,
since a project's members and thresholds are fixed; its arithmetic is the lemma
`RoundedDownShare`, that a quotient rounded down reaches an integral threshold only if the exact
share does.  `TasksSound` also says that the vault's account is of the mint the proposal names.
`EscrowImplemented` maps a step to the release of at most one promise.

*Supply.*  `SupplyConserved` sums over accounts by a fold, a recursion whose facts would follow
by induction over finite sets, which the prover cannot state.  Instead every fact has a *least
counterexample*: among the parts of a finite set for which it fails one contains no other
(`LeastPart`, from the well-foundedness of strict inclusion), and its fold takes one account and
goes on with a smaller part, for which the fact holds.  So sums exist (`SumExists`), are naturals,
and do not depend on which account is taken first; two ledgers that differ in one account differ in their
sums as that account does (`HeldDiffers`).  The transfer of tokens, the only action that changes
amounts, changes two.  `SupplyInv` adds that both ledgers are finite and hold naturals.

*The program.*  `ProgramInv` is the conjunction of the components' invariants and the type of
the metadata.  Every step of `Program` is a step or a stutter of each component's own
specification *except* that transfers and tasks spend one treasury, and each sees the other take
tokens out of it, which its environment (`TreasuryNext`) never does.  Elections and project votes
are therefore refined as they are (`ElectionsImplemented`, `ProjectVotesImplemented`), and a
payment for a task is shown to leave the transfers undisturbed (`TransfersUndisturbed`), a
transfer the tasks (`WP!EnvironmentKeeps`): both depend on which accounts there are, of which
mint and owner, never on what a treasury holds.  An instance of a module has copies of all it
extends, so the first part of the module reads the copies of the components and of their
theorems side by side (`…Is`); it has no content beyond that.

*Submission.*  `RequestSound` says for each step of a request what others may not have undone
since (the transaction has the commitment awaited, its row is recorded); `Grows` states that
tables only go forward, and the network too from confirmation on, so it survives the steps of
other requests, abandoned forks and a crash (`LandedStays`).  A request made after finality
never passes `send`, since finality is never taken back.
`RowsCounted` bounds the rows of a proposal by the requests that are over, and is what
makes the bound in `TypeOK` inductive.

*Membership.*  A lookup and its insertion are two steps, so `DuplicatesBounded` must count
rows made and rows about to be made together.  The count of the property is not inductive: a
listing of members decides from one reading whom to enter, and enters them later without
looking again.  `MemberRowsBounded` counts such a listing from its reading on
(`Announces`).  Then a step either announces a row where there is none, or makes one it
announced, and `RowsCounted` is the only step of arithmetic.

*Cached answers.*  `StaleHasCause` speaks of entries; an entry is stored by a request that read
its sources one by one, so `ReadsHaveCause` says the same of requests, restricted to the sources
they have been to: what a request that no clear overtook lacks of those, it lacks for a reason
that an entry may have.  A read from a node that lags misses a change, and its reason is a clear still to
come: `NewsOfTheVisible` says that a clear under way follows a change that every node shows.
Causes last (`CausesLast`), except that a clear which lists or deletes a key takes its own away,
in the step that overtakes the requests for that key.

*Only model-checked:* liveness (`FundedTasksArePaid`, `LandedIsRecorded`, `SignInSettles`,
`ContributorsBecomeMembers`, `CacheSettles`), since temporal proofs under fairness and `ENABLED`
are beyond the prover; and `ChangesAreDeclared`, which compares `Program` with the sets of
accounts that `Interface` lists, instruction by instruction.

## 5. Not modelled

* *Voting rules*: `create_vault_internal` is reached only from a branch for a task stored as
  Proposed, which no instruction stores; the event emitters have no state.
* *Generated interface*: layouts of arguments, error numbers and event types are data.  The
  on-chain test script is a client like any other.
* *The API's queries* that store nothing: details of a task, a user's organizations and tasks,
  the check of a membership, the user behind a session.  They combine rows and answers and keep
  no state.
* *Users*: the row that the `AuthGuard` makes for an account without one, since a session is
  handed out only after the row exists; roles.
* *Cache*: the cache switched off by its environment variable, several API processes over one
  Redis, an event's delivery to the clients of the socket gateway, and a wait of 20 seconds
  that a node outlasts.  `CacheService.resetCache` has no caller.
* *Outside services*: clients of xcrow, teleswap, decaf and discord, storage of files, the
  webhook and the transaction builder: they translate a call into another and keep nothing.
* *Infrastructure*: wiring, validation, pagination, logging; and the bytes of transactions,
  which a client could have altered between the two requests.

## 6. Plan

What is left, in the order of its worth:

1. `ChangesAreDeclared` proved: one lemma per instruction, that what it writes is among what the
   interface declares for some call of it.
2. The refinements of transfers and tasks (`TransferBallots`, `TaskBallots`, `PromiseKept`) stated
   of `Program` too, from the lemmas that each leaves the other undisturbed.
3. Two API processes over one Redis, where a join in one crosses a clear in the other.

## 7. Running the checks

    tlc -workers 2 -config MCContributorGovernance.cfg MCContributorGovernance
    tlapm TaskVaults_proofs.tla

Each cfg belongs to the MC module whose name its own begins with (`MCContributorGovernance*`,
`MCTreasuryTransfers*` and `MCTransfer*` to `MCTreasuryTransfers`, `MCProjectGovernance`,
`MCTaskVaults`, `MCProgram`, `MCReadCache`, `MCSubmission`, `MCMembership` and `MCSignIn` to
`MCMembership`).  The operators named `Faulty…` are plausible bugs of the code next to which
they stand; no model uses them.  Substituting one for the definition it precedes must break
the property that `PROJECT.json` pairs it with, which is how each property was tested.
