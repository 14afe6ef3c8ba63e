------------------------ MODULE TreasuryTransfers_proofs ------------------------
(***************************************************************************)
(* Theorems about TreasuryTransfers, for every set of wallets,             *)
(* organizations, mints, accounts, amounts, parameters and bounds.         *)
(***************************************************************************)
EXTENDS TreasuryTransfers, Accounts_proofs, FiniteSetTheorems

(* A stored proposal has an organization, and its destination is an        *)
(* account of its mint.                                                    *)
Placed(p) ==
    /\ p.organization \in DOMAIN organization
    /\ p.destination \in DOMAIN token_accounts
    /\ token_accounts[p.destination].mint = p.token_mint

ProposalsPlaced == \A a \in DOMAIN transfer_proposals : Placed(transfer_proposals[a])

TransferInv ==
    /\ TreasuryInv
    /\ TypeOK
    /\ ProposalsPlaced
    /\ ApprovedIsPaid

(* The tokens of an organization go, if they go, where an approved         *)
(* proposal of it says.                                                    *)
SpentByDecision ==
    \A key \in DOMAIN token_accounts :
        token_accounts[key].owner \in Orgs
          /\ token_accounts'[key].amount < token_accounts[key].amount
        => \E a \in DOMAIN transfer_proposals : Pays(a, key)

-----------------------------------------------------------------------------
(* Organizations and accounts stay, and so does what a proposal needs.     *)
LEMMA PlacedStays ==
    ASSUME OrgsStay, AccountsStay
    PROVE  \A p : Placed(p) => Placed(p)'
  BY DEF Placed, OrgsStay, AccountsStay

(* Accounts that only grow are not spent.                                  *)
LEMMA GrowingIsNotSpent ==
    ASSUME AccountsTypeOK, AccountsTypeOK', AccountsStay, AccountsOnlyGrow
    PROVE  SpentByDecision
  <1> SUFFICES ASSUME NEW key \in DOMAIN token_accounts, token_accounts[key].owner \in Orgs
               PROVE  ~(token_accounts'[key].amount < token_accounts[key].amount)
    BY DEF SpentByDecision
  <1>1. token_accounts'[key].amount >= token_accounts[key].amount
    BY DEF AccountsOnlyGrow
  <1>2. token_accounts'[key].amount \in Nat /\ token_accounts[key].amount \in Nat
    BY DEF AccountsTypeOK, AccountsStay, TokenAccount
  <1> QED
    BY <1>1, <1>2

(* Before anything is proposed the invariant holds.                        *)
THEOREM TransferInit == Init => TransferInv
  <1> SUFFICES ASSUME Init PROVE TransferInv
    OBVIOUS
  <1>1. TreasuryInv
    BY TreasuryInitOK DEF Init
  <1> QED
    BY <1>1 DEF Init, EmptyMap, TreasuryInv, TransferInv, TypeOK, ProposalsPlaced, ApprovedIsPaid

(* Whatever else is decided about the treasury, what has been paid stays   *)
(* paid, and what a proposal needs stays there.                            *)
LEMMA TransfersUndisturbed ==
    ASSUME TransferInv, TreasuryInv', OrgsStay, AccountsStay,
           UNCHANGED <<transfer_proposals, transfers_executed>>
    PROVE  TransferInv'
  <1>1. ProposalsPlaced'
    <2> SUFFICES ASSUME NEW a \in DOMAIN transfer_proposals'
                 PROVE  Placed(transfer_proposals[a])'
      BY DEF ProposalsPlaced
    <2> QED
      BY PlacedStays DEF TransferInv, ProposalsPlaced
  <1>2. TypeOK' /\ ApprovedIsPaid'
    BY DEF TransferInv, TreasuryInv, TypeOK, ApprovedIsPaid
  <1> QED
    BY <1>1, <1>2 DEF TransferInv

(* The treasury goes on without its proposals noticing.                    *)
LEMMA TreasuryStepTransfers ==
    ASSUME TransferInv, [TreasuryNext]_treasuryVars,
           UNCHANGED <<transfer_proposals, transfers_executed>>
    PROVE  TransferInv' /\ SpentByDecision
  <1>1. TreasuryInv' /\ OrgsStay /\ AccountsStay /\ AccountsOnlyGrow
    BY TreasuryStepOK DEF TransferInv
  <1>2. AccountsTypeOK /\ AccountsTypeOK'
    BY <1>1 DEF TransferInv, TreasuryInv, TreasuryTypeOK, AccountsTypeOK
  <1> QED
    BY <1>1, <1>2, TransfersUndisturbed, GrowingIsNotSpent

(* propose_funds_transfer stores an active proposal and moves nothing.     *)
LEMMA ProposeTransfers ==
    ASSUME TransferInv, NEW w \in Wallets, NEW o \in Orgs, NEW mint \in Mints,
           NEW amount \in Amounts, NEW nonce \in Nonces, NEW treasury \in TokenAccounts,
           NEW destination \in TokenAccounts, NEW tokens \in TokenAmounts,
           ProposeFundsTransfer(w, o, mint, amount, nonce, treasury, destination, tokens)
    PROVE  TransferInv' /\ SpentByDecision
  <1> DEFINE a == <<o, mint, amount, w, nonce>>
             expiry == SaturatingAdd(now,
                         organization[o].parameters.treasury_transfer_proposal_validity_period)
             prop == [organization |-> o, proposer |-> w, token_mint |-> mint,
                      amount |-> amount, destination |-> destination, created_at |-> now,
                      expires_at |-> expiry, votes_for |-> 1, votes_against |-> 0,
                      status |-> "Active", voters |-> {w}]
  <1>1. /\ o \in DOMAIN organization /\ a \notin DOMAIN transfer_proposals
        /\ destination \in DOMAIN token_accounts
        /\ token_accounts[destination].mint = mint
        /\ transfer_proposals' = StoreAccount(transfer_proposals, a, prop)
        /\ transfers_executed' = StoreAccount(transfers_executed, a, 0)
        /\ UNCHANGED treasuryVars
    BY DEF ProposeFundsTransfer, ProposeFundsTransferAccounts
  <1>2. TreasuryInv' /\ OrgsStay /\ AccountsStay /\ AccountsOnlyGrow
    BY <1>1, TreasuryStepOK DEF TransferInv
  <1>3. expiry \in 0..I64Max /\ now \in Nat /\ amount \in Nat
    BY <1>1, ExpiryType, StoredPeriods, TreasuryAssumption DEF TransferInv, TreasuryInv, OrgInv
  <1> HIDE DEF expiry
  <1>4. prop \in TreasuryTransferProposal
    BY <1>3 DEF TreasuryTransferProposal, ProposalStatus
  <1>5. prop.organization = o /\ prop.destination = destination /\ prop.token_mint = mint
        /\ prop.status = "Active"
    OBVIOUS
  <1> HIDE DEF prop
  <1>6. a \in Addresses
    BY DEF Addresses
  <1> HIDE DEF a
  <1>7. /\ DOMAIN transfer_proposals' = DOMAIN transfer_proposals \cup {a}
        /\ transfer_proposals'[a] = prop
        /\ \A b \in DOMAIN transfer_proposals : transfer_proposals'[b] = transfer_proposals[b]
    BY <1>1 DEF StoreAccount
  <1>8. /\ transfers_executed \in [DOMAIN transfer_proposals -> Nat]
        /\ transfers_executed' = [b \in DOMAIN transfer_proposals' |->
                                    IF b = a THEN 0 ELSE transfers_executed[b]]
    BY <1>1, <1>7 DEF StoreAccount, TransferInv, TypeOK
  <1>9. TypeOK'
    BY <1>2, <1>4, <1>6, <1>7, <1>8 DEF TransferInv, TreasuryInv, TypeOK
  <1>10. ProposalsPlaced'
    <2>1. \A p : Placed(p) => Placed(p)'
      BY <1>2, PlacedStays
    <2>2. Placed(prop)
      BY <1>1, <1>5 DEF Placed
    <2> SUFFICES ASSUME NEW b \in DOMAIN transfer_proposals'
                 PROVE  Placed(transfer_proposals[b])'
      BY DEF ProposalsPlaced
    <2> QED
      BY <1>7, <2>1, <2>2 DEF TransferInv, ProposalsPlaced
  <1>11. ApprovedIsPaid'
    BY <1>1, <1>5, <1>7, <1>8 DEF TransferInv, ApprovedIsPaid
  <1>12. AccountsTypeOK /\ AccountsTypeOK'
    BY <1>2 DEF TransferInv, TreasuryInv, TreasuryTypeOK, AccountsTypeOK
  <1> QED
    BY <1>2, <1>9, <1>10, <1>11, <1>12, GrowingIsNotSpent DEF TransferInv

(* A vote changes the tallies, the voters and the status, and nothing else. *)
LEMMA VoteOnTransfer ==
    ASSUME NEW p \in TreasuryTransferProposal, NEW o, NEW voter \in Wallets, NEW vote \in BOOLEAN
    PROVE  LET u == WithVote(o, p, voter, vote)
           IN  /\ u \in TreasuryTransferProposal
               /\ u.organization = p.organization /\ u.token_mint = p.token_mint
               /\ u.amount = p.amount /\ u.destination = p.destination
  <1> DEFINE f == p.votes_for + (IF vote THEN 1 ELSE 0)
             n == p.votes_against + (IF vote THEN 0 ELSE 1)
             st == UpdateProposalStatus(p.votes_for, p.votes_against,
                     IsProposalExpired(p.expires_at, now),
                     organization[o].parameters.treasury_transfer_threshold_percentage,
                     ContributorCount(o),
                     organization[o].parameters.treasury_transfer_quorum_percentage)
             u == [p EXCEPT !.votes_for = f, !.votes_against = n,
                            !.voters = @ \cup {voter}, !.status = st]
  <1>1. f \in Nat /\ n \in Nat
    BY DEF TreasuryTransferProposal
  <1>2. st \in ProposalStatus
    BY DEF UpdateProposalStatus, ProposalStatus
  <1>3. WithVote(o, p, voter, vote) = u
    BY DEF WithVote
  <1> HIDE DEF f, n, st
  <1>4. u \in TreasuryTransferProposal
    BY <1>1, <1>2 DEF TreasuryTransferProposal
  <1>5. /\ u.organization = p.organization /\ u.token_mint = p.token_mint
        /\ u.amount = p.amount /\ u.destination = p.destination
    BY DEF TreasuryTransferProposal
  <1> QED
    BY <1>3, <1>4, <1>5

(* What an execution moves leaves the organization's own account for the   *)
(* destination of the proposal.                                            *)
LEMMA ExecutionEffect ==
    ASSUME TransferInv, NEW o \in Orgs, NEW a \in DOMAIN transfer_proposals, NEW treasury,
           transfer_proposals[a].organization = o,
           IsTreasuryAccount(o, transfer_proposals[a].token_mint, treasury),
           ExecuteTransfer(a, treasury),
           transfer_proposals'[a].status = "Approved",
           UNCHANGED <<now, organization, contributor, token_registry>>
    PROVE  /\ TreasuryInv' /\ OrgsStay /\ AccountsStay
           /\ transfers_executed' \in [DOMAIN transfer_proposals -> Nat]
           /\ transfers_executed'[a] >= 1
           /\ \A b \in DOMAIN transfer_proposals : b # a =>
                transfers_executed'[b] = transfers_executed[b]
           /\ SpentByDecision
  <1> DEFINE p == transfer_proposals[a]
  <1>1. /\ p \in TreasuryTransferProposal /\ p.amount \in Nat
        /\ transfers_executed \in [DOMAIN transfer_proposals -> Nat]
    BY DEF TransferInv, TypeOK, TreasuryTransferProposal
  <1>2. /\ TransferTokens(treasury, p.destination, p.amount)
        /\ transfers_executed' = [transfers_executed EXCEPT ![a] = @ + 1]
    BY DEF ExecuteTransfer
  <1>3. AccountsTypeOK
    BY DEF TransferInv, TreasuryInv, TreasuryTypeOK, AccountsTypeOK
  <1> HIDE DEF p
  <1>4. /\ AccountsTypeOK' /\ AccountsStay
        /\ DOMAIN token_accounts' = DOMAIN token_accounts
        /\ \A k \in DOMAIN token_accounts : k # treasury /\ k # p.destination =>
             token_accounts'[k] = token_accounts[k]
        /\ treasury # p.destination =>
             /\ token_accounts'[treasury].amount = token_accounts[treasury].amount - p.amount
             /\ token_accounts'[p.destination].amount = token_accounts[p.destination].amount + p.amount
        /\ treasury = p.destination =>
             token_accounts'[treasury].amount = token_accounts[treasury].amount
    BY <1>1, <1>2, <1>3, TransferEffect
  <1>5. OrgInv' /\ OrgsStay
    BY DEF TransferInv, TreasuryInv, OrgInv, OrgsStay, Contributors
  <1>6. TreasuryInv'
    BY <1>4, <1>5, RegistriesStay DEF TransferInv
  <1>7. SpentByDecision
    <2> SUFFICES ASSUME NEW key \in DOMAIN token_accounts, token_accounts[key].owner \in Orgs,
                        token_accounts'[key].amount < token_accounts[key].amount
                 PROVE  Pays(a, key)
      BY DEF SpentByDecision
    <2>1. token_accounts[key].amount \in Nat
      BY <1>3, AccountsAmounts
    <2>2. key = treasury /\ treasury # p.destination
      BY <1>1, <1>4, <2>1
    <2>3. p.organization = token_accounts[key].owner
      BY <2>2 DEF IsTreasuryAccount, p
    <2>4. transfers_executed'[a] = transfers_executed[a] + 1
      BY <1>1, <1>2
    <2> QED
      BY <1>4, <2>2, <2>3, <2>4 DEF Pays, p
  <1> QED
    BY <1>1, <1>2, <1>4, <1>5, <1>6, <1>7

(* A vote either decides nothing to pay, or pays what it approves.         *)
LEMMA VoteTransfers ==
    ASSUME TransferInv, NEW v \in Wallets, NEW o \in Orgs, NEW a \in DOMAIN transfer_proposals,
           NEW treasury \in TokenAccounts, NEW vote \in BOOLEAN, NEW tokens \in TokenAmounts,
           VoteOnFundsTransferProposal(v, o, a, treasury, vote, tokens)
    PROVE  TransferInv' /\ SpentByDecision
  <1> DEFINE p == transfer_proposals[a]
             u == WithVote(o, p, v, vote)
  <1>1. /\ p \in TreasuryTransferProposal /\ p.organization = o /\ p.status = "Active"
        /\ Placed(p)
        /\ IsTreasuryAccount(o, p.token_mint, treasury)
        /\ transfer_proposals' = [transfer_proposals EXCEPT ![a] = u]
        /\ UNCHANGED <<now, organization, contributor, token_registry>>
        /\ IF u.status = "Approved" THEN ExecuteTransfer(a, treasury)
                                    ELSE UNCHANGED <<token_accounts, transfers_executed>>
    BY DEF TransferInv, TypeOK, ProposalsPlaced, VoteOnFundsTransferProposal,
           VoteOnFundsTransferProposalAccounts, orgVars
  <1>2. /\ u \in TreasuryTransferProposal /\ u.organization = o /\ u.token_mint = p.token_mint
        /\ u.destination = p.destination
    BY <1>1, VoteOnTransfer
  <1> HIDE DEF u
  <1>3. /\ DOMAIN transfer_proposals' = DOMAIN transfer_proposals
        /\ transfer_proposals'[a] = u
        /\ \A b \in DOMAIN transfer_proposals : b # a =>
             transfer_proposals'[b] = transfer_proposals[b]
    BY <1>1
  <1>4. /\ transfers_executed \in [DOMAIN transfer_proposals -> Nat]
        /\ ~(transfers_executed[a] >= 1)
    BY <1>1 DEF TransferInv, TypeOK, ApprovedIsPaid
  <1>5. /\ TreasuryInv' /\ OrgsStay /\ AccountsStay /\ SpentByDecision
        /\ transfers_executed' \in [DOMAIN transfer_proposals -> Nat]
        /\ u.status = "Approved" <=> transfers_executed'[a] >= 1
        /\ \A b \in DOMAIN transfer_proposals : b # a =>
             transfers_executed'[b] = transfers_executed[b]
    <2>1. CASE u.status = "Approved"
      <3>1. ExecuteTransfer(a, treasury) /\ transfer_proposals'[a].status = "Approved"
        BY <1>1, <1>3, <2>1
      <3> QED
        BY <1>1, <2>1, <3>1, ExecutionEffect
    <2>2. CASE u.status # "Approved"
      <3>1. UNCHANGED treasuryVars /\ UNCHANGED transfers_executed
        BY <1>1, <2>2 DEF treasuryVars, orgVars
      <3>2. TreasuryInv' /\ OrgsStay /\ AccountsStay /\ AccountsOnlyGrow
        BY <3>1, TreasuryStepOK DEF TransferInv
      <3>3. AccountsTypeOK /\ AccountsTypeOK'
        BY <3>2 DEF TransferInv, TreasuryInv, TreasuryTypeOK, AccountsTypeOK
      <3> QED
        BY <1>4, <2>2, <3>1, <3>2, <3>3, GrowingIsNotSpent
    <2> QED
      BY <2>1, <2>2
  <1>6. TypeOK'
    BY <1>2, <1>3, <1>5 DEF TransferInv, TreasuryInv, TypeOK
  <1>7. ProposalsPlaced'
    <2>1. \A q : Placed(q) => Placed(q)'
      BY <1>5, PlacedStays
    <2>2. Placed(u)
      BY <1>1, <1>2 DEF Placed
    <2> SUFFICES ASSUME NEW b \in DOMAIN transfer_proposals'
                 PROVE  Placed(transfer_proposals[b])'
      BY DEF ProposalsPlaced
    <2> QED
      BY <1>3, <2>1, <2>2 DEF TransferInv, ProposalsPlaced
  <1>8. ApprovedIsPaid'
    BY <1>3, <1>5 DEF TransferInv, ApprovedIsPaid
  <1> QED
    BY <1>5, <1>6, <1>7, <1>8 DEF TransferInv

(* An execution by hand pays once more what was approved.                  *)
LEMMA ExecuteTransfers ==
    ASSUME TransferInv, NEW w \in Wallets, NEW o \in Orgs, NEW a \in DOMAIN transfer_proposals,
           NEW treasury \in TokenAccounts, ExecuteFundsTransfer(w, o, a, treasury)
    PROVE  TransferInv' /\ SpentByDecision
  <1>1. /\ transfer_proposals[a].organization = o /\ transfer_proposals[a].status = "Approved"
        /\ IsTreasuryAccount(o, transfer_proposals[a].token_mint, treasury)
        /\ ExecuteTransfer(a, treasury)
        /\ UNCHANGED <<now, organization, contributor, token_registry, transfer_proposals>>
    BY DEF ExecuteFundsTransfer, ExecuteFundsTransferAccounts, orgVars
  <1>2. transfer_proposals'[a].status = "Approved"
    BY <1>1
  <1>3. /\ TreasuryInv' /\ OrgsStay /\ AccountsStay /\ SpentByDecision
        /\ transfers_executed' \in [DOMAIN transfer_proposals -> Nat]
        /\ transfers_executed'[a] >= 1
        /\ \A b \in DOMAIN transfer_proposals : b # a =>
             transfers_executed'[b] = transfers_executed[b]
    BY <1>1, <1>2, ExecutionEffect
  <1>4. ProposalsPlaced'
    <2>1. \A q : Placed(q) => Placed(q)'
      BY <1>3, PlacedStays
    <2> SUFFICES ASSUME NEW b \in DOMAIN transfer_proposals'
                 PROVE  Placed(transfer_proposals[b])'
      BY DEF ProposalsPlaced
    <2> QED
      BY <1>1, <2>1 DEF TransferInv, ProposalsPlaced
  <1>5. TypeOK'
    BY <1>1, <1>3 DEF TransferInv, TreasuryInv, TypeOK
  <1>6. ApprovedIsPaid'
    BY <1>1, <1>3 DEF TransferInv, ApprovedIsPaid
  <1> QED
    BY <1>3, <1>4, <1>5, <1>6 DEF TransferInv

(* Proposals move tokens only from one account to another.                 *)
LEMMA TransfersMove ==
    ASSUME TransferInv, Propose \/ Vote \/ Execute
    PROVE  \/ UNCHANGED token_accounts
           \/ \E from, to : \E amount \in Nat : TransferTokens(from, to, amount)
  <1>1. ASSUME NEW a \in DOMAIN transfer_proposals, NEW treasury, ExecuteTransfer(a, treasury)
        PROVE  \E from, to : \E amount \in Nat : TransferTokens(from, to, amount)
    <2>1. transfer_proposals[a].amount \in Nat
      BY DEF TransferInv, TypeOK, TreasuryTransferProposal
    <2>2. TransferTokens(treasury, transfer_proposals[a].destination, transfer_proposals[a].amount)
      BY <1>1 DEF ExecuteTransfer
    <2> QED
      BY <2>1, <2>2
  <1>2. CASE Propose
    BY <1>2 DEF Propose, ProposeFundsTransfer, treasuryVars
  <1>3. CASE Vote
    BY <1>1, <1>3 DEF Vote, VoteOnFundsTransferProposal
  <1>4. CASE Execute
    BY <1>1, <1>4 DEF Execute, ExecuteFundsTransfer
  <1> QED
    BY <1>2, <1>3, <1>4

(* Every step keeps the invariant and spends only by decision.             *)
THEOREM TransferStep == TransferInv /\ [Next]_vars => TransferInv' /\ SpentByDecision
  <1> SUFFICES ASSUME TransferInv, [Next]_vars PROVE TransferInv' /\ SpentByDecision
    OBVIOUS
  <1>1. CASE TreasuryNext /\ UNCHANGED <<transfer_proposals, transfers_executed>>
    BY <1>1, TreasuryStepTransfers
  <1>2. CASE Propose
    BY <1>2, ProposeTransfers DEF Propose
  <1>3. CASE Vote
    BY <1>3, VoteTransfers DEF Vote
  <1>4. CASE Execute
    BY <1>4, ExecuteTransfers DEF Execute
  <1>5. CASE UNCHANGED vars
    BY <1>5, TreasuryStepTransfers DEF vars
  <1> QED
    BY <1>1, <1>2, <1>3, <1>4, <1>5 DEF Next

(* The invariant of treasury transfers holds in every reachable state.     *)
THEOREM TransferInvariant == Spec => []TransferInv
  BY TransferInit, TransferStep, PTL DEF Spec

(* Accounts keep their shape, and every stored time fits an i64.           *)
THEOREM TransferTypes == Spec => []TypeOK
  <1>1. TransferInv => TypeOK
    BY DEF TransferInv
  <1> QED
    BY <1>1, TransferInvariant, PTL

(* Whatever register_treasury_token enters again, registries stay sound.   *)
THEOREM RegistriesSound == Spec => []RegistrySound
  <1>1. TransferInv => RegistrySound
    BY DEF TransferInv, TreasuryInv
  <1> QED
    BY <1>1, TransferInvariant, PTL

(* No approval goes unpaid and nothing unapproved is paid                  *)
(* (vote_on_funds_transfer_proposal, execute_funds_transfer).              *)
THEOREM ApprovalsArePaid == Spec => []ApprovedIsPaid
  <1>1. TransferInv => ApprovedIsPaid
    BY DEF TransferInv
  <1> QED
    BY <1>1, TransferInvariant, PTL

(* Tokens leave a treasury only to execute an approved proposal, to its    *)
(* destination and in its amount.                                          *)
THEOREM SpendingIsDecided == Spec => TreasurySpendsByDecision
  <1>1. TransferInv /\ [Next]_vars
          => [SpentByDecision]_vars
    BY TransferStep
  <1> QED
    BY <1>1, TransferInvariant, PTL DEF Spec, TreasurySpendsByDecision, SpentByDecision

-----------------------------------------------------------------------------
(***************************************************************************)
(* Refinement.                                                             *)
(***************************************************************************)
(* A new proposal is a ballot whose proposer has voted for it.             *)
LEMMA ProposeOpensTransferBallot ==
    ASSUME NEW w \in Wallets, NEW o \in Orgs, NEW mint \in Mints,
           NEW amount \in Amounts, NEW nonce \in Nonces, NEW treasury \in TokenAccounts,
           NEW destination \in TokenAccounts, NEW tokens \in TokenAmounts,
           ProposeFundsTransfer(w, o, mint, amount, nonce, treasury, destination, tokens)
    PROVE  Ballot!BallotsNext
  <1> DEFINE a == <<o, mint, amount, w, nonce>>
  <1>1. PICK prop :
          /\ transfer_proposals' = StoreAccount(transfer_proposals, a, prop)
          /\ prop.status = "Active" /\ prop.voters = {w} /\ prop.organization = o
          /\ prop.votes_for = 1 /\ prop.votes_against = 0
    BY DEF ProposeFundsTransfer
  <1>2. a \notin DOMAIN transfer_proposals /\ w \in Contributors(o) /\ organization' = organization
    BY DEF ProposeFundsTransfer, ProposeFundsTransferAccounts, IsValidContributor,
           treasuryVars, orgVars
  <1> HIDE DEF a
  <1>3. /\ DOMAIN transfer_proposals' = DOMAIN transfer_proposals \cup {a}
        /\ \A b \in DOMAIN transfer_proposals : transfer_proposals'[b] = transfer_proposals[b]
        /\ transfer_proposals'[a] = prop
    BY <1>1, <1>2 DEF StoreAccount
  <1>4. w \in {organization'[transfer_proposals'[a].organization].contributors[i] :
                 i \in DOMAIN organization'[transfer_proposals'[a].organization].contributors}
    BY <1>1, <1>2, <1>3 DEF Contributors
  <1>5. Ballot!Open(a)
    BY <1>1, <1>2, <1>3, <1>4 DEF Ballot!Open, Contributors
  <1> QED
    BY <1>3, <1>5 DEF Ballot!BallotsNext

(* A vote that finds the ballot in time leaves it undecided, approved or   *)
(* rejected: the expiry that would mark it was refused before.             *)
LEMMA TransferStatusInTime ==
    ASSUME NEW f, NEW n, NEW threshold, NEW count, NEW quorum
    PROVE  UpdateProposalStatus(f, n, FALSE, threshold, count, quorum)
             \in {"Active", "Approved", "Rejected"}
  BY DEF UpdateProposalStatus

(* A vote on a transfer is a vote cast on an open ballot.                  *)
LEMMA VoteCastsTransferBallot ==
    ASSUME TransferInv, NEW v \in Wallets, NEW o \in Orgs, NEW a \in DOMAIN transfer_proposals,
           NEW treasury \in TokenAccounts, NEW vote \in BOOLEAN, NEW tokens \in TokenAmounts,
           VoteOnFundsTransferProposal(v, o, a, treasury, vote, tokens)
    PROVE  Ballot!BallotsNext
  <1> DEFINE p == transfer_proposals[a]
             for == IF vote THEN 1 ELSE 0
             against == IF vote THEN 0 ELSE 1
  <1>1. /\ p \in TreasuryTransferProposal /\ now \in Int
        /\ p.organization = o /\ p.status = "Active"
        /\ IsValidContributor(o, v) /\ v \notin p.voters
        /\ ~IsProposalExpired(p.expires_at, now)
        /\ transfer_proposals' = [transfer_proposals EXCEPT ![a] = WithVote(o, p, v, vote)]
    BY DEF VoteOnFundsTransferProposal, VoteOnFundsTransferProposalAccounts, HasAlreadyVoted,
           TransferInv, TreasuryInv, TypeOK, OrgInv
  <1>2. now < p.expires_at
    BY <1>1, I64MaxAssumption DEF IsProposalExpired, TreasuryTransferProposal
  <1>3. PICK status \in {"Active", "Approved", "Rejected"} :
          WithVote(o, p, v, vote) = Ballot!Counted(p, v, for, against, status)
    <2> DEFINE outcome(expired) == UpdateProposalStatus(p.votes_for, p.votes_against,
                     expired, organization[o].parameters.treasury_transfer_threshold_percentage,
                     ContributorCount(o),
                     organization[o].parameters.treasury_transfer_quorum_percentage)
    <2>1. outcome(FALSE) \in {"Active", "Approved", "Rejected"}
      BY TransferStatusInTime
    <2>2. IsProposalExpired(p.expires_at, now) = FALSE
      BY <1>1 DEF IsProposalExpired
    <2>3. WithVote(o, p, v, vote) =
            Ballot!Counted(p, v, for, against, outcome(IsProposalExpired(p.expires_at, now)))
      BY DEF WithVote, Ballot!Counted
    <2> QED
      BY <2>1, <2>2, <2>3
  <1>4. v \in Contributors(p.organization) \ p.voters
    BY <1>1 DEF IsValidContributor
  <1>5. for \in {0, 1} /\ against = 1 - for
    OBVIOUS
  <1> HIDE DEF for, against
  <1>6. transfer_proposals' =
          [transfer_proposals EXCEPT ![a] = Ballot!Counted(p, v, for, 1 - for, status)]
    BY <1>1, <1>3, <1>5
  <1>7. Ballot!Cast(a, v)
    BY <1>1, <1>2, <1>4, <1>5, <1>6 DEF Ballot!Cast
  <1> QED
    BY <1>7 DEF Ballot!BallotsNext

(* What a step does to the proposals is a step of Ballots.                 *)
LEMMA TransferBallotStep == TransferInv /\ [Next]_vars => [Ballot!BallotsNext]_transfer_proposals
  <1> SUFFICES ASSUME TransferInv, [Next]_vars
               PROVE  Ballot!BallotsNext \/ UNCHANGED transfer_proposals
    OBVIOUS
  <1>1. CASE Propose
    BY <1>1, ProposeOpensTransferBallot DEF Propose
  <1>2. CASE Vote
    BY <1>2, VoteCastsTransferBallot DEF Vote
  <1>3. CASE Execute
    BY <1>3 DEF Execute, ExecuteFundsTransfer
  <1>4. CASE UNCHANGED vars
    BY <1>4 DEF vars
  <1> QED
    BY <1>1, <1>2, <1>3, <1>4 DEF Next

(* Transfer proposals keep the promise of Ballots, the vote cast for the   *)
(* proposer included.                                                      *)
THEOREM TransferBallotsImplemented == Spec => TransferBallots
  <1>1. Init => Ballot!BallotsInit
    BY DEF Init, EmptyMap, Ballot!BallotsInit
  <1> QED
    BY <1>1, TransferBallotStep, TransferInvariant, PTL
       DEF Spec, TransferBallots, Ballot!BallotsSpec

-----------------------------------------------------------------------------
(***************************************************************************)
(* Counting.  That a ballot's tallies are the number of its voters follows *)
(* from what Ballots lets a step do to it.                                 *)
(***************************************************************************)
TalliesCounted ==
    \A a \in DOMAIN transfer_proposals :
        /\ IsFiniteSet(transfer_proposals[a].voters)
        /\ Cardinality(transfer_proposals[a].voters) =
             transfer_proposals[a].votes_for + transfer_proposals[a].votes_against

(* A ballot that is opened has as many votes as voters, and a vote cast    *)
(* adds one of each.                                                       *)
LEMMA BallotsStayCounted ==
    ASSUME TransferInv, TalliesCounted, [Ballot!BallotsNext]_transfer_proposals
    PROVE  TalliesCounted'
  <1> SUFFICES ASSUME NEW b \in DOMAIN transfer_proposals'
               PROVE  /\ IsFiniteSet(transfer_proposals'[b].voters)
                      /\ Cardinality(transfer_proposals'[b].voters) =
                           transfer_proposals'[b].votes_for + transfer_proposals'[b].votes_against
    BY DEF TalliesCounted
  <1>1. CASE UNCHANGED transfer_proposals
    BY <1>1 DEF TalliesCounted
  <1>2. ASSUME NEW a \in DOMAIN transfer_proposals', Ballot!Open(a)
        PROVE  /\ IsFiniteSet(transfer_proposals'[b].voters)
               /\ Cardinality(transfer_proposals'[b].voters) =
                    transfer_proposals'[b].votes_for + transfer_proposals'[b].votes_against
    <2>1. CASE b # a
      BY <1>2, <2>1 DEF Ballot!Open, TalliesCounted
    <2>2. CASE b = a /\ transfer_proposals'[a].voters = {} /\ transfer_proposals'[a].votes_for = 0
      BY <1>2, <2>2, FS_EmptySet DEF Ballot!Open
    <2>3. ASSUME b = a, NEW voter, transfer_proposals'[a].voters = {voter},
                 transfer_proposals'[a].votes_for = 1
          PROVE  /\ IsFiniteSet(transfer_proposals'[b].voters)
                 /\ Cardinality(transfer_proposals'[b].voters) =
                      transfer_proposals'[b].votes_for + transfer_proposals'[b].votes_against
      <3>1. IsFiniteSet({voter}) /\ Cardinality({voter}) = 1
        BY FS_Singleton
      <3>2. transfer_proposals'[b].votes_against = 0
        BY <1>2, <2>3 DEF Ballot!Open
      <3> QED
        BY <2>3, <3>1, <3>2
    <2> QED
      BY <1>2, <2>1, <2>2, <2>3 DEF Ballot!Open
  <1>3. ASSUME NEW a \in DOMAIN transfer_proposals, NEW voter \in Wallets, Ballot!Cast(a, voter)
        PROVE  /\ IsFiniteSet(transfer_proposals'[b].voters)
               /\ Cardinality(transfer_proposals'[b].voters) =
                    transfer_proposals'[b].votes_for + transfer_proposals'[b].votes_against
    <2> DEFINE p == transfer_proposals[a]
    <2>1. PICK for \in {0, 1}, status \in {"Active", "Approved", "Rejected"} :
            transfer_proposals' = [transfer_proposals EXCEPT ![a] = Ballot!Counted(p, voter, for, 1 - for, status)]
      BY <1>3 DEF Ballot!Cast
    <2>2. /\ p \in TreasuryTransferProposal /\ voter \notin p.voters
          /\ IsFiniteSet(p.voters) /\ Cardinality(p.voters) = p.votes_for + p.votes_against
      BY <1>3 DEF TransferInv, TypeOK, TalliesCounted, Ballot!Cast
    <2>3. p.votes_for \in Nat /\ p.votes_against \in Nat
      BY <2>2 DEF TreasuryTransferProposal
    <2> DEFINE counted == Ballot!Counted(p, voter, for, 1 - for, status)
    <2>4. /\ counted.voters = p.voters \cup {voter}
          /\ counted.votes_for = p.votes_for + for
          /\ counted.votes_against = p.votes_against + (1 - for)
      BY <2>2 DEF Ballot!Counted, TreasuryTransferProposal
    <2>5. /\ IsFiniteSet(p.voters \cup {voter})
          /\ Cardinality(p.voters \cup {voter}) = Cardinality(p.voters) + 1
      BY <2>2, FS_AddElement
    <2> HIDE DEF p, counted
    <2>6. /\ IsFiniteSet(counted.voters)
          /\ Cardinality(counted.voters) = counted.votes_for + counted.votes_against
      BY <2>2, <2>3, <2>4, <2>5
    <2>7. CASE b = a
      BY <2>1, <2>6, <2>7 DEF counted
    <2>8. CASE b # a
      BY <2>1, <2>8 DEF TalliesCounted
    <2> QED
      BY <2>7, <2>8
  <1> QED
    BY <1>1, <1>2, <1>3 DEF Ballot!BallotsNext

(* In every reachable state a ballot has as many votes as voters.          *)
THEOREM TransferTalliesCounted == Spec => []TalliesCounted
  <1>1. Init => TalliesCounted
    BY DEF Init, EmptyMap, TalliesCounted
  <1>2. TransferInv /\ TalliesCounted /\ [Next]_vars => TalliesCounted'
    BY TransferBallotStep, BallotsStayCounted
  <1> QED
    BY <1>1, <1>2, TransferInvariant, PTL DEF Spec

(* The status a vote leaves is the one the tallies before it give.         *)
LEMMA TransferVoteStatus ==
    ASSUME NEW p \in TreasuryTransferProposal, NEW o, NEW voter \in Wallets, NEW vote \in BOOLEAN
    PROVE  LET u  == WithVote(o, p, voter, vote)
               ps == organization[o].parameters
           IN  /\ u.voters = p.voters \cup {voter}
               /\ u.status = UpdateProposalStatus(p.votes_for, p.votes_against,
                     IsProposalExpired(p.expires_at, now),
                     ps.treasury_transfer_threshold_percentage, ContributorCount(o),
                     ps.treasury_transfer_quorum_percentage)
  BY DEF WithVote, TreasuryTransferProposal

(* The votes that approve were a quorum before the deciding vote was cast. *)
LEMMA TransferVoteHasQuorum ==
    ASSUME TransferInv, TalliesCounted, NEW v \in Wallets, NEW o \in Orgs,
           NEW a \in DOMAIN transfer_proposals, NEW treasury \in TokenAccounts,
           NEW vote \in BOOLEAN, NEW tokens \in TokenAmounts,
           VoteOnFundsTransferProposal(v, o, a, treasury, vote, tokens),
           transfer_proposals'[a].status = "Approved"
    PROVE  QuorumShare(Cardinality(transfer_proposals'[a].voters),
              ContributorCount(transfer_proposals[a].organization),
              organization[transfer_proposals[a].organization].parameters
                .treasury_transfer_quorum_percentage)
  <1> DEFINE p      == transfer_proposals[a]
             u      == WithVote(o, p, v, vote)
             quorum == organization[o].parameters.treasury_transfer_quorum_percentage
             count  == ContributorCount(o)
             before == Cardinality(p.voters)
             after  == Cardinality(p.voters \cup {v})
  <1>1. /\ p \in TreasuryTransferProposal /\ o \in DOMAIN organization /\ p.organization = o
        /\ v \notin p.voters
        /\ transfer_proposals' = [transfer_proposals EXCEPT ![a] = u]
    BY DEF TransferInv, TypeOK, VoteOnFundsTransferProposal,
           VoteOnFundsTransferProposalAccounts, HasAlreadyVoted
  <1>2. transfer_proposals'[a] = u
    BY <1>1
  <1>3. /\ u.voters = p.voters \cup {v}
        /\ u.status = UpdateProposalStatus(p.votes_for, p.votes_against,
             IsProposalExpired(p.expires_at, now),
             organization[o].parameters.treasury_transfer_threshold_percentage, count, quorum)
    BY <1>1, TransferVoteStatus
  <1>4. /\ p.votes_for \in Nat /\ p.votes_against \in Nat /\ IsFiniteSet(p.voters)
        /\ before = p.votes_for + p.votes_against
    BY <1>1 DEF TreasuryTransferProposal, TalliesCounted
  <1>5. /\ organization[o].parameters.treasury_transfer_threshold_percentage \in Nat
        /\ quorum \in Nat /\ count \in Nat
    BY <1>1, StoredShares DEF TransferInv, TreasuryInv
  <1>6. u.status = "Approved"
    BY <1>2
  <1>7. after = before + 1 /\ before \in Nat
    BY <1>1, <1>4, FS_AddElement, FS_CardinalityType
  <1>8. QuorumShare(before, count, quorum)
    <2> HIDE DEF u, p, count, quorum, before
    <2> QED
      BY <1>3, <1>4, <1>5, <1>6, ApprovedShares
  <1>9. QuorumShare(after, count, quorum)
    <2>1. quorum * count \in Int
      BY <1>5
    <2> HIDE DEF count, quorum, before, after
    <2> QED
      BY <1>7, <1>8, <2>1 DEF QuorumShare
  <1> QED
    BY <1>1, <1>2, <1>3, <1>9

(* A quorum of the contributors of the moment has voted on every transfer  *)
(* that is approved, though the status counts one vote less                *)
(* (vote_on_funds_transfer_proposal, update_proposal_status).              *)
THEOREM TransfersHaveQuorum == Spec => QuorumBehindTransfer
  <1> DEFINE Behind ==
        \A a \in DOMAIN transfer_proposals :
          LET old == transfer_proposals[a]
              new == transfer_proposals'[a]
          IN  old.status = "Active" /\ new.status = "Approved" =>
                QuorumShare(Cardinality(new.voters), ContributorCount(old.organization),
                   organization[old.organization].parameters.treasury_transfer_quorum_percentage)
  <1>1. TransferInv /\ TalliesCounted /\ [Next]_vars => [Behind]_vars
    <2> SUFFICES ASSUME TransferInv, TalliesCounted, Next,
                        NEW a \in DOMAIN transfer_proposals,
                        transfer_proposals[a].status = "Active",
                        transfer_proposals'[a].status = "Approved"
                 PROVE  LET old == transfer_proposals[a]
                            new == transfer_proposals'[a]
                        IN  QuorumShare(Cardinality(new.voters),
                               ContributorCount(old.organization),
                               organization[old.organization].parameters
                                 .treasury_transfer_quorum_percentage)
      OBVIOUS
    <2>1. CASE UNCHANGED transfer_proposals
      BY <2>1
    <2>2. CASE Propose
      <3>1. transfer_proposals'[a] = transfer_proposals[a]
        BY <2>2 DEF Propose, ProposeFundsTransfer, StoreAccount, ProposeFundsTransferAccounts
      <3> QED
        BY <3>1
    <2>3. CASE Vote
      <3>1. PICK v \in Wallets, o \in Orgs, b \in DOMAIN transfer_proposals,
                 treasury \in TokenAccounts, vote \in BOOLEAN, tokens \in TokenAmounts :
                   VoteOnFundsTransferProposal(v, o, b, treasury, vote, tokens)
        BY <2>3 DEF Vote
      <3>2. a = b
        BY <3>1 DEF VoteOnFundsTransferProposal
      <3> QED
        BY <3>1, <3>2, TransferVoteHasQuorum
    <2> QED
      BY <2>1, <2>2, <2>3 DEF Next, Execute, ExecuteFundsTransfer
  <1> QED
    BY <1>1, TransferInvariant, TransferTalliesCounted, PTL DEF Spec, QuorumBehindTransfer
=============================================================================
