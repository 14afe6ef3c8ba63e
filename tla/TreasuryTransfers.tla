--------------------------- MODULE TreasuryTransfers ---------------------------
(***************************************************************************)
(* How an organization decides to spend its treasury (treasury.rs): a      *)
(* contributor proposes a transfer, contributors vote, and the vote that   *)
(* finds the transfer approved makes it; an approved transfer can also be  *)
(* executed by hand.  The status is computed from the tallies as they were *)
(* before the vote at hand.                                                *)
(*                                                                         *)
(* A vote may name a linked task and its vault.  No task is ever stored as *)
(* Proposed or Approved (task.rs creates it and makes it Ready in one      *)
(* instruction), so the branches that synchronise votes and create vaults  *)
(* are never taken and a named task can only make a vote fail; the model   *)
(* leaves it out.                                                          *)
(***************************************************************************)
EXTENDS Treasury

CONSTANTS
    Nonces,         \* nonce arguments, part of a proposal's address
    MaxVoters,      \* keys reserved for the voters of one proposal (50)
    MaxTransfers,   \* bound on the proposals a behaviour opens
    MaxExecutions   \* bound on the executions of one proposal

ASSUME TransfersAssumption ==
    /\ MaxVoters \in Nat
    /\ MaxTransfers \in Nat
    /\ MaxExecutions \in Nat

VARIABLES
    transfer_proposals,  \* proposal accounts, at <<organization, mint, amount, proposer, nonce>>
    transfers_executed   \* TreasuryTransferExecutedEvents emitted for each proposal

vars == <<treasuryVars, transfer_proposals, transfers_executed>>

Addresses == Orgs \X Mints \X Amounts \X Wallets \X Nonces

(* The voters list starts with the proposer, whose vote is yes.            *)
TreasuryTransferProposal ==
    [organization : Orgs, proposer : Wallets, token_mint : Mints, amount : Nat,
     destination : TokenAccounts, created_at : Nat, expires_at : 0..I64Max,
     votes_for : Nat, votes_against : Nat, status : ProposalStatus,
     voters : SUBSET Wallets]

ProposeFundsTransferAccounts(o, address, treasury, destination) ==
    /\ o \in DOMAIN organization
    /\ o \in DOMAIN token_registry
    /\ address \notin DOMAIN transfer_proposals
    /\ IsTreasuryAccount(o, address[2], treasury)
    /\ destination \in DOMAIN token_accounts
    /\ token_accounts[destination].mint = address[2]

(* The treasury must cover the amount now; it need not when it is approved. *)
ProposeFundsTransfer(proposer, o, mint, amount, nonce, treasury, destination, tokens) ==
    LET address == <<o, mint, amount, proposer, nonce>>
        ps      == organization[o].parameters
    IN  /\ ProposeFundsTransferAccounts(o, address, treasury, destination)
        /\ IsValidContributor(o, proposer)
        /\ HasEnoughTokensToVote(tokens, ps.minimum_token_requirement)
        /\ token_accounts[treasury].amount >= amount
        /\ TokenRegistered(o, mint)
        /\ transfer_proposals' = StoreAccount(transfer_proposals, address,
             [organization |-> o, proposer |-> proposer, token_mint |-> mint,
              amount |-> amount, destination |-> destination, created_at |-> now,
              expires_at |-> SaturatingAdd(now, ps.treasury_transfer_proposal_validity_period),
              votes_for |-> 1, votes_against |-> 0, status |-> "Active",
              voters |-> {proposer}])
        /\ transfers_executed' = StoreAccount(transfers_executed, address, 0)
        /\ UNCHANGED treasuryVars

VoteOnFundsTransferProposalAccounts(o, address, treasury) ==
    /\ o \in DOMAIN organization
    /\ address \in DOMAIN transfer_proposals
    /\ transfer_proposals[address].organization = o
    /\ transfer_proposals[address].status = "Active"
    /\ IsTreasuryAccount(o, transfer_proposals[address].token_mint, treasury)

FaultyForgetsVoters(proposal, voter) == FALSE \* fault: voters list not consulted

HasAlreadyVoted(proposal, voter) == voter \in proposal.voters

(* The new vote is on the tallies but not in the status. *)
WithVote(o, proposal, voter, vote) ==
    [proposal EXCEPT
       !.votes_for = @ + (IF vote THEN 1 ELSE 0),
       !.votes_against = @ + (IF vote THEN 0 ELSE 1),
       !.voters = @ \cup {voter},
       !.status = UpdateProposalStatus(proposal.votes_for, proposal.votes_against,
          IsProposalExpired(proposal.expires_at, now),
          organization[o].parameters.treasury_transfer_threshold_percentage,
          ContributorCount(o),
          organization[o].parameters.treasury_transfer_quorum_percentage)]

FaultyTransferIfCovered(address, treasury) == \* fault: a transfer that fails is passed over
    LET proposal == transfer_proposals[address]
    IN  IF token_accounts[treasury].amount >= proposal.amount
        THEN /\ TransferTokens(treasury, proposal.destination, proposal.amount)
             /\ transfers_executed' = [transfers_executed EXCEPT ![address] = @ + 1]
        ELSE UNCHANGED <<token_accounts, transfers_executed>>

ExecuteTransfer(address, treasury) ==
    LET proposal == transfer_proposals[address]
    IN  /\ TransferTokens(treasury, proposal.destination, proposal.amount)
        /\ transfers_executed' = [transfers_executed EXCEPT ![address] = @ + 1]

VoteOnFundsTransferProposal(voter, o, address, treasury, vote, tokens) ==
    /\ VoteOnFundsTransferProposalAccounts(o, address, treasury)
    /\ LET proposal == transfer_proposals[address]
           updated  == WithVote(o, proposal, voter, vote)
       IN  /\ IsValidContributor(o, voter)
           /\ HasEnoughTokensToVote(tokens, organization[o].parameters.minimum_token_requirement)
           /\ ~IsProposalExpired(proposal.expires_at, now)
           /\ ~HasAlreadyVoted(proposal, voter)
           /\ Cardinality(updated.voters) <= MaxVoters
           /\ transfer_proposals' = [transfer_proposals EXCEPT ![address] = updated]
           /\ IF updated.status = "Approved"
              THEN ExecuteTransfer(address, treasury)
              ELSE UNCHANGED <<token_accounts, transfers_executed>>
    /\ UNCHANGED <<orgVars, token_registry>>

FaultyExecuteFromAny(o, address, treasury) == \* fault: any treasury of the mint pays
    /\ o \in DOMAIN organization
    /\ address \in DOMAIN transfer_proposals
    /\ transfer_proposals[address].status = "Approved"
    /\ \E q \in Orgs : IsTreasuryAccount(q, transfer_proposals[address].token_mint, treasury)

ExecuteFundsTransferAccounts(o, address, treasury) ==
    /\ o \in DOMAIN organization
    /\ address \in DOMAIN transfer_proposals
    /\ transfer_proposals[address].organization = o
    /\ transfer_proposals[address].status = "Approved"
    /\ IsTreasuryAccount(o, transfer_proposals[address].token_mint, treasury)

(* The proposal is only read: it stays approved, and may be executed again. *)
ExecuteFundsTransfer(executor, o, address, treasury) ==
    /\ ExecuteFundsTransferAccounts(o, address, treasury)
    /\ IsValidContributor(o, executor)
    /\ ExecuteTransfer(address, treasury)
    /\ UNCHANGED <<orgVars, token_registry, transfer_proposals>>

-----------------------------------------------------------------------------
Init ==
    /\ TreasuryInit
    /\ transfer_proposals = EmptyMap
    /\ transfers_executed = EmptyMap

Propose ==
    /\ Cardinality(DOMAIN transfer_proposals) < MaxTransfers
    /\ \E proposer \in Wallets, o \in Orgs, mint \in Mints, amount \in Amounts,
          nonce \in Nonces, treasury, destination \in TokenAccounts, tokens \in TokenAmounts :
         ProposeFundsTransfer(proposer, o, mint, amount, nonce, treasury, destination, tokens)

Vote ==
    \E voter \in Wallets, o \in Orgs, address \in DOMAIN transfer_proposals,
       treasury \in TokenAccounts, vote \in BOOLEAN, tokens \in TokenAmounts :
         VoteOnFundsTransferProposal(voter, o, address, treasury, vote, tokens)

Execute ==
    \E executor \in Wallets, o \in Orgs, address \in DOMAIN transfer_proposals,
       treasury \in TokenAccounts :
         /\ transfers_executed[address] < MaxExecutions
         /\ ExecuteFundsTransfer(executor, o, address, treasury)

Next ==
    \/ TreasuryNext /\ UNCHANGED <<transfer_proposals, transfers_executed>>
    \/ Propose
    \/ Vote
    \/ Execute

Spec == Init /\ [][Next]_vars

-----------------------------------------------------------------------------
TypeOK ==
    /\ TreasuryTypeOK
    /\ DOMAIN transfer_proposals \subseteq Addresses
    /\ \A a \in DOMAIN transfer_proposals :
         transfer_proposals[a] \in TreasuryTransferProposal
    /\ transfers_executed \in [DOMAIN transfer_proposals -> Nat]

(* Approval and payment are one step: whatever is approved has been paid   *)
(* out, and nothing is paid that is not approved, even when the treasury   *)
(* has meanwhile been spent by another proposal.                           *)
ApprovedIsPaid ==
    \A a \in DOMAIN transfer_proposals :
        transfer_proposals[a].status = "Approved" <=> transfers_executed[a] >= 1

(* Tokens leave an organization's treasury account only in a step that     *)
(* executes an approved proposal of that organization, and then exactly    *)
(* the amount it names, to the account it names.                           *)
Pays(a, key) ==
    LET p == transfer_proposals[a]
    IN  /\ p.organization = token_accounts[key].owner
        /\ transfer_proposals'[a].status = "Approved"
        /\ transfers_executed'[a] = transfers_executed[a] + 1
        /\ token_accounts'[key].amount = token_accounts[key].amount - p.amount
        /\ token_accounts'[p.destination].amount
             = token_accounts[p.destination].amount + p.amount

TreasurySpendsByDecision ==
    [][\A key \in DOMAIN token_accounts :
         token_accounts[key].owner \in Orgs
           /\ token_accounts'[key].amount < token_accounts[key].amount
         => \E a \in DOMAIN transfer_proposals : Pays(a, key)]_vars

(* Transfer proposals keep the promise of Ballots, the vote that           *)
(* propose_funds_transfer casts for the proposer included.                 *)
Ballot ==
    INSTANCE Ballots WITH
        Voters <- Wallets, ballots <- transfer_proposals,
        open <- {a \in DOMAIN transfer_proposals : now < transfer_proposals[a].expires_at},
        electorate <- [a \in DOMAIN transfer_proposals |-> Contributors(transfer_proposals[a].organization)]

TransferBallots == Ballot!BallotsSpec

(* The contributors who voted on a transfer when it is approved are a      *)
(* quorum, in exact fractions, of the electorate of that moment.           *)
QuorumBehindTransfer ==
    [][\A a \in DOMAIN transfer_proposals :
         LET old == transfer_proposals[a]
             new == transfer_proposals'[a]
         IN  old.status = "Active" /\ new.status = "Approved" =>
               QuorumShare(Cardinality(new.voters), ContributorCount(old.organization),
                  organization[old.organization].parameters.treasury_transfer_quorum_percentage)]_vars

-----------------------------------------------------------------------------
(***************************************************************************)
(* What the documents say and the program does not do.                     *)
(***************************************************************************)

(* The votes on an approved transfer meet its threshold (business-rules.md *)
(* rules 5).  A last vote against is not in the tallies the status is      *)
(* computed from.                                                          *)
ApprovalMeetsThreshold ==
    \A a \in DOMAIN transfer_proposals :
        LET p == transfer_proposals[a]
        IN  p.status = "Approved" =>
              ThresholdShare(p.votes_for, p.votes_against,
                 organization[p.organization].parameters.treasury_transfer_threshold_percentage)

(* A proposal that has been executed is not executed again (errors.rs,     *)
(* ProposalAlreadyExecuted).  The error is never raised.                   *)
ExecutedOnce ==
    \A a \in DOMAIN transfers_executed : transfers_executed[a] <= 1
=============================================================================
