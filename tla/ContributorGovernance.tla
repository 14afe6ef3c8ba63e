------------------------- MODULE ContributorGovernance -------------------------
(***************************************************************************)
(* How an organization elects its contributors (contributor.rs): a         *)
(* contributor proposes a candidate, contributors vote, and the vote that  *)
(* completes quorum and threshold admits the candidate in the same         *)
(* instruction.  Several proposals may be open for one candidate at once,  *)
(* parameters may change under an open ballot, and the electorate grows    *)
(* while ballots are open.                                                 *)
(***************************************************************************)
EXTENDS Organization

CONSTANTS
    Timestamps,     \* timestamp arguments, part of a proposal's address
    ReplayWindow,   \* how far a timestamp may be from the clock (300 s)
    MaxVoters,      \* keys reserved for the voters of one proposal (50)
    MaxProposals    \* bound on the proposals a behaviour opens

ASSUME GovernanceAssumption ==
    /\ Timestamps \subseteq Nat
    /\ ReplayWindow \in Nat
    /\ MaxVoters \in Nat
    /\ MaxProposals \in Nat

VARIABLE contributor_proposals  \* proposal accounts, at <<organization, candidate, timestamp>>

vars == <<orgVars, contributor_proposals>>

Addresses == Orgs \X Wallets \X Timestamps

ContributorProposal ==
    [organization : Orgs, candidate : Wallets, proposer : Wallets,
     proposed_rate : Rates, created_at : Nat, expires_at : 0..I64Max,
     votes_for : Nat, votes_against : Nat, status : ProposalStatus,
     voters : SUBSET Wallets]

Abs(n) == IF n < 0 THEN -n ELSE n

(* The proposal account is created here (init), so the address must be     *)
(* free: one proposal for each candidate and timestamp.                    *)
ProposeContributorAccounts(o, address) ==
    /\ o \in DOMAIN organization
    /\ address \notin DOMAIN contributor_proposals

ProposeContributor(proposer, o, candidate, rate, timestamp, amount) ==
    /\ ProposeContributorAccounts(o, <<o, candidate, timestamp>>)
    /\ IsValidContributor(o, proposer)
    /\ HasEnoughTokensToVote(amount, organization[o].parameters.minimum_token_requirement)
    /\ ~IsValidContributor(o, candidate)
    /\ Abs(now - timestamp) < ReplayWindow
    /\ contributor_proposals' =
         StoreAccount(contributor_proposals, <<o, candidate, timestamp>>,
            [organization |-> o, candidate |-> candidate, proposer |-> proposer,
             proposed_rate |-> rate, created_at |-> timestamp,
             expires_at |-> SaturatingAdd(now,
                organization[o].parameters.contributor_proposal_validity_period),
             votes_for |-> 0, votes_against |-> 0, status |-> "Active", voters |-> {}])
    /\ UNCHANGED orgVars

FaultyVoteOnDecided(o, address) ==           \* fault: status constraint dropped
    /\ o \in DOMAIN organization
    /\ address \in DOMAIN contributor_proposals
    /\ contributor_proposals[address].organization = o

VoteOnContributorProposalAccounts(o, address) ==
    /\ o \in DOMAIN organization
    /\ address \in DOMAIN contributor_proposals
    /\ contributor_proposals[address].organization = o
    /\ contributor_proposals[address].status = "Active"

FaultyStaleTally(o, proposal, voter, vote) == \* fault: status from the tallies before the vote
    [proposal EXCEPT
       !.votes_for = @ + (IF vote THEN 1 ELSE 0),
       !.votes_against = @ + (IF vote THEN 0 ELSE 1),
       !.voters = @ \cup {voter},
       !.status = UpdateProposalStatus(proposal.votes_for, proposal.votes_against, FALSE,
          organization[o].parameters.contributor_proposal_threshold_percentage,
          ContributorCount(o),
          organization[o].parameters.contributor_proposal_quorum_percentage)]

(* The proposal with one more vote, and the status that vote gives it. *)
WithVote(o, proposal, voter, vote) ==
    LET votes_for     == proposal.votes_for + (IF vote THEN 1 ELSE 0)
        votes_against == proposal.votes_against + (IF vote THEN 0 ELSE 1)
    IN  [proposal EXCEPT
           !.votes_for = votes_for, !.votes_against = votes_against,
           !.voters = @ \cup {voter},
           !.status = UpdateProposalStatus(votes_for, votes_against,
              IsProposalExpired(proposal.expires_at, now),
              organization[o].parameters.contributor_proposal_threshold_percentage,
              ContributorCount(o),
              organization[o].parameters.contributor_proposal_quorum_percentage)]

FaultyForgetsVoters(proposal, voter) == FALSE \* fault: voters list not consulted

HasAlreadyVoted(proposal, voter) == voter \in proposal.voters

FaultyAdmitsTwice(o, proposal) == proposal.status = "Approved" \* fault: list not consulted

FaultyAdmitsAlways(o, proposal) == ~IsValidContributor(o, proposal.candidate) \* fault: status ignored

(* Another proposal may have admitted the candidate while this one was open. *)
AdmitsCandidate(o, proposal) ==
    /\ proposal.status = "Approved"
    /\ ~IsValidContributor(o, proposal.candidate)

VoteOnContributorProposal(voter, o, address, vote, amount) ==
    /\ VoteOnContributorProposalAccounts(o, address)
    /\ LET proposal == contributor_proposals[address]
           updated  == WithVote(o, proposal, voter, vote)
       IN  /\ IsValidContributor(o, voter)
           /\ HasEnoughTokensToVote(amount, organization[o].parameters.minimum_token_requirement)
           /\ ~HasAlreadyVoted(proposal, voter)
           /\ ~IsProposalExpired(proposal.expires_at, now)
           /\ Cardinality(updated.voters) <= MaxVoters
           /\ contributor_proposals' = [contributor_proposals EXCEPT ![address] = updated]
           /\ IF AdmitsCandidate(o, updated)
              THEN AdmitContributor(o, proposal.candidate, proposal.proposed_rate)
              ELSE UNCHANGED orgVars

Init == OrgInit /\ contributor_proposals = EmptyMap

Propose ==
  /\ Cardinality(DOMAIN contributor_proposals) < MaxProposals
  /\ \E proposer, candidate \in Wallets, o \in Orgs, r \in Rates, t \in Timestamps,
       amount \in TokenAmounts : ProposeContributor(proposer, o, candidate, r, t, amount)

Vote ==
    \E voter \in Wallets, o \in Orgs, address \in DOMAIN contributor_proposals,
       vote \in BOOLEAN, amount \in TokenAmounts :
         VoteOnContributorProposal(voter, o, address, vote, amount)

Next ==
    \/ Administer /\ UNCHANGED contributor_proposals
    \/ Propose
    \/ Vote

Spec == Init /\ [][Next]_vars

-----------------------------------------------------------------------------
TypeOK ==
    /\ now \in 0..MaxTime
    /\ DOMAIN organization \subseteq Orgs
    /\ \A o \in DOMAIN organization : organization[o] \in OrganizationAccount
    /\ DOMAIN contributor \subseteq Orgs \X Wallets
    /\ \A a \in DOMAIN contributor : contributor[a] \in ContributorAccount
    /\ DOMAIN contributor_proposals \subseteq Addresses
    /\ \A a \in DOMAIN contributor_proposals :
         contributor_proposals[a] \in ContributorProposal

(* The tallies are the number of distinct voters, all of them contributors *)
(* of the proposal's own organization: nobody is counted twice, and no     *)
(* ballot takes votes from another organization                            *)
(* (vote_on_contributor_proposal's AlreadyVoted check and account links).  *)
BallotsCounted ==
    \A a \in DOMAIN contributor_proposals :
        LET p == contributor_proposals[a]
        IN  /\ p.votes_for + p.votes_against = Cardinality(p.voters)
            /\ p.voters \subseteq Contributors(p.organization)

(* No key is in a contributor list twice, however many proposals for it    *)
(* are approved: the list's length is the electorate every quorum is       *)
(* measured against.                                                       *)
NoDuplicateContributors ==
    \A o \in DOMAIN organization :
        \A i, j \in 1..ContributorCount(o) :
            organization[o].contributors[i] = organization[o].contributors[j] => i = j

(* Every contributor but the creator was elected: an approved proposal of  *)
(* that organization names it, at the rate its account was given.          *)
WasElected(o, c) ==
    \E a \in DOMAIN contributor_proposals :
        LET p == contributor_proposals[a]
        IN  /\ p.organization = o /\ p.candidate = c /\ p.status = "Approved"
            /\ p.proposed_rate = contributor[<<o, c>>].rate

MembersWereElected ==
    \A o \in DOMAIN organization :
        \A c \in Contributors(o) \ {organization[o].creator} : WasElected(o, c)

(* Approval and admission are one step: no approved proposal's candidate   *)
(* is missing from the list, not even when the list is at its capacity.    *)
ApprovedIsMember ==
    \A a \in DOMAIN contributor_proposals :
        LET p == contributor_proposals[a]
        IN  p.status = "Approved" => IsValidContributor(p.organization, p.candidate)

(* The list in the organization and the contributor accounts, two pieces   *)
(* of state that the instructions write separately, name the same keys.    *)
MembersHaveAccounts ==
    \A o \in Orgs, c \in Wallets :
        <<o, c>> \in DOMAIN contributor
            <=> o \in DOMAIN organization /\ IsValidContributor(o, c)

(* While the parameters stay as they are, a proposal that is still active  *)
(* never holds votes that approve it: a vote that completes the majority   *)
(* takes effect at once, and an electorate that grows under an open ballot *)
(* cannot complete it silently.                                            *)
NoOverlookedMajority ==
    \A a \in DOMAIN contributor_proposals :
        LET p  == contributor_proposals[a]
            ps == organization[p.organization].parameters
        IN  p.status = "Active" =>
              ~(/\ MeetsQuorumRequirement(p.votes_for + p.votes_against,
                     ContributorCount(p.organization),
                     ps.contributor_proposal_quorum_percentage)
                /\ HasReachedThreshold(p.votes_for, p.votes_against,
                     ps.contributor_proposal_threshold_percentage))

(* Contributor proposals keep the promise of Ballots: no candidate is      *)
(* exchanged, no vote is lost, doubled or cast by somebody who is no       *)
(* contributor of the organization or after the end, and no decision is    *)
(* reopened, recounted or decided otherwise.                               *)
Ballot ==
    INSTANCE Ballots WITH
        Voters <- Wallets, ballots <- contributor_proposals,
        open <- {a \in DOMAIN contributor_proposals : now < contributor_proposals[a].expires_at},
        electorate <- [a \in DOMAIN contributor_proposals |-> Contributors(contributor_proposals[a].organization)]

ContributorBallots == Ballot!BallotsSpec

(* The step that approves a proposal leaves votes on it that make, in      *)
(* exact fractions, the documented shares of the electorate of that moment *)
(* and of the votes cast (business rules 5).                               *)
ApprovalIsEarned ==
    [][\A a \in DOMAIN contributor_proposals :
         LET old == contributor_proposals[a]
             new == contributor_proposals'[a]
             ps  == organization[old.organization].parameters
         IN  old.status = "Active" /\ new.status = "Approved" =>
               /\ QuorumShare(Cardinality(new.voters), ContributorCount(old.organization),
                     ps.contributor_proposal_quorum_percentage)
               /\ ThresholdShare(new.votes_for, new.votes_against,
                     ps.contributor_proposal_threshold_percentage)]_vars
=============================================================================
