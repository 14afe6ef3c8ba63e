--------------------------- MODULE ProjectGovernance ---------------------------
(***************************************************************************)
(* How an organization decides on projects (project.rs): a contributor     *)
(* proposes one, contributors vote, and the approving vote creates the     *)
(* project account in the same instruction.  create_project makes one more *)
(* account from an approved proposal, at an address its caller chooses.    *)
(***************************************************************************)
EXTENDS Projects

CONSTANTS
    MaxVoters,      \* keys reserved for the voters of one proposal (50)
    MaxProposals,   \* bound on the proposals a behaviour opens
    MaxProjects     \* bound on the projects a behaviour creates

ASSUME ProjectGovernanceAssumption ==
    /\ MaxVoters \in Nat
    /\ MaxProposals \in Nat
    /\ MaxProjects \in Nat

VARIABLE project_proposals   \* proposal accounts, at <<organization, title>>

vars == <<projectVars, project_proposals>>

ProjectProposal ==
    [organization : Orgs, proposer : Wallets, title : Titles,
     member_pubkeys : Seq(Wallets), task_approval_threshold : 0..100,
     validity_period : Int, created_at : Nat, expires_at : 0..I64Max,
     votes_for : Nat, votes_against : Nat, status : ProposalStatus,
     voters : SUBSET Wallets]

(* A title is proposed once in the life of an organization, whatever       *)
(* becomes of the proposal.                                                *)
ProposeProjectAccounts(o, title) ==
    /\ o \in DOMAIN organization
    /\ <<o, title>> \notin DOMAIN project_proposals

(* The list must fit the space the account is made with, or storing fails. *)
ProposeProject(proposer, o, title, members, threshold, validity_period, tokens) ==
    LET ps == organization[o].parameters
    IN  /\ ProposeProjectAccounts(o, title)
        /\ ValidProjectArguments(o, members, threshold, validity_period)
        /\ IsValidContributor(o, proposer)
        /\ HasEnoughTokensToVote(tokens, ps.minimum_token_requirement)
        /\ Len(members) <= MaxMembers
        /\ project_proposals' = StoreAccount(project_proposals, <<o, title>>,
             [organization |-> o, proposer |-> proposer, title |-> title,
              member_pubkeys |-> members, task_approval_threshold |-> threshold,
              validity_period |-> validity_period, created_at |-> now,
              expires_at |-> SaturatingAdd(now, ps.project_proposal_validity_period),
              votes_for |-> 0, votes_against |-> 0, status |-> "Active", voters |-> {}])
        /\ UNCHANGED projectVars

FaultyVoteOnDecided(o, address) ==           \* fault: status constraint dropped
    /\ o \in DOMAIN organization
    /\ address \in DOMAIN project_proposals
    /\ project_proposals[address].organization = o

VoteOnProjectProposalAccounts(o, address) ==
    /\ o \in DOMAIN organization
    /\ address \in DOMAIN project_proposals
    /\ project_proposals[address].organization = o
    /\ project_proposals[address].status = "Active"

HasVoted(proposal, voter) == voter \in proposal.voters

(* A project has a threshold of its own but the contributors' quorum. *)
WithVote(o, proposal, voter, vote) ==
    LET votes_for     == proposal.votes_for + (IF vote THEN 1 ELSE 0)
        votes_against == proposal.votes_against + (IF vote THEN 0 ELSE 1)
        ps            == organization[o].parameters
    IN  [proposal EXCEPT
           !.votes_for = votes_for, !.votes_against = votes_against,
           !.voters = @ \cup {voter},
           !.status = UpdateProposalStatus(votes_for, votes_against,
              IsProposalExpired(proposal.expires_at, now),
              ps.project_proposal_threshold_percentage, ContributorCount(o),
              ps.contributor_proposal_quorum_percentage)]

FaultyCreateIfMissing(o, uuid, proposal) ==  \* fault: an address in use counts as created
    projects' = IF <<o, uuid>> \in DOMAIN projects THEN projects
                ELSE StoreAccount(projects, <<o, uuid>>,
                       NewProject(o, proposal.title, proposal.member_pubkeys,
                          proposal.task_approval_threshold, proposal.validity_period))

FaultyCreateOver(o, uuid, proposal) ==       \* fault: an address in use is written again
    projects' = StoreAccount(projects, <<o, uuid>>,
                   NewProject(o, proposal.title, proposal.member_pubkeys,
                      proposal.task_approval_threshold, proposal.validity_period))

(* Creating the account fails when the address is in use. *)
CreateProjectAccount(o, uuid, proposal) ==
    /\ <<o, uuid>> \notin DOMAIN projects
    /\ projects' = StoreAccount(projects, <<o, uuid>>,
                      NewProject(o, proposal.title, proposal.member_pubkeys,
                         proposal.task_approval_threshold, proposal.validity_period))

GetUuidFromPubkey(address) == address

(* A vote that would approve a proposal whose project address is in use    *)
(* fails as a whole: it is not counted.                                    *)
VoteOnProjectProposal(voter, o, address, vote, tokens) ==
    /\ VoteOnProjectProposalAccounts(o, address)
    /\ LET proposal == project_proposals[address]
           updated  == WithVote(o, proposal, voter, vote)
       IN  /\ IsValidContributor(o, voter)
           /\ HasEnoughTokensToVote(tokens, organization[o].parameters.minimum_token_requirement)
           /\ ~HasVoted(proposal, voter)
           /\ ~IsProposalExpired(proposal.expires_at, now)
           /\ Cardinality(updated.voters) <= MaxVoters
           /\ project_proposals' = [project_proposals EXCEPT ![address] = updated]
           /\ IF updated.status = "Approved"
              THEN CreateProjectAccount(o, GetUuidFromPubkey(address), updated)
              ELSE UNCHANGED projects
    /\ UNCHANGED orgVars

FaultyCreateUndecided(o, address) ==         \* fault: status constraint dropped
    /\ o \in DOMAIN organization
    /\ address \in DOMAIN project_proposals
    /\ project_proposals[address].organization = o

CreateProjectAccounts(o, address) ==
    /\ o \in DOMAIN organization
    /\ address \in DOMAIN project_proposals
    /\ project_proposals[address].organization = o
    /\ project_proposals[address].status = "Approved"

(* The account is new here, so the check that it is active already never   *)
(* holds: another project is made from a proposal that has one.            *)
CreateProject(creator, o, address, project_uuid) ==
    /\ CreateProjectAccounts(o, address)
    /\ IsValidContributor(o, creator)
    /\ CreateProjectAccount(o, project_uuid, project_proposals[address])
    /\ UNCHANGED <<orgVars, project_proposals>>

-----------------------------------------------------------------------------
Init == ProjectsInit /\ project_proposals = EmptyMap

Propose ==
    /\ Cardinality(DOMAIN project_proposals) < MaxProposals
    /\ \E proposer \in Wallets, o \in Orgs, title \in Titles, members \in MemberLists,
          threshold \in TaskThresholds, period \in Periods, tokens \in TokenAmounts :
         ProposeProject(proposer, o, title, members, threshold, period, tokens)

Vote ==
    \E voter \in Wallets, o \in Orgs, address \in DOMAIN project_proposals,
       vote \in BOOLEAN, tokens \in TokenAmounts :
         VoteOnProjectProposal(voter, o, address, vote, tokens)

Create ==
    /\ Cardinality(DOMAIN projects) < MaxProjects
    /\ \E creator \in Wallets, o \in Orgs, address \in DOMAIN project_proposals,
          uuid \in Uuids \cup ProposalAddresses :
         CreateProject(creator, o, address, uuid)

Next ==
    \/ OrgNext /\ UNCHANGED <<projects, project_proposals>>
    \/ Propose
    \/ Vote
    \/ Create

Spec == Init /\ [][Next]_vars

-----------------------------------------------------------------------------
TypeOK ==
    /\ ProjectsTypeOK
    /\ DOMAIN project_proposals \subseteq ProposalAddresses
    /\ \A a \in DOMAIN project_proposals : project_proposals[a] \in ProjectProposal

(* A project is what a proposal described. *)
IsProjectOf(project, proposal) ==
    /\ project.organization = proposal.organization
    /\ project.title = proposal.title
    /\ project.members = proposal.member_pubkeys
    /\ project.task_approval_threshold = proposal.task_approval_threshold

(* Every project, at a derived address or at one its creator chose, is     *)
(* what an approved proposal of its organization described, and trusts     *)
(* contributors of that organization only.                                 *)
ProjectsWereApproved ==
    \A a \in DOMAIN projects :
        /\ \E b \in DOMAIN project_proposals :
             /\ project_proposals[b].status = "Approved"
             /\ IsProjectOf(projects[a], project_proposals[b])
        /\ Members(projects[a]) \subseteq Contributors(projects[a].organization)

(* Approval and creation are one step: an approved proposal has a project  *)
(* of its own at the address derived from it, even when create_project was *)
(* called with that address before the deciding vote.                      *)
ApprovedHasItsProject ==
    \A a \in DOMAIN project_proposals :
        LET p       == project_proposals[a]
            address == <<p.organization, GetUuidFromPubkey(a)>>
        IN  p.status = "Approved" =>
              address \in DOMAIN projects /\ IsProjectOf(projects[address], p)

(* Project proposals keep the promise of Ballots.                          *)
Ballot ==
    INSTANCE Ballots WITH
        Voters <- Wallets, ballots <- project_proposals,
        open <- {a \in DOMAIN project_proposals : now < project_proposals[a].expires_at},
        electorate <- [a \in DOMAIN project_proposals |-> Contributors(project_proposals[a].organization)]

ProjectBallots == Ballot!BallotsSpec

(* The step that approves a project leaves votes on it that make, in exact *)
(* fractions, the shares the documents demand (business rules 8): the      *)
(* contributors' quorum and the projects' threshold.                       *)
ProjectApprovalIsEarned ==
    [][\A a \in DOMAIN project_proposals :
         LET old == project_proposals[a]
             new == project_proposals'[a]
             ps  == organization[old.organization].parameters
         IN  old.status = "Active" /\ new.status = "Approved" =>
               /\ QuorumShare(Cardinality(new.voters), ContributorCount(old.organization),
                     ps.contributor_proposal_quorum_percentage)
               /\ ThresholdShare(new.votes_for, new.votes_against,
                     ps.project_proposal_threshold_percentage)]_vars

=============================================================================
