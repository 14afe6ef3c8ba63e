---------------------- MODULE ContributorGovernance_proofs ----------------------
(***************************************************************************)
(* Theorems about ContributorGovernance, for every set of wallets,         *)
(* organizations, parameters and bounds.                                   *)
(***************************************************************************)
EXTENDS ContributorGovernance, Accounts_proofs, FiniteSetTheorems

ParametersValid ==
    \A o \in DOMAIN organization : ValidateParameters(organization[o].parameters)

TypeInv == TypeOK /\ ParametersValid

-----------------------------------------------------------------------------
(* An expiry is an i64 that is not negative (calculate_expiration).        *)
LEMMA SaturatingAddType ==
    ASSUME NEW t \in 0..I64Max, NEW period \in Int, period > 0
    PROVE  SaturatingAdd(t, period) \in 0..I64Max
  BY I64MaxAssumption DEF SaturatingAdd

(* The account of an admitted contributor is well formed and has its rate. *)
LEMMA NewContributorType ==
    ASSUME now \in 0..MaxTime, NEW rate \in Nat, NEW period \in Int, period > 0
    PROVE  /\ NewContributor(rate, period) \in ContributorAccount
           /\ NewContributor(rate, period).rate = rate
  <1>1. now \in 0..I64Max
    BY OrganizationAssumption, I64MaxAssumption
  <1> QED
    BY <1>1, SaturatingAddType DEF NewContributor, ContributorAccount

(* The periods stored in an organization are positive: create and update   *)
(* refuse others.                                                          *)
LEMMA ValidPeriods ==
    ASSUME TypeInv, NEW o \in DOMAIN organization
    PROVE  LET p == organization[o].parameters
           IN  /\ p.contributor_validity_period \in Int
               /\ p.contributor_validity_period > 0
               /\ p.contributor_proposal_validity_period \in Int
               /\ p.contributor_proposal_validity_period > 0
  <1>1. organization[o].parameters \in Parameters
    BY DEF TypeInv, TypeOK, OrganizationAccount
  <1> QED
    BY <1>1 DEF TypeInv, ParametersValid, ValidateParameters, ValidateValidityPeriod, Parameters

-----------------------------------------------------------------------------
(* Before anything is created every account is of its type.                *)
THEOREM TypeInit == Init => TypeInv
  BY OrganizationAssumption DEF Init, OrgInit, EmptyMap, TypeInv, TypeOK, ParametersValid

(* create_organization stores a well-formed organization and contributor.  *)
LEMMA CreateType ==
    ASSUME TypeInv, NEW w \in Wallets, NEW o \in Orgs, NEW p \in ParameterSets, NEW r \in Rates,
           CreateOrganization(w, o, p, r), UNCHANGED contributor_proposals
    PROVE  TypeInv'
  <1> DEFINE org  == [creator |-> w, contributors |-> <<w>>, parameters |-> p]
             acct == NewContributor(r, p.contributor_validity_period)
  <1>1. p \in Parameters /\ r \in Nat /\ ValidateParameters(p)
    BY OrganizationAssumption DEF CreateOrganization
  <1>2. acct \in ContributorAccount
    BY <1>1, NewContributorType
       DEF ValidateParameters, ValidateValidityPeriod, Parameters, TypeInv, TypeOK
  <1>3. org \in OrganizationAccount
    BY <1>1 DEF OrganizationAccount
  <1>4. /\ organization' = StoreAccount(organization, o, org)
        /\ contributor' = StoreAccount(contributor, <<o, w>>, acct)
        /\ UNCHANGED <<now, contributor_proposals>>
    BY DEF CreateOrganization
  <1>5. org.parameters = p
    OBVIOUS
  <1> HIDE DEF org, acct
  <1>6. /\ DOMAIN organization' = DOMAIN organization \cup {o}
        /\ \A q \in DOMAIN organization' :
             organization'[q] = IF q = o THEN org ELSE organization[q]
    BY <1>4 DEF StoreAccount
  <1>7. /\ DOMAIN contributor' = DOMAIN contributor \cup {<<o, w>>}
        /\ \A a \in DOMAIN contributor' :
             contributor'[a] = IF a = <<o, w>> THEN acct ELSE contributor[a]
    BY <1>4 DEF StoreAccount
  <1>8. \A q \in DOMAIN organization' : organization'[q] \in OrganizationAccount
    BY <1>3, <1>6 DEF TypeInv, TypeOK
  <1>9. \A a \in DOMAIN contributor' : contributor'[a] \in ContributorAccount
    BY <1>2, <1>7 DEF TypeInv, TypeOK
  <1>10. ParametersValid'
    BY <1>1, <1>5, <1>6 DEF TypeInv, ParametersValid
  <1> QED
    BY <1>4, <1>6, <1>7, <1>8, <1>9, <1>10 DEF TypeInv, TypeOK

(* update_organization_parameters leaves valid parameters.                 *)
LEMMA UpdateType ==
    ASSUME TypeInv, NEW w \in Wallets, NEW o \in Orgs, NEW p \in ParameterSets,
           UpdateOrganizationParameters(w, o, p), UNCHANGED contributor_proposals
    PROVE  TypeInv'
  <1>1. p \in Parameters /\ ValidateParameters(p) /\ o \in DOMAIN organization
    BY OrganizationAssumption
    DEF UpdateOrganizationParameters, UpdateOrganizationParametersAccounts
  <1>2. /\ organization' = [organization EXCEPT ![o].parameters = p]
        /\ UNCHANGED <<now, contributor, contributor_proposals>>
    BY DEF UpdateOrganizationParameters
  <1> QED
    BY <1>1, <1>2 DEF TypeInv, TypeOK, ParametersValid, OrganizationAccount

(* renew_contributor leaves a well-formed account.                         *)
LEMMA RenewType ==
    ASSUME TypeInv, NEW w \in Wallets, NEW o \in Orgs,
           RenewContributor(w, o), UNCHANGED contributor_proposals
    PROVE  TypeInv'
  <1> DEFINE old  == contributor[<<o, w>>]
             acct == NewContributor(old.rate, ValidityPeriod(o))
  <1>1. o \in DOMAIN organization /\ <<o, w>> \in DOMAIN contributor
    BY DEF RenewContributor, RenewContributorAccounts
  <1>2. acct \in ContributorAccount
    BY <1>1, NewContributorType, ValidPeriods
       DEF ValidityPeriod, ContributorAccount, TypeInv, TypeOK
  <1>3. /\ contributor' = [contributor EXCEPT ![<<o, w>>] = acct]
        /\ UNCHANGED <<now, organization, contributor_proposals>>
    BY <1>1 DEF RenewContributor
  <1> HIDE DEF acct
  <1> QED
    BY <1>1, <1>2, <1>3 DEF TypeInv, TypeOK, ParametersValid

(* propose_contributor stores a well-formed proposal.                      *)
LEMMA ProposeType ==
    ASSUME TypeInv, NEW w \in Wallets, NEW o \in Orgs, NEW c \in Wallets, NEW r \in Rates,
           NEW t \in Timestamps, NEW amount \in TokenAmounts,
           ProposeContributor(w, o, c, r, t, amount)
    PROVE  TypeInv'
  <1> DEFINE expiry == SaturatingAdd(now,
                 organization[o].parameters.contributor_proposal_validity_period)
             prop == [organization |-> o, candidate |-> c, proposer |-> w,
                 proposed_rate |-> r, created_at |-> t, expires_at |-> expiry,
                 votes_for |-> 0, votes_against |-> 0, status |-> "Active", voters |-> {}]
  <1>1. o \in DOMAIN organization /\ r \in Nat /\ t \in Nat /\ now \in 0..I64Max
    BY OrganizationAssumption, GovernanceAssumption, I64MaxAssumption
       DEF ProposeContributor, ProposeContributorAccounts, TypeInv, TypeOK
  <1>2. expiry \in 0..I64Max
    BY <1>1, SaturatingAddType, ValidPeriods
  <1>3. /\ contributor_proposals' = StoreAccount(contributor_proposals, <<o, c, t>>, prop)
        /\ UNCHANGED <<now, organization, contributor>>
    BY DEF ProposeContributor, orgVars
  <1> HIDE DEF expiry
  <1>4. prop \in ContributorProposal
    BY <1>1, <1>2 DEF ContributorProposal, ProposalStatus
  <1> HIDE DEF prop
  <1>5. <<o, c, t>> \in Addresses
    BY DEF Addresses
  <1>6. /\ DOMAIN contributor_proposals' = DOMAIN contributor_proposals \cup {<<o, c, t>>}
        /\ \A a \in DOMAIN contributor_proposals' : contributor_proposals'[a] =
             IF a = <<o, c, t>> THEN prop ELSE contributor_proposals[a]
    BY <1>3 DEF StoreAccount
  <1>7. \A a \in DOMAIN contributor_proposals' :
             contributor_proposals'[a] \in ContributorProposal
    BY <1>4, <1>6 DEF TypeInv, TypeOK
  <1> QED
    BY <1>3, <1>5, <1>6, <1>7 DEF TypeInv, TypeOK, ParametersValid

(* A vote changes the tallies, the voters and the status, and nothing else. *)
LEMMA WithVoteType ==
    ASSUME NEW p \in ContributorProposal, NEW o, NEW voter \in Wallets, NEW vote \in BOOLEAN
    PROVE  LET u == WithVote(o, p, voter, vote)
           IN  /\ u \in ContributorProposal
               /\ u.organization = p.organization /\ u.candidate = p.candidate
               /\ u.proposed_rate = p.proposed_rate
               /\ u.voters = p.voters \cup {voter}
               /\ u.votes_for = p.votes_for + (IF vote THEN 1 ELSE 0)
               /\ u.votes_against = p.votes_against + (IF vote THEN 0 ELSE 1)
  <1> DEFINE f == p.votes_for + (IF vote THEN 1 ELSE 0)
             a == p.votes_against + (IF vote THEN 0 ELSE 1)
             st == UpdateProposalStatus(f, a, IsProposalExpired(p.expires_at, now),
                     organization[o].parameters.contributor_proposal_threshold_percentage,
                     ContributorCount(o),
                     organization[o].parameters.contributor_proposal_quorum_percentage)
             u == [p EXCEPT !.votes_for = f, !.votes_against = a,
                            !.voters = @ \cup {voter}, !.status = st]
  <1>1. f \in Nat /\ a \in Nat
    BY DEF ContributorProposal
  <1>2. st \in ProposalStatus
    BY DEF UpdateProposalStatus, ProposalStatus
  <1>3. WithVote(o, p, voter, vote) = u
    BY DEF WithVote
  <1> HIDE DEF f, a, st
  <1>4. u \in ContributorProposal
    BY <1>1, <1>2 DEF ContributorProposal
  <1>5. /\ u.organization = p.organization /\ u.candidate = p.candidate
        /\ u.proposed_rate = p.proposed_rate /\ u.voters = p.voters \cup {voter}
        /\ u.votes_for = f /\ u.votes_against = a
    BY DEF ContributorProposal
  <1> QED
    BY <1>3, <1>4, <1>5 DEF f, a

(* What the admission of a candidate does to the list and the accounts, for *)
(* a candidate that is not on the list.                                    *)
LEMMA AdmitEffect ==
    ASSUME TypeInv, NEW o \in DOMAIN organization, NEW c \in Wallets, NEW r \in Nat,
           AdmitContributor(o, c, r)
    PROVE  /\ DOMAIN organization' = DOMAIN organization
           /\ \A q \in DOMAIN organization :
                /\ organization'[q] \in OrganizationAccount
                /\ organization'[q].parameters = organization[q].parameters
                /\ organization'[q].creator = organization[q].creator
                /\ q # o => organization'[q] = organization[q]
           /\ organization'[o].contributors = Append(organization[o].contributors, c)
           /\ DOMAIN contributor' = DOMAIN contributor \cup {<<o, c>>}
           /\ \A a \in DOMAIN contributor' : contributor'[a] \in ContributorAccount
           /\ contributor'[<<o, c>>].rate = r
           /\ \A a \in DOMAIN contributor : a # <<o, c>> => contributor'[a] = contributor[a]
           /\ now' = now
  <1> DEFINE acct  == NewContributor(r, ValidityPeriod(o))
             grown == [organization[o] EXCEPT !.contributors = Append(@, c)]
  <1>1. acct \in ContributorAccount /\ acct.rate = r
    BY NewContributorType, ValidPeriods DEF ValidityPeriod, TypeInv, TypeOK
  <1>2. /\ organization' = [organization EXCEPT ![o].contributors = Append(@, c)]
        /\ contributor' = StoreAccount(contributor, <<o, c>>, acct)
        /\ now' = now
    BY DEF AdmitContributor
  <1>3. organization[o] \in OrganizationAccount
    BY DEF TypeInv, TypeOK
  <1>4. Append(organization[o].contributors, c) \in Seq(Wallets)
    BY <1>3, AppendProperties DEF OrganizationAccount
  <1>5. /\ grown \in OrganizationAccount
        /\ grown.parameters = organization[o].parameters
        /\ grown.creator = organization[o].creator
        /\ grown.contributors = Append(organization[o].contributors, c)
    BY <1>3, <1>4 DEF OrganizationAccount
  <1>6. /\ DOMAIN organization' = DOMAIN organization
        /\ organization'[o] = grown
        /\ \A q \in DOMAIN organization : q # o => organization'[q] = organization[q]
    BY <1>2
  <1> HIDE DEF acct, grown
  <1>7. /\ DOMAIN contributor' = DOMAIN contributor \cup {<<o, c>>}
        /\ contributor'[<<o, c>>] = acct
        /\ \A a \in DOMAIN contributor : a # <<o, c>> => contributor'[a] = contributor[a]
    BY <1>2 DEF StoreAccount
  <1>8. \A a \in DOMAIN contributor' : contributor'[a] \in ContributorAccount
    BY <1>1, <1>7 DEF TypeInv, TypeOK
  <1>9. \A q \in DOMAIN organization : organization'[q] \in OrganizationAccount
    BY <1>5, <1>6 DEF TypeInv, TypeOK
  <1> QED
    BY <1>1, <1>2, <1>5, <1>6, <1>7, <1>8, <1>9

(* A vote, with the admission it makes, leaves well-formed accounts.       *)
LEMMA VoteType ==
    ASSUME TypeInv, NEW v \in Wallets, NEW o \in Orgs, NEW a \in DOMAIN contributor_proposals,
           NEW vote \in BOOLEAN, NEW amount \in TokenAmounts,
           VoteOnContributorProposal(v, o, a, vote, amount)
    PROVE  TypeInv'
  <1> DEFINE p == contributor_proposals[a]
             u == WithVote(o, p, v, vote)
  <1>1. p \in ContributorProposal
    BY DEF TypeInv, TypeOK
  <1>2. u \in ContributorProposal
    BY <1>1, WithVoteType
  <1>3. /\ o \in DOMAIN organization
        /\ contributor_proposals' = [contributor_proposals EXCEPT ![a] = u]
        /\ AdmitContributor(o, p.candidate, p.proposed_rate) \/ UNCHANGED orgVars
    BY DEF VoteOnContributorProposal, VoteOnContributorProposalAccounts
  <1> HIDE DEF u
  <1>4. /\ DOMAIN contributor_proposals' \subseteq Addresses
        /\ \A b \in DOMAIN contributor_proposals' : contributor_proposals'[b] \in ContributorProposal
    BY <1>2, <1>3 DEF TypeInv, TypeOK
  <1>5. CASE UNCHANGED orgVars
    BY <1>4, <1>5 DEF orgVars, TypeInv, TypeOK, ParametersValid
  <1>6. CASE AdmitContributor(o, p.candidate, p.proposed_rate)
    <2>1. p.candidate \in Wallets /\ p.proposed_rate \in Nat
      BY <1>1, OrganizationAssumption DEF ContributorProposal
    <2>2. PICK c \in Wallets, r \in Nat : AdmitContributor(o, c, r)
      BY <1>6, <2>1
    <2>3. /\ DOMAIN organization' = DOMAIN organization
          /\ \A q \in DOMAIN organization :
               /\ organization'[q] \in OrganizationAccount
               /\ organization'[q].parameters = organization[q].parameters
          /\ DOMAIN contributor' = DOMAIN contributor \cup {<<o, c>>}
          /\ \A b \in DOMAIN contributor' : contributor'[b] \in ContributorAccount
          /\ now' = now
      BY <1>3, <2>2, AdmitEffect
    <2> QED
      BY <1>4, <2>3 DEF TypeInv, TypeOK, ParametersValid
  <1> QED
    BY <1>3, <1>5, <1>6

(* The clock stays within its bound.                                       *)
LEMMA TickType ==
    ASSUME TypeInv, Tick, UNCHANGED contributor_proposals
    PROVE  TypeInv'
  BY OrganizationAssumption DEF Tick, TypeInv, TypeOK, ParametersValid

(* No step, of any wallet in any order, leaves the types.                  *)
THEOREM TypeStep == TypeInv /\ [Next]_vars => TypeInv'
  <1> SUFFICES ASSUME TypeInv, [Next]_vars PROVE TypeInv'
    OBVIOUS
  <1>1. CASE Administer /\ UNCHANGED contributor_proposals
    BY <1>1, TickType, CreateType, UpdateType, RenewType DEF Administer
  <1>2. CASE Propose
    BY <1>2, ProposeType DEF Propose
  <1>3. CASE Vote
    BY <1>3, VoteType DEF Vote
  <1>4. CASE UNCHANGED vars
    BY <1>4 DEF vars, orgVars, TypeInv, TypeOK, ParametersValid
  <1> QED
    BY <1>1, <1>2, <1>3, <1>4 DEF Next

(* Every account keeps its shape and every stored time fits an i64: the    *)
(* parameters create and update let through are valid, which is what keeps *)
(* the saturating additions in range.                                      *)
THEOREM TypeCorrect == Spec => []TypeOK
  <1>1. TypeInv => TypeOK
    BY DEF TypeInv
  <1> QED
    BY <1>1, TypeInit, TypeStep, PTL DEF Spec

-----------------------------------------------------------------------------
(***************************************************************************)
(* Elections.  The safety invariants support one another: the accounts     *)
(* must match the list for an admission not to rewrite a rate, and the     *)
(* rates must stay for the elected to keep the rate they were elected at.  *)
(***************************************************************************)
BallotsOpen ==
    \A a \in DOMAIN contributor_proposals :
        /\ contributor_proposals[a].organization \in DOMAIN organization
        /\ IsFiniteSet(contributor_proposals[a].voters)

ElectionInv ==
    /\ TypeInv
    /\ BallotsOpen
    /\ BallotsCounted
    /\ NoDuplicateContributors
    /\ MembersHaveAccounts
    /\ MembersWereElected
    /\ ApprovedIsMember

(* The invariant of the elections holds while there are no accounts.       *)
THEOREM ElectionInit == Init => ElectionInv
  <1> SUFFICES ASSUME Init PROVE ElectionInv
    OBVIOUS
  <1>1. /\ DOMAIN organization = {} /\ DOMAIN contributor = {}
        /\ DOMAIN contributor_proposals = {}
    BY DEF Init, OrgInit, EmptyMap
  <1> QED
    BY <1>1, TypeInit DEF ElectionInv, BallotsOpen, BallotsCounted, NoDuplicateContributors,
       MembersHaveAccounts, MembersWereElected, ApprovedIsMember

(* A step that leaves the lists and the rates as they are. *)
QuietStep ==
    /\ DOMAIN organization' = DOMAIN organization
    /\ \A q \in DOMAIN organization :
         /\ organization'[q].contributors = organization[q].contributors
         /\ organization'[q].creator = organization[q].creator
    /\ DOMAIN contributor' = DOMAIN contributor
    /\ \A a \in DOMAIN contributor : contributor'[a].rate = contributor[a].rate

(* A step that changes no list and no rate keeps what is said of the lists. *)
LEMMA QuietLists ==
    ASSUME ElectionInv, QuietStep
    PROVE  /\ \A q \in DOMAIN organization : Contributors(q)' = Contributors(q)
           /\ NoDuplicateContributors'
           /\ MembersHaveAccounts'
  <1>1. \A q \in DOMAIN organization : Contributors(q)' = Contributors(q)
    BY DEF QuietStep, Contributors
  <1>2. NoDuplicateContributors'
    BY DEF QuietStep, ElectionInv, NoDuplicateContributors, ContributorCount
  <1>3. MembersHaveAccounts'
    BY <1>1 DEF QuietStep, ElectionInv, MembersHaveAccounts, IsValidContributor
  <1> QED
    BY <1>1, <1>2, <1>3

(* A contributor on a list has an account.                                 *)
LEMMA MemberAccount ==
    ASSUME ElectionInv, NEW o \in DOMAIN organization, NEW c \in Contributors(o)
    PROVE  o \in Orgs /\ c \in Wallets /\ <<o, c>> \in DOMAIN contributor
  <1>1. o \in Orgs /\ organization[o] \in OrganizationAccount
    BY DEF ElectionInv, TypeInv, TypeOK
  <1>2. c \in Wallets
    BY <1>1 DEF Contributors, OrganizationAccount
  <1> QED
    BY <1>1, <1>2 DEF ElectionInv, MembersHaveAccounts, IsValidContributor

(* Approved proposals stay as they are. *)
ApprovalsKept ==
    \A a \in DOMAIN contributor_proposals :
        contributor_proposals[a].status = "Approved" =>
            a \in DOMAIN contributor_proposals' /\ contributor_proposals'[a] = contributor_proposals[a]

(* Who was elected stays elected while approvals and rates are kept.       *)
LEMMA StillElected ==
    ASSUME ElectionInv, ApprovalsKept, NEW o \in DOMAIN organization,
           NEW c \in Contributors(o) \ {organization[o].creator},
           contributor'[<<o, c>>].rate = contributor[<<o, c>>].rate
    PROVE  WasElected(o, c)'
  <1>1. WasElected(o, c)
    BY DEF ElectionInv, MembersWereElected
  <1> QED
    BY <1>1 DEF WasElected, ApprovalsKept

(* A step that changes no list, no rate and no approval keeps every member *)
(* elected.                                                                *)
LEMMA QuietElected ==
    ASSUME ElectionInv, QuietStep, ApprovalsKept
    PROVE  MembersWereElected'
  <1> SUFFICES ASSUME NEW o \in DOMAIN organization',
                      NEW c \in Contributors(o)' \ {organization'[o].creator}
               PROVE  WasElected(o, c)'
    BY DEF MembersWereElected
  <1>1. o \in DOMAIN organization /\ c \in Contributors(o) \ {organization[o].creator}
    BY QuietLists DEF QuietStep
  <1> QED
    BY <1>1, MemberAccount, StillElected DEF QuietStep

(* The proposals of a quiet step are judged one by one. *)
ProposalOK(p) ==
    /\ p.organization \in DOMAIN organization
    /\ IsFiniteSet(p.voters)
    /\ p.votes_for + p.votes_against = Cardinality(p.voters)
    /\ p.voters \subseteq Contributors(p.organization)
    /\ p.status = "Approved" => IsValidContributor(p.organization, p.candidate)

(* What the invariant says of the proposals, of each one.                  *)
LEMMA ProposalsOK ==
    ElectionInv => \A a \in DOMAIN contributor_proposals : ProposalOK(contributor_proposals[a])
  BY DEF ElectionInv, BallotsOpen, BallotsCounted, ApprovedIsMember, ProposalOK

(* A step that changes no list, no rate and no approval, and leaves every  *)
(* proposal in order, keeps the invariant.                                 *)
LEMMA QuietProposals ==
    ASSUME ElectionInv, QuietStep, ApprovalsKept, TypeInv',
           \A a \in DOMAIN contributor_proposals' :
             \/ a \in DOMAIN contributor_proposals
                /\ contributor_proposals'[a] = contributor_proposals[a]
             \/ ProposalOK(contributor_proposals'[a])
    PROVE  ElectionInv'
  <1>1. \A a \in DOMAIN contributor_proposals' : ProposalOK(contributor_proposals'[a])
    BY ProposalsOK
  <1>2. \A a \in DOMAIN contributor_proposals' :
           contributor_proposals'[a].organization \in DOMAIN organization
    BY <1>1 DEF ProposalOK
  <1>3. BallotsOpen'
    BY <1>1, <1>2 DEF QuietStep, BallotsOpen, ProposalOK
  <1>4. BallotsCounted'
    BY <1>1, <1>2, QuietLists DEF BallotsCounted, ProposalOK
  <1>5. ApprovedIsMember'
    BY <1>1, <1>2, QuietLists DEF ApprovedIsMember, IsValidContributor, ProposalOK
  <1> QED
    BY <1>3, <1>4, <1>5, QuietLists, QuietElected DEF ElectionInv

(* update_organization_parameters keeps the invariant.                     *)
LEMMA UpdateElection ==
    ASSUME ElectionInv, TypeInv', NEW w \in Wallets, NEW o \in Orgs, NEW p \in ParameterSets,
           UpdateOrganizationParameters(w, o, p), UNCHANGED contributor_proposals
    PROVE  ElectionInv'
  <1>1. /\ organization' = [organization EXCEPT ![o].parameters = p]
        /\ UNCHANGED <<contributor, contributor_proposals>>
    BY DEF UpdateOrganizationParameters
  <1>2. \A q \in DOMAIN organization : organization[q] \in OrganizationAccount
    BY DEF ElectionInv, TypeInv, TypeOK
  <1>3. QuietStep
    BY <1>1, <1>2 DEF QuietStep, OrganizationAccount
  <1> QED
    BY <1>1, <1>3, QuietProposals DEF ApprovalsKept

(* renew_contributor keeps the invariant.                                  *)
LEMMA RenewElection ==
    ASSUME ElectionInv, TypeInv', NEW w \in Wallets, NEW o \in Orgs,
           RenewContributor(w, o), UNCHANGED contributor_proposals
    PROVE  ElectionInv'
  <1> DEFINE acct == NewContributor(contributor[<<o, w>>].rate, ValidityPeriod(o))
  <1>1. /\ contributor' = [contributor EXCEPT ![<<o, w>>] = acct]
        /\ UNCHANGED <<organization, contributor_proposals>>
    BY DEF RenewContributor, RenewContributorAccounts
  <1>2. acct.rate = contributor[<<o, w>>].rate
    BY DEF NewContributor
  <1> HIDE DEF acct
  <1>3. QuietStep
    BY <1>1, <1>2 DEF QuietStep
  <1> QED
    BY <1>1, <1>3, QuietProposals DEF ApprovalsKept

(* propose_contributor keeps the invariant.                                *)
LEMMA ProposeElection ==
    ASSUME ElectionInv, TypeInv', NEW w \in Wallets, NEW o \in Orgs, NEW c \in Wallets,
           NEW r \in Rates, NEW t \in Timestamps, NEW amount \in TokenAmounts,
           ProposeContributor(w, o, c, r, t, amount)
    PROVE  ElectionInv'
  <1>1. PICK prop :
          /\ contributor_proposals' = StoreAccount(contributor_proposals, <<o, c, t>>, prop)
          /\ prop.organization = o /\ prop.status = "Active" /\ prop.voters = {}
          /\ prop.votes_for = 0 /\ prop.votes_against = 0
    BY DEF ProposeContributor
  <1>2. /\ o \in DOMAIN organization /\ <<o, c, t>> \notin DOMAIN contributor_proposals
        /\ UNCHANGED orgVars
    BY DEF ProposeContributor, ProposeContributorAccounts
  <1>3. ProposalOK(prop)
    BY <1>1, <1>2, FS_EmptySet DEF ProposalOK
  <1>4. /\ DOMAIN contributor_proposals' = DOMAIN contributor_proposals \cup {<<o, c, t>>}
        /\ \A a \in DOMAIN contributor_proposals' : contributor_proposals'[a] =
             IF a = <<o, c, t>> THEN prop ELSE contributor_proposals[a]
    BY <1>1 DEF StoreAccount
  <1>5. QuietStep
    BY <1>2 DEF QuietStep, orgVars
  <1>6. ApprovalsKept
    BY <1>2, <1>4 DEF ApprovalsKept
  <1> QED
    BY <1>3, <1>4, <1>5, <1>6, QuietProposals

(* create_organization keeps the invariant.                                *)
LEMMA CreateElection ==
    ASSUME ElectionInv, TypeInv', NEW w \in Wallets, NEW o \in Orgs, NEW p \in ParameterSets,
           NEW r \in Rates, CreateOrganization(w, o, p, r), UNCHANGED contributor_proposals
    PROVE  ElectionInv'
  <1> DEFINE org  == [creator |-> w, contributors |-> <<w>>, parameters |-> p]
             acct == NewContributor(r, p.contributor_validity_period)
  <1>1. /\ organization' = StoreAccount(organization, o, org)
        /\ contributor' = StoreAccount(contributor, <<o, w>>, acct)
        /\ o \notin DOMAIN organization /\ <<o, w>> \notin DOMAIN contributor
    BY DEF CreateOrganization, CreateOrganizationAccounts
  <1>2. org.contributors = <<w>> /\ org.creator = w
    OBVIOUS
  <1> HIDE DEF org, acct
  <1>3. /\ DOMAIN organization' = DOMAIN organization \cup {o}
        /\ organization'[o] = org
        /\ \A q \in DOMAIN organization : organization'[q] = organization[q]
    BY <1>1 DEF StoreAccount
  <1>4. /\ DOMAIN contributor' = DOMAIN contributor \cup {<<o, w>>}
        /\ \A a \in DOMAIN contributor : contributor'[a] = contributor[a]
    BY <1>1 DEF StoreAccount
  <1>5. \A q \in DOMAIN organization : Contributors(q)' = Contributors(q)
    BY <1>3 DEF Contributors
  <1>6. Contributors(o)' = {w}
    BY <1>2, <1>3 DEF Contributors
  <1>7. BallotsOpen' /\ BallotsCounted' /\ ApprovedIsMember'
    BY <1>3, <1>5 DEF ElectionInv, BallotsOpen, BallotsCounted, ApprovedIsMember, IsValidContributor
  <1>8. NoDuplicateContributors'
    BY <1>2, <1>3 DEF ElectionInv, NoDuplicateContributors, ContributorCount
  <1>9. MembersHaveAccounts'
    <2> SUFFICES ASSUME NEW q \in Orgs, NEW c \in Wallets
                 PROVE  <<q, c>> \in DOMAIN contributor'
                          <=> q \in DOMAIN organization' /\ c \in Contributors(q)'
      BY DEF MembersHaveAccounts, IsValidContributor
    <2>1. <<q, c>> \in DOMAIN contributor
            <=> q \in DOMAIN organization /\ c \in Contributors(q)
      BY DEF ElectionInv, MembersHaveAccounts, IsValidContributor
    <2>2. CASE q = o
      BY <1>1, <1>3, <1>4, <1>6, <2>1, <2>2
    <2>3. CASE q # o
      BY <1>3, <1>4, <1>5, <2>1, <2>3
    <2> QED
      BY <2>2, <2>3
  <1>10. MembersWereElected'
    <2> SUFFICES ASSUME NEW q \in DOMAIN organization',
                        NEW c \in Contributors(q)' \ {organization'[q].creator}
                 PROVE  WasElected(q, c)'
      BY DEF MembersWereElected
    <2>1. q \in DOMAIN organization /\ c \in Contributors(q) \ {organization[q].creator}
      BY <1>2, <1>3, <1>5, <1>6
    <2> QED
      BY <1>4, <2>1, MemberAccount, StillElected DEF ApprovalsKept
  <1> QED
    BY <1>7, <1>8, <1>9, <1>10 DEF ElectionInv

(* The list with one more key: a superset, still without duplicates.       *)
LEMMA AppendToList ==
    ASSUME NEW S, NEW list \in Seq(S), NEW c \in S,
           c \notin {list[i] : i \in DOMAIN list},
           \A i, j \in 1..Len(list) : list[i] = list[j] => i = j
    PROVE  /\ {Append(list, c)[i] : i \in DOMAIN Append(list, c)}
                = {list[i] : i \in DOMAIN list} \cup {c}
           /\ \A i, j \in 1..Len(Append(list, c)) :
                Append(list, c)[i] = Append(list, c)[j] => i = j
  <1> DEFINE new == Append(list, c)
             n   == Len(list)
  <1>1. /\ new \in Seq(S) /\ Len(new) = n + 1 /\ new[n + 1] = c
        /\ \A i \in 1..n : new[i] = list[i]
    BY AppendProperties
  <1>2. DOMAIN list = 1..n /\ DOMAIN new = 1..(n + 1) /\ n \in Nat
    BY <1>1, LenProperties
  <1> HIDE DEF new, n
  <1>3. 1..(n + 1) = (1..n) \cup {n + 1}
    BY <1>2
  <1>4. {new[i] : i \in DOMAIN new} = {list[i] : i \in DOMAIN list} \cup {c}
    BY <1>1, <1>2, <1>3
  <1>5. \A i, j \in 1..(n + 1) : new[i] = new[j] => i = j
    BY <1>1, <1>2, <1>3 DEF n
  <1> QED
    BY <1>1, <1>4, <1>5 DEF new

(* A proposal in order stays in order when its list only grows.            *)
LEMMA ProposalOKAfter ==
    ASSUME NEW b, NEW x, NEW q \in DOMAIN organization',
           contributor_proposals'[b] = x, x.organization = q, IsFiniteSet(x.voters),
           x.votes_for + x.votes_against = Cardinality(x.voters),
           x.voters \subseteq Contributors(q)',
           x.status = "Approved" => x.candidate \in Contributors(q)'
    PROVE  ProposalOK(contributor_proposals[b])'
  <1>1. Contributors(contributor_proposals[b].organization)' = Contributors(q)'
    BY DEF Contributors
  <1> QED
    BY <1>1 DEF ProposalOK, IsValidContributor

(* A vote keeps the invariant, whether it admits the candidate or not.     *)
LEMMA VoteElection ==
    ASSUME ElectionInv, TypeInv', NEW v \in Wallets, NEW o \in Orgs,
           NEW a \in DOMAIN contributor_proposals,
           NEW vote \in BOOLEAN, NEW amount \in TokenAmounts,
           VoteOnContributorProposal(v, o, a, vote, amount)
    PROVE  ElectionInv'
  <1> DEFINE p == contributor_proposals[a]
             u == WithVote(o, p, v, vote)
             c == p.candidate
  <1>1. p \in ContributorProposal /\ ProposalOK(p)
    BY ProposalsOK DEF ElectionInv, TypeInv, TypeOK
  <1>2. /\ o \in DOMAIN organization /\ p.organization = o /\ p.status = "Active"
        /\ IsValidContributor(o, v) /\ v \notin p.voters
        /\ contributor_proposals' = [contributor_proposals EXCEPT ![a] = u]
    BY DEF VoteOnContributorProposal, VoteOnContributorProposalAccounts, HasAlreadyVoted
  <1>3. /\ u.organization = o /\ u.candidate = c /\ u.proposed_rate = p.proposed_rate
        /\ u.voters = p.voters \cup {v}
        /\ u.votes_for + u.votes_against = p.votes_for + p.votes_against + 1
    BY <1>1, <1>2, WithVoteType DEF ContributorProposal
  <1>4. /\ IsFiniteSet(u.voters)
        /\ u.votes_for + u.votes_against = Cardinality(u.voters)
        /\ u.voters \subseteq Contributors(o)
    <2>1. IsFiniteSet(p.voters) /\ p.votes_for + p.votes_against = Cardinality(p.voters)
      BY <1>1 DEF ProposalOK
    <2>2. IsFiniteSet(p.voters \cup {v}) /\ Cardinality(p.voters \cup {v}) = Cardinality(p.voters) + 1
      BY <1>2, <2>1, FS_AddElement
    <2>3. p.voters \cup {v} \subseteq Contributors(o)
      BY <1>1, <1>2 DEF ProposalOK, IsValidContributor
    <2> HIDE DEF p, u
    <2> QED
      BY <1>3, <2>1, <2>2, <2>3
  <1>5. ApprovalsKept
    BY <1>2 DEF ApprovalsKept
  <1>6. CASE ~AdmitsCandidate(o, u)
    <2>1. UNCHANGED orgVars
      BY <1>6 DEF VoteOnContributorProposal
    <2>2. ProposalOK(u)
      BY <1>2, <1>3, <1>4, <1>6 DEF ProposalOK, AdmitsCandidate
    <2> HIDE DEF u
    <2>3. QuietStep
      BY <2>1 DEF QuietStep, orgVars
    <2> QED
      BY <1>2, <1>5, <2>2, <2>3, QuietProposals
  <1>7. CASE AdmitsCandidate(o, u)
    <2>1. /\ AdmitContributor(o, c, p.proposed_rate)
          /\ u.status = "Approved" /\ c \notin Contributors(o)
          /\ c \in Wallets /\ p.proposed_rate \in Nat
      BY <1>1, <1>3, <1>7, OrganizationAssumption
      DEF VoteOnContributorProposal, AdmitsCandidate, IsValidContributor, ContributorProposal
    <2> DEFINE r == p.proposed_rate
    <2>admission. /\ TypeInv /\ AdmitContributor(o, c, r)
                  /\ o \in DOMAIN organization /\ c \in Wallets /\ r \in Nat
      BY <1>2, <2>1 DEF ElectionInv
    <2> HIDE DEF u, c, r, p
    <2>2. /\ DOMAIN organization' = DOMAIN organization
          /\ \A q \in DOMAIN organization :
                /\ organization'[q].creator = organization[q].creator
                /\ q # o => organization'[q] = organization[q]
          /\ organization'[o].contributors = Append(organization[o].contributors, c)
          /\ DOMAIN contributor' = DOMAIN contributor \cup {<<o, c>>}
          /\ contributor'[<<o, c>>].rate = r
          /\ \A b \in DOMAIN contributor : b # <<o, c>> => contributor'[b] = contributor[b]
      BY <2>admission, AdmitEffect
    <2>3. organization[o].contributors \in Seq(Wallets)
      BY <1>2 DEF ElectionInv, TypeInv, TypeOK, OrganizationAccount
    <2>4. \A q \in DOMAIN organization : q # o => Contributors(q)' = Contributors(q)
      BY <2>2 DEF Contributors
    <2>5. \A i, j \in 1..Len(organization[o].contributors) :
             organization[o].contributors[i] = organization[o].contributors[j] => i = j
      BY <1>2 DEF ElectionInv, NoDuplicateContributors, ContributorCount
    <2>6. /\ Contributors(o)' = Contributors(o) \cup {c}
          /\ \A i, j \in 1..Len(organization'[o].contributors) :
              organization'[o].contributors[i] = organization'[o].contributors[j] => i = j
      <3> DEFINE list == organization[o].contributors
      <3>1. c \notin {list[i] : i \in DOMAIN list}
        BY <2>1 DEF Contributors
      <3>2. list \in Seq(Wallets) /\ c \in Wallets
        BY <2>1, <2>3
      <3>3. organization'[o].contributors = Append(list, c)
        BY <2>2
      <3>4. \A i, j \in 1..Len(list) : list[i] = list[j] => i = j
        BY <2>5
      <3>5. Contributors(o) = {list[i] : i \in DOMAIN list}
        BY DEF Contributors
      <3> HIDE DEF list
      <3>6. Contributors(o)' = {Append(list, c)[i] : i \in DOMAIN Append(list, c)}
        BY <3>3 DEF Contributors
      <3> QED
        BY <3>1, <3>2, <3>3, <3>4, <3>5, <3>6, AppendToList
    <2>7. \A q \in DOMAIN organization : Contributors(q) \subseteq Contributors(q)'
      BY <2>4, <2>6
    <2>8. /\ DOMAIN contributor_proposals' = DOMAIN contributor_proposals
          /\ contributor_proposals'[a] = u
          /\ \A b \in DOMAIN contributor_proposals :
                b # a => contributor_proposals'[b] = contributor_proposals[b]
      BY <1>2
    <2>9. \A b \in DOMAIN contributor_proposals : ProposalOK(contributor_proposals[b])'
      <3> SUFFICES ASSUME NEW b \in DOMAIN contributor_proposals
                   PROVE  ProposalOK(contributor_proposals[b])'
        OBVIOUS
      <3>1. CASE b = a
        <4>1. u.voters \subseteq Contributors(o)' /\ u.candidate \in Contributors(o)'
          BY <1>3, <1>4, <2>6
        <4> QED
          BY <1>2, <1>3, <1>4, <2>2, <2>8, <3>1, <4>1, ProposalOKAfter
      <3>2. CASE b # a
        <4>1. PICK x : x = contributor_proposals[b]
          OBVIOUS
        <4>2. PICK q \in DOMAIN organization : q = x.organization
          BY <4>1, ProposalsOK DEF ProposalOK
        <4>3. /\ IsFiniteSet(x.voters)
              /\ x.votes_for + x.votes_against = Cardinality(x.voters)
              /\ x.voters \subseteq Contributors(q)
              /\ x.status = "Approved" => x.candidate \in Contributors(q)
          BY <4>1, <4>2, ProposalsOK DEF ProposalOK, IsValidContributor
        <4>4. contributor_proposals'[b] = x
          BY <2>8, <3>2, <4>1
        <4>5. Contributors(q) \subseteq Contributors(q)'
          BY <2>7
        <4> QED
          BY <2>2, <4>2, <4>3, <4>4, <4>5, ProposalOKAfter
      <3> QED
        BY <3>1, <3>2
    <2>10. BallotsOpen' /\ BallotsCounted' /\ ApprovedIsMember'
      BY <2>8, <2>9 DEF ProposalOK, BallotsOpen, BallotsCounted, ApprovedIsMember
    <2>11. NoDuplicateContributors'
      BY <2>2, <2>6 DEF ElectionInv, NoDuplicateContributors, ContributorCount
    <2>12. MembersHaveAccounts'
      <3> SUFFICES ASSUME NEW q \in Orgs, NEW x \in Wallets
                   PROVE  <<q, x>> \in DOMAIN contributor'
                            <=> q \in DOMAIN organization' /\ x \in Contributors(q)'
        BY DEF MembersHaveAccounts, IsValidContributor
      <3>1. <<q, x>> \in DOMAIN contributor
              <=> q \in DOMAIN organization /\ x \in Contributors(q)
        BY DEF ElectionInv, MembersHaveAccounts, IsValidContributor
      <3> QED
        BY <1>2, <2>2, <2>4, <2>6, <3>1
    <2>13. MembersWereElected'
      <3> SUFFICES ASSUME NEW q \in DOMAIN organization',
                          NEW x \in Contributors(q)' \ {organization'[q].creator}
                   PROVE  WasElected(q, x)'
        BY DEF MembersWereElected
      <3>1. CASE q = o /\ x = c
        BY <1>3, <2>1, <2>2, <2>8, <3>1 DEF WasElected, r
      <3>2. CASE ~(q = o /\ x = c)
        <4>1. q \in DOMAIN organization /\ x \in Contributors(q) \ {organization[q].creator}
          BY <2>2, <2>4, <2>6, <3>2
        <4>2. contributor'[<<q, x>>].rate = contributor[<<q, x>>].rate
          BY <2>2, <3>2, <4>1, MemberAccount
        <4> QED
          BY <1>5, <4>1, <4>2, StillElected
      <3> QED
        BY <3>1, <3>2
    <2> QED
      BY <1>1, <2>10, <2>11, <2>12, <2>13 DEF ElectionInv
  <1> QED
    BY <1>6, <1>7

(* No step, of any wallet in any order, breaks the invariant of the elections. *)
THEOREM ElectionStep == ElectionInv /\ [Next]_vars => ElectionInv'
  <1> SUFFICES ASSUME ElectionInv, [Next]_vars PROVE ElectionInv'
    OBVIOUS
  <1>1. TypeInv'
    BY TypeStep DEF ElectionInv
  <1>2. CASE Administer /\ UNCHANGED contributor_proposals
    <2>1. CASE Tick
      <3>1. QuietStep
        BY <2>1 DEF QuietStep, Tick
      <3> QED
        BY <1>1, <1>2, <3>1, QuietProposals DEF ApprovalsKept
    <2> QED
      BY <1>1, <1>2, <2>1, CreateElection, UpdateElection, RenewElection DEF Administer
  <1>3. CASE Propose
    BY <1>1, <1>3, ProposeElection DEF Propose
  <1>4. CASE Vote
    BY <1>1, <1>4, VoteElection DEF Vote
  <1>5. CASE UNCHANGED vars
    <2>1. QuietStep /\ UNCHANGED contributor_proposals
      BY <1>5 DEF QuietStep, vars, orgVars
    <2> QED
      BY <1>1, <2>1, QuietProposals DEF ApprovalsKept
  <1> QED
    BY <1>2, <1>3, <1>4, <1>5 DEF Next

(* The invariant of the elections holds in every reachable state.          *)
THEOREM ElectionInvariant == Spec => []ElectionInv
  BY ElectionInit, ElectionStep, PTL DEF Spec

(* Nobody is counted twice and nobody votes outside its organization. *)
THEOREM BallotsAreCounted == Spec => []BallotsCounted
  <1>1. ElectionInv => BallotsCounted
    BY DEF ElectionInv
  <1> QED
    BY <1>1, ElectionInvariant, PTL

(* The length of a contributor list is the number of its contributors, so  *)
(* the quorum is measured against the true electorate.                     *)
THEOREM ListsHaveNoDuplicates == Spec => []NoDuplicateContributors
  <1>1. ElectionInv => NoDuplicateContributors
    BY DEF ElectionInv
  <1> QED
    BY <1>1, ElectionInvariant, PTL

(* Nobody becomes a contributor without an approved proposal, and its rate *)
(* is the one that was voted on.                                           *)
THEOREM ContributorsWereElected == Spec => []MembersWereElected
  <1>1. ElectionInv => MembersWereElected
    BY DEF ElectionInv
  <1> QED
    BY <1>1, ElectionInvariant, PTL

(* The list of an organization and the contributor accounts, written by    *)
(* different instructions, never name different keys.                      *)
THEOREM AccountsMatchLists == Spec => []MembersHaveAccounts
  <1>1. ElectionInv => MembersHaveAccounts
    BY DEF ElectionInv
  <1> QED
    BY <1>1, ElectionInvariant, PTL

(* An approved candidate is a contributor. *)
THEOREM ApprovedAreMembers == Spec => []ApprovedIsMember
  <1>1. ElectionInv => ApprovedIsMember
    BY DEF ElectionInv
  <1> QED
    BY <1>1, ElectionInvariant, PTL

-----------------------------------------------------------------------------
(***************************************************************************)
(* Counting.                                                               *)
(***************************************************************************)
(* The status a vote leaves is the one its new tallies give, in the        *)
(* electorate before the vote.                                             *)
LEMMA VoteStatus ==
    ASSUME NEW p \in ContributorProposal, NEW o, NEW voter \in Wallets, NEW vote \in BOOLEAN
    PROVE  LET u  == WithVote(o, p, voter, vote)
               ps == organization[o].parameters
           IN  u.status = UpdateProposalStatus(u.votes_for, u.votes_against,
                   IsProposalExpired(p.expires_at, now),
                   ps.contributor_proposal_threshold_percentage, ContributorCount(o),
                   ps.contributor_proposal_quorum_percentage)
  <1> DEFINE st(f, a) == UpdateProposalStatus(f, a, IsProposalExpired(p.expires_at, now),
                organization[o].parameters.contributor_proposal_threshold_percentage,
                ContributorCount(o),
                organization[o].parameters.contributor_proposal_quorum_percentage)
             f == p.votes_for + (IF vote THEN 1 ELSE 0)
             a == p.votes_against + (IF vote THEN 0 ELSE 1)
             u == [p EXCEPT !.votes_for = f, !.votes_against = a,
                            !.voters = @ \cup {voter}, !.status = st(f, a)]
  <1>1. WithVote(o, p, voter, vote) = u
    BY DEF WithVote
  <1> HIDE DEF st, f, a
  <1>2. u.votes_for = f /\ u.votes_against = a /\ u.status = st(f, a)
    BY DEF ContributorProposal
  <1> QED
    BY <1>1, <1>2 DEF st

(* The parameters and the electorate a vote is counted with are numbers.   *)
LEMMA CountingTypes ==
    ASSUME TypeInv, NEW o \in DOMAIN organization
    PROVE  /\ organization[o].parameters.contributor_proposal_threshold_percentage \in Nat
           /\ organization[o].parameters.contributor_proposal_quorum_percentage \in Nat
           /\ ContributorCount(o) \in Nat
  <1>1. organization[o].parameters \in Parameters /\ organization[o].contributors \in Seq(Wallets)
    BY DEF TypeInv, TypeOK, OrganizationAccount
  <1> QED
    BY <1>1, LenProperties DEF Parameters, ContributorCount

(* The deciding vote leaves votes that make both shares.                   *)
LEMMA VoteEarns ==
    ASSUME ElectionInv, ElectionInv', NEW v \in Wallets, NEW o \in Orgs,
           NEW a \in DOMAIN contributor_proposals, NEW vote \in BOOLEAN, NEW amount \in TokenAmounts,
           VoteOnContributorProposal(v, o, a, vote, amount),
           contributor_proposals'[a].status = "Approved"
    PROVE  LET new == contributor_proposals'[a]
               ps  == organization[contributor_proposals[a].organization].parameters
           IN  /\ QuorumShare(Cardinality(new.voters),
                     ContributorCount(contributor_proposals[a].organization),
                     ps.contributor_proposal_quorum_percentage)
               /\ ThresholdShare(new.votes_for, new.votes_against,
                     ps.contributor_proposal_threshold_percentage)
  <1> DEFINE p == contributor_proposals[a]
             u == WithVote(o, p, v, vote)
             ps == organization[o].parameters
  <1>1. /\ p \in ContributorProposal /\ o \in DOMAIN organization /\ p.organization = o
        /\ contributor_proposals' = [contributor_proposals EXCEPT ![a] = u]
    BY DEF ElectionInv, TypeInv, TypeOK, VoteOnContributorProposal,
           VoteOnContributorProposalAccounts
  <1>2. contributor_proposals'[a] = u
    BY <1>1
  <1>3. u \in ContributorProposal
    BY <1>1, WithVoteType
  <1>4. "Approved" = UpdateProposalStatus(u.votes_for, u.votes_against,
                       IsProposalExpired(p.expires_at, now),
                       ps.contributor_proposal_threshold_percentage, ContributorCount(o),
                       ps.contributor_proposal_quorum_percentage)
    BY <1>1, <1>2, VoteStatus
  <1> HIDE DEF u
  <1>5. u.votes_for \in Nat /\ u.votes_against \in Nat
    BY <1>3 DEF ContributorProposal
  <1>6. u.votes_for + u.votes_against = Cardinality(u.voters)
    BY <1>1, <1>2 DEF ElectionInv, BallotsCounted
  <1>7. /\ ps.contributor_proposal_threshold_percentage \in Nat
        /\ ps.contributor_proposal_quorum_percentage \in Nat
        /\ ContributorCount(o) \in Nat
    BY <1>1, CountingTypes DEF ElectionInv
  <1>8. /\ QuorumShare(u.votes_for + u.votes_against, ContributorCount(o),
              ps.contributor_proposal_quorum_percentage)
        /\ ThresholdShare(u.votes_for, u.votes_against,
              ps.contributor_proposal_threshold_percentage)
    <2> HIDE DEF ps, p
    <2> QED
      BY <1>4, <1>5, <1>7, ApprovedShares
  <1> QED
    BY <1>1, <1>2, <1>6, <1>8

(* The votes behind every admission make the documented shares, however    *)
(* the program rounds, of the electorate that voted                        *)
(* (vote_on_contributor_proposal, update_proposal_status).                 *)
THEOREM AdmissionsAreEarned == Spec => ApprovalIsEarned
  <1> DEFINE Earned ==
        \A a \in DOMAIN contributor_proposals :
          LET old == contributor_proposals[a]
              new == contributor_proposals'[a]
              ps  == organization[old.organization].parameters
          IN  old.status = "Active" /\ new.status = "Approved" =>
                /\ QuorumShare(Cardinality(new.voters), ContributorCount(old.organization),
                      ps.contributor_proposal_quorum_percentage)
                /\ ThresholdShare(new.votes_for, new.votes_against,
                      ps.contributor_proposal_threshold_percentage)
  <1>1. ElectionInv /\ ElectionInv' /\ [Next]_vars => [Earned]_vars
    <2> SUFFICES ASSUME ElectionInv, ElectionInv', Next,
                        NEW a \in DOMAIN contributor_proposals,
                        contributor_proposals[a].status = "Active",
                        contributor_proposals'[a].status = "Approved"
                 PROVE  LET old == contributor_proposals[a]
                            new == contributor_proposals'[a]
                            ps  == organization[old.organization].parameters
                        IN  /\ QuorumShare(Cardinality(new.voters),
                                  ContributorCount(old.organization),
                                  ps.contributor_proposal_quorum_percentage)
                            /\ ThresholdShare(new.votes_for, new.votes_against,
                                  ps.contributor_proposal_threshold_percentage)
      OBVIOUS
    <2>1. CASE UNCHANGED contributor_proposals
      BY <2>1
    <2>2. CASE Propose
      <3>1. contributor_proposals'[a] = contributor_proposals[a]
        BY <2>2 DEF Propose, ProposeContributor, StoreAccount, ProposeContributorAccounts
      <3> QED
        BY <3>1
    <2>3. CASE Vote
      <3>1. PICK v \in Wallets, o \in Orgs, b \in DOMAIN contributor_proposals,
                 vote \in BOOLEAN, amount \in TokenAmounts :
                   VoteOnContributorProposal(v, o, b, vote, amount)
        BY <2>3 DEF Vote
      <3>2. a = b
        BY <3>1 DEF VoteOnContributorProposal
      <3> QED
        BY <3>1, <3>2, VoteEarns
    <2> QED
      BY <2>1, <2>2, <2>3 DEF Next
  <1> QED
    BY <1>1, ElectionInvariant, PTL DEF Spec, ApprovalIsEarned

(* A quorum of an electorate is one of every smaller electorate.           *)
LEMMA QuorumOfFewer ==
    ASSUME NEW votes \in Nat, NEW n \in Nat, NEW m \in Nat, NEW quorum \in Nat,
           n # 0, n <= m, MeetsQuorumRequirement(votes, m, quorum)
    PROVE  MeetsQuorumRequirement(votes, n, quorum)
  <1>1. n * quorum \in Nat /\ m * quorum \in Nat /\ n * quorum <= m * quorum
    BY SMTT(30)
  <1> DEFINE small == n * quorum
             large == m * quorum
  <1>2. votes >= (large + 99) \div 100
    BY DEF MeetsQuorumRequirement
  <1>3. small \in Nat /\ large \in Nat /\ small <= large
    BY <1>1
  <1> HIDE DEF small, large
  <1>4. votes >= (small + 99) \div 100
    BY <1>2, <1>3
  <1> QED
    BY <1>4 DEF MeetsQuorumRequirement, small

ParametersKept ==
    \A o \in DOMAIN organization : organization'[o].parameters = organization[o].parameters

(* The votes on a proposal would approve it, were they counted now.        *)
HoldsMajority(p) ==
    LET ps == organization[p.organization].parameters
    IN  /\ MeetsQuorumRequirement(p.votes_for + p.votes_against, ContributorCount(p.organization),
               ps.contributor_proposal_quorum_percentage)
        /\ HasReachedThreshold(p.votes_for, p.votes_against,
               ps.contributor_proposal_threshold_percentage)

(* Where no list changes, no ballot comes to hold a majority.              *)
LEMMA QuietMajority ==
    ASSUME ElectionInv, QuietStep, ParametersKept, NEW a \in DOMAIN contributor_proposals,
           contributor_proposals'[a] = contributor_proposals[a],
           ~HoldsMajority(contributor_proposals[a])
    PROVE  ~HoldsMajority(contributor_proposals[a])'
  <1>1. contributor_proposals[a].organization \in DOMAIN organization
    BY DEF ElectionInv, BallotsOpen
  <1> QED
    BY <1>1 DEF QuietStep, ParametersKept, HoldsMajority, ContributorCount

(* An admission does not complete the majority of another ballot.          *)
LEMMA AdmissionMajority ==
    ASSUME ElectionInv, NEW o \in DOMAIN organization, NEW c \in Wallets, NEW r \in Nat,
           AdmitContributor(o, c, r), Contributors(o) # {},
           NEW a \in DOMAIN contributor_proposals,
           contributor_proposals'[a] = contributor_proposals[a],
           ~HoldsMajority(contributor_proposals[a])
    PROVE  ~HoldsMajority(contributor_proposals[a])'
  <1> DEFINE p == contributor_proposals[a]
             q == p.organization
             old == ContributorCount(q)
             new == Len(organization'[q].contributors)
             quorum == organization[q].parameters.contributor_proposal_quorum_percentage
  <1>1. /\ q \in DOMAIN organization /\ p \in ContributorProposal /\ TypeInv
    BY DEF ElectionInv, BallotsOpen, TypeInv, TypeOK
  <1>2. /\ organization'[q].parameters = organization[q].parameters
        /\ q # o => organization'[q] = organization[q]
        /\ organization'[o].contributors = Append(organization[o].contributors, c)
    BY <1>1, AdmitEffect
  <1>3. organization[o].contributors \in Seq(Wallets)
    BY <1>1 DEF TypeInv, TypeOK, OrganizationAccount
  <1>4. old \in Nat /\ quorum \in Nat /\ p.votes_for + p.votes_against \in Nat
    BY <1>1, CountingTypes DEF ContributorProposal
  <1>5. new \in Nat /\ (new = old \/ (old # 0 /\ old <= new))
    <2>1. CASE q # o
      BY <1>2, <1>4, <2>1 DEF ContributorCount
    <2>2. CASE q = o
      <3>1. Len(Append(organization[o].contributors, c)) = old + 1
        BY <1>3, <2>2, AppendProperties DEF ContributorCount
      <3>2. old # 0
        <4>1. DOMAIN organization[o].contributors # {}
          BY DEF Contributors
        <4>2. DOMAIN organization[o].contributors = 1..old
          BY <1>3, <2>2, LenProperties DEF ContributorCount
        <4> QED
          BY <4>1, <4>2
      <3> QED
        BY <1>2, <1>4, <2>2, <3>1, <3>2
    <2> QED
      BY <2>1, <2>2
  <1>6. MeetsQuorumRequirement(p.votes_for + p.votes_against, new, quorum)
          => MeetsQuorumRequirement(p.votes_for + p.votes_against, old, quorum)
    <2> HIDE DEF old, new, quorum, p
    <2> QED
      BY <1>4, <1>5, QuorumOfFewer
  <1> QED
    BY <1>2, <1>6 DEF HoldsMajority, ContributorCount

(* A step that changes no parameters completes no majority silently.       *)
LEMMA NoMajorityOverlooked ==
    ASSUME ElectionInv, TypeInv', [Next]_vars, ParametersKept, NoOverlookedMajority
    PROVE  NoOverlookedMajority'
  <1> SUFFICES ASSUME NEW a \in DOMAIN contributor_proposals',
                      contributor_proposals'[a].status = "Active"
               PROVE  ~HoldsMajority(contributor_proposals[a])'
    BY DEF NoOverlookedMajority, HoldsMajority
  <1>1. ASSUME NEW b \in DOMAIN contributor_proposals, contributor_proposals[b].status = "Active"
        PROVE  ~HoldsMajority(contributor_proposals[b])
    BY <1>1 DEF NoOverlookedMajority, HoldsMajority
  <1>2. ASSUME QuietStep, UNCHANGED contributor_proposals
        PROVE  ~HoldsMajority(contributor_proposals[a])'
    BY <1>1, <1>2, QuietMajority
  <1>3. CASE Tick /\ UNCHANGED contributor_proposals
    BY <1>2, <1>3 DEF Tick, QuietStep
  <1>4. CASE UNCHANGED contributor_proposals /\
             \E w \in Wallets, o \in Orgs, p \in ParameterSets, r \in Rates :
               CreateOrganization(w, o, p, r)
    <2>1. a \in DOMAIN contributor_proposals /\ contributor_proposals'[a] = contributor_proposals[a]
      BY <1>4
    <2> DEFINE q == contributor_proposals[a].organization
    <2>2. q \in DOMAIN organization
      BY <2>1 DEF ElectionInv, BallotsOpen
    <2>3. organization'[q] = organization[q]
      BY <1>4, <2>2 DEF CreateOrganization, CreateOrganizationAccounts, StoreAccount
    <2> QED
      BY <1>1, <1>4, <2>1, <2>3 DEF HoldsMajority, ContributorCount
  <1>5. CASE UNCHANGED contributor_proposals /\
             \E w \in Wallets, o \in Orgs, p \in ParameterSets : UpdateOrganizationParameters(w, o, p)
    <2>1. QuietStep
      BY <1>5 DEF UpdateOrganizationParameters, QuietStep, ElectionInv, TypeInv, TypeOK,
                  OrganizationAccount
    <2> QED
      BY <1>2, <1>5, <2>1
  <1>6. CASE UNCHANGED contributor_proposals /\ \E w \in Wallets, o \in Orgs : RenewContributor(w, o)
    <2>1. QuietStep
      BY <1>6 DEF RenewContributor, RenewContributorAccounts, NewContributor, QuietStep,
                  ElectionInv, TypeInv, TypeOK, ContributorAccount
    <2> QED
      BY <1>2, <1>6, <2>1
  <1>7. CASE Propose
    <2>1. PICK w \in Wallets, c \in Wallets, o \in Orgs, r \in Rates, t \in Timestamps,
               amount \in TokenAmounts : ProposeContributor(w, o, c, r, t, amount)
      BY <1>7 DEF Propose
    <2>2. QuietStep
      BY <2>1 DEF ProposeContributor, QuietStep, orgVars
    <2>3. CASE a \in DOMAIN contributor_proposals
      <3>1. contributor_proposals'[a] = contributor_proposals[a]
        BY <2>1, <2>3 DEF ProposeContributor, ProposeContributorAccounts, StoreAccount
      <3> QED
        BY <1>1, <2>2, <2>3, <3>1, QuietMajority
    <2>4. CASE a \notin DOMAIN contributor_proposals
      <3>1. contributor_proposals'[a].votes_for = 0
        BY <2>1, <2>4 DEF ProposeContributor, StoreAccount
      <3> QED
        BY <3>1 DEF HoldsMajority, HasReachedThreshold
    <2> QED
      BY <2>3, <2>4
  <1>8. CASE Vote
    <2>1. PICK v \in Wallets, o \in Orgs, b \in DOMAIN contributor_proposals,
               vote \in BOOLEAN, amount \in TokenAmounts :
                 VoteOnContributorProposal(v, o, b, vote, amount)
      BY <1>8 DEF Vote
    <2> DEFINE p == contributor_proposals[b]
               u == WithVote(o, p, v, vote)
    <2>2. /\ p \in ContributorProposal /\ o \in DOMAIN organization /\ p.organization = o
          /\ contributor_proposals' = [contributor_proposals EXCEPT ![b] = u]
          /\ IsValidContributor(o, v) /\ ~IsProposalExpired(p.expires_at, now)
      BY <2>1 DEF ElectionInv, TypeInv, TypeOK, VoteOnContributorProposal,
                  VoteOnContributorProposalAccounts
    <2>3. CASE AdmitsCandidate(o, u)
      <3>1. AdmitContributor(o, p.candidate, p.proposed_rate) /\ u.status = "Approved"
        BY <2>1, <2>3 DEF VoteOnContributorProposal, AdmitsCandidate
      <3>2. a # b /\ a \in DOMAIN contributor_proposals
            /\ contributor_proposals'[a] = contributor_proposals[a]
        BY <2>2, <3>1
      <3>3. p.candidate \in Wallets /\ p.proposed_rate \in Nat /\ Contributors(o) # {}
        BY <2>2, OrganizationAssumption DEF ContributorProposal, IsValidContributor
      <3> QED
        BY <1>1, <2>2, <3>1, <3>2, <3>3, AdmissionMajority
    <2>4. CASE ~AdmitsCandidate(o, u)
      <3>1. UNCHANGED orgVars
        BY <2>1, <2>4 DEF VoteOnContributorProposal
      <3>2. QuietStep
        BY <3>1 DEF QuietStep, orgVars
      <3>3. CASE a # b
        BY <1>1, <2>2, <3>2, <3>3, QuietMajority
      <3>4. CASE a = b
        <4>1. /\ u.organization = o
              /\ "Active" = UpdateProposalStatus(u.votes_for, u.votes_against, FALSE,
                     organization[o].parameters.contributor_proposal_threshold_percentage,
                     ContributorCount(o),
                     organization[o].parameters.contributor_proposal_quorum_percentage)
          <5>1. IsProposalExpired(p.expires_at, now) = FALSE
            BY <2>2 DEF IsProposalExpired
          <5>2. u.status = "Active"
            BY <2>2, <3>4
          <5>3. v \in Wallets /\ b \in DOMAIN contributor_proposals
            BY <2>1
          <5>4. u.organization = o
            BY <2>2 DEF WithVote
          <5>5. u.status = UpdateProposalStatus(u.votes_for, u.votes_against,
                     IsProposalExpired(p.expires_at, now),
                     organization[o].parameters.contributor_proposal_threshold_percentage,
                     ContributorCount(o),
                     organization[o].parameters.contributor_proposal_quorum_percentage)
            BY <2>1, <2>2, VoteStatus
          <5> HIDE DEF u, p
          <5> QED
            BY <5>1, <5>2, <5>4, <5>5
        <4>2. contributor_proposals'[a] = u
          BY <2>2, <3>4
        <4> HIDE DEF u
        <4>3. ~HoldsMajority(u)
          BY <4>1 DEF HoldsMajority, UpdateProposalStatus
        <4> QED
          BY <3>1, <4>2, <4>3 DEF HoldsMajority, ContributorCount, orgVars
      <3> QED
        BY <3>3, <3>4
    <2> QED
      BY <2>3, <2>4
  <1>9. CASE UNCHANGED vars
    BY <1>2, <1>9 DEF vars, orgVars, QuietStep
  <1> QED
    BY <1>3, <1>4, <1>5, <1>6, <1>7, <1>8, <1>9 DEF Next, Administer

(* While no organization's parameters change, an open ballot never holds   *)
(* the votes that would approve it, in however many admissions its         *)
(* electorate grows (vote_on_contributor_proposal).                        *)
THEOREM NoMajorityIsOverlooked == Spec /\ [][ParametersKept]_vars => []NoOverlookedMajority
  <1>1. Init => NoOverlookedMajority
    BY DEF Init, EmptyMap, NoOverlookedMajority
  <1>2. (/\ ElectionInv /\ ElectionInv' /\ [Next]_vars /\ [ParametersKept]_vars
         /\ NoOverlookedMajority)
          => NoOverlookedMajority'
    <2> SUFFICES ASSUME ElectionInv, ElectionInv', [Next]_vars, [ParametersKept]_vars,
                        NoOverlookedMajority
                 PROVE  NoOverlookedMajority'
      OBVIOUS
    <2>1. ParametersKept
      BY DEF vars, orgVars, ParametersKept
    <2>2. TypeInv'
      BY DEF ElectionInv
    <2> QED
      BY <2>1, <2>2, NoMajorityOverlooked DEF ElectionInv
  <1> QED
    BY <1>1, <1>2, ElectionInvariant, PTL DEF Spec

-----------------------------------------------------------------------------
(***************************************************************************)
(* Refinement.                                                             *)
(***************************************************************************)

(* An admission is made only for somebody who is not on the list, at a     *)
(* rate that was proposed.                                                 *)
LEMMA VoteAdmits ==
    ASSUME ElectionInv, NEW v \in Wallets, NEW o \in Orgs, NEW a \in DOMAIN contributor_proposals,
           NEW vote \in BOOLEAN, NEW amount \in TokenAmounts,
           VoteOnContributorProposal(v, o, a, vote, amount)
    PROVE  \/ \E c \in Wallets, r \in Rates : AdmitNewContributor(o, c, r)
           \/ UNCHANGED orgVars
  <1> DEFINE p == contributor_proposals[a]
             u == WithVote(o, p, v, vote)
  <1>1. p \in ContributorProposal
    BY DEF ElectionInv, TypeInv, TypeOK
  <1>2. u.candidate = p.candidate /\ p.candidate \in Wallets /\ p.proposed_rate \in Rates
    BY <1>1, WithVoteType DEF ContributorProposal
  <1>3. CASE AdmitsCandidate(o, u)
    <2>1. AdmitContributor(o, p.candidate, p.proposed_rate)
      BY <1>3 DEF VoteOnContributorProposal
    <2>2. o \in DOMAIN organization
      BY DEF VoteOnContributorProposal, VoteOnContributorProposalAccounts
    <2>3. ~IsValidContributor(o, p.candidate)
      BY <1>2, <1>3 DEF AdmitsCandidate
    <2>4. AdmitNewContributor(o, p.candidate, p.proposed_rate)
      BY <2>1, <2>2, <2>3 DEF AdmitNewContributor
    <2> QED
      BY <1>2, <2>4
  <1>4. CASE ~AdmitsCandidate(o, u)
    BY <1>4 DEF VoteOnContributorProposal
  <1> QED
    BY <1>3, <1>4

(* No step of an election changes an organization in a way of its own.     *)
LEMMA ElectionOrgStep == ElectionInv /\ [Next]_vars => [OrgNext]_orgVars
  <1> SUFFICES ASSUME ElectionInv, [Next]_vars PROVE [OrgNext]_orgVars
    OBVIOUS
  <1>1. CASE Administer
    BY <1>1 DEF OrgNext
  <1>2. CASE Propose
    BY <1>2 DEF Propose, ProposeContributor
  <1>3. CASE Vote
    BY <1>3, VoteAdmits DEF Vote, OrgNext
  <1>4. CASE UNCHANGED vars
    BY <1>4 DEF vars, orgVars
  <1> QED
    BY <1>1, <1>2, <1>3, <1>4 DEF Next

(* Whatever the proposals do, the accounts of the organization change only *)
(* as Organization allows on its own.                                      *)
THEOREM OrganizationImplemented == Spec => OrgSpec
  <1>1. Init => OrgInit
    BY DEF Init
  <1> QED
    BY <1>1, ElectionOrgStep, ElectionInvariant, PTL DEF Spec, OrgSpec

(* A new proposal is a ballot without votes.                               *)
LEMMA ProposeOpens ==
    ASSUME NEW w \in Wallets, NEW o \in Orgs, NEW c \in Wallets, NEW r \in Rates,
           NEW t \in Timestamps, NEW amount \in TokenAmounts,
           ProposeContributor(w, o, c, r, t, amount)
    PROVE  Ballot!BallotsNext
  <1> DEFINE a == <<o, c, t>>
  <1>1. PICK prop :
          /\ contributor_proposals' = StoreAccount(contributor_proposals, a, prop)
          /\ prop.status = "Active" /\ prop.voters = {}
          /\ prop.votes_for = 0 /\ prop.votes_against = 0
    BY DEF ProposeContributor
  <1>2. a \notin DOMAIN contributor_proposals
    BY DEF ProposeContributor, ProposeContributorAccounts
  <1> HIDE DEF a
  <1>3. /\ DOMAIN contributor_proposals' = DOMAIN contributor_proposals \cup {a}
        /\ \A b \in DOMAIN contributor_proposals : contributor_proposals'[b] = contributor_proposals[b]
        /\ contributor_proposals'[a] = prop
    BY <1>1, <1>2 DEF StoreAccount
  <1>4. Ballot!Open(a)
    BY <1>1, <1>2, <1>3 DEF Ballot!Open
  <1> QED
    BY <1>3, <1>4 DEF Ballot!BallotsNext

(* The status a vote leaves is one of an undecided or a decided ballot:    *)
(* votes after the end were refused before it was computed.                *)
LEMMA StatusOfOpenBallot ==
    ASSUME NEW f, NEW a, NEW threshold, NEW n, NEW quorum
    PROVE  UpdateProposalStatus(f, a, FALSE, threshold, n, quorum)
             \in {"Active", "Approved", "Rejected"}
  BY DEF UpdateProposalStatus

(* A vote on a proposal is a vote cast on an open ballot.                  *)
LEMMA VoteCasts ==
    ASSUME ElectionInv, NEW v \in Wallets, NEW o \in Orgs, NEW a \in DOMAIN contributor_proposals,
           NEW vote \in BOOLEAN, NEW amount \in TokenAmounts,
           VoteOnContributorProposal(v, o, a, vote, amount)
    PROVE  Ballot!BallotsNext
  <1> DEFINE p == contributor_proposals[a]
             for == IF vote THEN 1 ELSE 0
             against == IF vote THEN 0 ELSE 1
  <1>1. /\ p \in ContributorProposal /\ now \in Int
        /\ p.organization = o /\ p.status = "Active"
        /\ IsValidContributor(o, v) /\ v \notin p.voters
        /\ ~IsProposalExpired(p.expires_at, now)
        /\ contributor_proposals' = [contributor_proposals EXCEPT ![a] = WithVote(o, p, v, vote)]
    BY DEF VoteOnContributorProposal, VoteOnContributorProposalAccounts, HasAlreadyVoted,
       ElectionInv, TypeInv, TypeOK
  <1>2. now < p.expires_at
    BY <1>1, I64MaxAssumption DEF IsProposalExpired, ContributorProposal
  <1>3. PICK status \in {"Active", "Approved", "Rejected"} :
          WithVote(o, p, v, vote) = Ballot!Counted(p, v, for, against, status)
    <2> DEFINE outcome(expired) == UpdateProposalStatus(p.votes_for + for, p.votes_against + against,
                     expired, organization[o].parameters.contributor_proposal_threshold_percentage,
                     ContributorCount(o),
                     organization[o].parameters.contributor_proposal_quorum_percentage)
               st == outcome(FALSE)
    <2>1. st \in {"Active", "Approved", "Rejected"}
      BY StatusOfOpenBallot
    <2>2. IsProposalExpired(p.expires_at, now) = FALSE
      BY <1>1 DEF IsProposalExpired
    <2>3. WithVote(o, p, v, vote) =
            Ballot!Counted(p, v, for, against, outcome(IsProposalExpired(p.expires_at, now)))
      BY DEF WithVote, Ballot!Counted
    <2> QED
      BY <2>1, <2>2, <2>3
  <1>4. v \in Contributors(p.organization) \ p.voters
    BY <1>1 DEF IsValidContributor
  <1>5. for \in {0, 1} /\ against = 1 - for
    OBVIOUS
  <1> HIDE DEF for, against
  <1>6. contributor_proposals' =
          [contributor_proposals EXCEPT ![a] = Ballot!Counted(p, v, for, 1 - for, status)]
    BY <1>1, <1>3, <1>5
  <1>7. Ballot!Cast(a, v)
    BY <1>1, <1>2, <1>4, <1>5, <1>6 DEF Ballot!Cast
  <1> QED
    BY <1>7 DEF Ballot!BallotsNext

(* The elections keep the promise of Ballots, for every electorate, rule   *)
(* and order of the instructions.                                          *)
THEOREM BallotsImplemented == Spec => ContributorBallots
  <1>1. Init => Ballot!BallotsInit
    BY DEF Init, EmptyMap, Ballot!BallotsInit
  <1>2. ElectionInv /\ [Next]_vars => [Ballot!BallotsNext]_contributor_proposals
    <2> SUFFICES ASSUME ElectionInv, [Next]_vars
                 PROVE  Ballot!BallotsNext \/ UNCHANGED contributor_proposals
      OBVIOUS
    <2>1. CASE Propose
      BY <2>1, ProposeOpens DEF Propose
    <2>2. CASE Vote
      BY <2>2, VoteCasts DEF Vote
    <2>3. CASE UNCHANGED vars
      BY <2>3 DEF vars
    <2> QED
      BY <2>1, <2>2, <2>3 DEF Next
  <1> QED
    BY <1>1, <1>2, ElectionInvariant, PTL DEF Spec, ContributorBallots, Ballot!BallotsSpec
=============================================================================
