------------------------ MODULE ProjectGovernance_proofs ------------------------
(***************************************************************************)
(* Theorems about ProjectGovernance, for every set of wallets,             *)
(* organizations, titles, uuids, parameters and bounds.                    *)
(***************************************************************************)
EXTENDS ProjectGovernance, Accounts_proofs, FiniteSetTheorems

(* A stored proposal has an organization, and was opened with arguments    *)
(* that the checks of propose_project let through.  What they ask of the   *)
(* members stays true, since no contributor leaves.                        *)
Sound(p) ==
    /\ p.organization \in DOMAIN organization
    /\ p.member_pubkeys \in MemberLists
    /\ p.task_approval_threshold \in TaskThresholds
    /\ p.validity_period \in Periods
    /\ ValidProjectArguments(p.organization, p.member_pubkeys, p.task_approval_threshold,
                             p.validity_period)

ProposalsSound == \A a \in DOMAIN project_proposals : Sound(project_proposals[a])

ProjectOrgsExist == \A a \in DOMAIN projects : projects[a].organization \in DOMAIN organization

ProjectInv ==
    /\ OrgInv
    /\ TypeOK
    /\ ProposalsSound
    /\ ProjectOrgsExist
    /\ ProjectsWereApproved
    /\ ApprovedHasItsProject

-----------------------------------------------------------------------------
(* Arguments that were good once stay good.                                *)
LEMMA SoundStays ==
    ASSUME OrgsStay
    PROVE  \A p : Sound(p) => Sound(p)'
  BY DEF Sound, OrgsStay, ValidProjectArguments, IsValidContributor

(* The project that a sound proposal describes.                            *)
LEMMA DescribedProject ==
    ASSUME OrgInv, NEW o \in Orgs, NEW p \in ProjectProposal, p.organization = o, Sound(p)
    PROVE  LET project == NewProject(o, p.title, p.member_pubkeys, p.task_approval_threshold,
                                     p.validity_period)
           IN  /\ project \in Project
               /\ project.organization = o
               /\ IsProjectOf(project, p)
               /\ Members(project) \subseteq Contributors(o)
  <1> DEFINE end     == SaturatingAdd(now, p.validity_period)
             project == [organization |-> o, title |-> p.title, members |-> p.member_pubkeys,
                         task_approval_threshold |-> p.task_approval_threshold,
                         validity_end_time |-> end]
  <1>1. p.validity_period \in Int /\ ValidateValidityPeriod(p.validity_period)
    BY ProjectsAssumption DEF Sound, ValidProjectArguments
  <1>2. end \in 0..I64Max
    BY <1>1, ExpiryType
  <1>3. NewProject(o, p.title, p.member_pubkeys, p.task_approval_threshold, p.validity_period) = project
    BY DEF NewProject
  <1> HIDE DEF end
  <1>4. project \in Project
    BY <1>2 DEF Project, ProjectProposal
  <1>5. IsProjectOf(project, p)
    BY DEF IsProjectOf
  <1>6. Members(project) \subseteq Contributors(o)
    BY DEF Members, Sound, ValidProjectArguments, IsValidContributor
  <1> QED
    BY <1>3, <1>4, <1>5, <1>6

(* Before anything is proposed the invariant holds.                        *)
THEOREM ProjectInit == Init => ProjectInv
  <1> SUFFICES ASSUME Init PROVE ProjectInv
    OBVIOUS
  <1>1. OrgInv
    BY OrgInitOK DEF Init, ProjectsInit
  <1> QED
    BY <1>1 DEF Init, ProjectsInit, EmptyMap, ProjectInv, TypeOK, ProjectsTypeOK, ProposalsSound,
         ProjectOrgsExist, ProjectsWereApproved, ApprovedHasItsProject

(* An organization goes on without its proposals and projects noticing.    *)
LEMMA OrgStepProjects ==
    ASSUME ProjectInv, [OrgNext]_orgVars, UNCHANGED <<projects, project_proposals>>
    PROVE  ProjectInv'
  <1>1. OrgInv' /\ OrgsStay
    BY OrgStepOK DEF ProjectInv
  <1>2. ProposalsSound'
    <2> SUFFICES ASSUME NEW a \in DOMAIN project_proposals'
                 PROVE  Sound(project_proposals[a])'
      BY DEF ProposalsSound
    <2> QED
      BY <1>1, SoundStays DEF ProjectInv, ProposalsSound
  <1>3. ProjectOrgsExist'
    BY <1>1 DEF ProjectInv, ProjectOrgsExist, OrgsStay
  <1>4. ProjectsWereApproved'
    BY <1>1 DEF ProjectInv, ProjectsWereApproved, ProjectOrgsExist, OrgsStay
  <1> QED
    BY <1>1, <1>2, <1>3, <1>4 DEF ProjectInv, TypeOK, ProjectsTypeOK, ApprovedHasItsProject

(* propose_project stores a sound proposal that nobody has voted on.       *)
LEMMA ProposeProjects ==
    ASSUME ProjectInv, NEW w \in Wallets, NEW o \in Orgs, NEW title \in Titles,
           NEW members \in MemberLists, NEW threshold \in TaskThresholds, NEW period \in Periods,
           NEW tokens \in TokenAmounts,
           ProposeProject(w, o, title, members, threshold, period, tokens)
    PROVE  ProjectInv'
  <1> DEFINE expiry == SaturatingAdd(now,
                         organization[o].parameters.project_proposal_validity_period)
             prop == [organization |-> o, proposer |-> w, title |-> title,
                      member_pubkeys |-> members, task_approval_threshold |-> threshold,
                      validity_period |-> period, created_at |-> now, expires_at |-> expiry,
                      votes_for |-> 0, votes_against |-> 0, status |-> "Active", voters |-> {}]
             a == <<o, title>>
  <1>1. /\ o \in DOMAIN organization /\ a \notin DOMAIN project_proposals
        /\ ValidProjectArguments(o, members, threshold, period)
        /\ project_proposals' = StoreAccount(project_proposals, a, prop)
        /\ UNCHANGED <<now, organization, contributor, projects>>
    BY DEF ProposeProject, ProposeProjectAccounts, projectVars, orgVars
  <1>2. OrgInv' /\ OrgsStay
    BY <1>1 DEF ProjectInv, OrgInv, OrgsStay, Contributors
  <1>3. expiry \in 0..I64Max /\ now \in Nat
    BY <1>1, ExpiryType, StoredPeriods DEF ProjectInv, OrgInv
  <1>4. members \in Seq(Wallets) /\ period \in Int /\ threshold \in 0..100
    BY <1>1, ProjectsAssumption DEF ValidProjectArguments, ValidateThreshold
  <1> HIDE DEF expiry
  <1>5. prop \in ProjectProposal
    BY <1>3, <1>4 DEF ProjectProposal, ProposalStatus
  <1>6. Sound(prop)
    BY <1>1 DEF Sound
  <1>7. prop.status # "Approved"
    OBVIOUS
  <1> HIDE DEF prop
  <1>8. /\ DOMAIN project_proposals' = DOMAIN project_proposals \cup {a}
        /\ project_proposals'[a] = prop
        /\ \A b \in DOMAIN project_proposals : project_proposals'[b] = project_proposals[b]
    BY <1>1 DEF StoreAccount
  <1>9. TypeOK'
    BY <1>1, <1>5, <1>8 DEF ProjectInv, TypeOK, ProjectsTypeOK, ProposalAddresses
  <1>10. ProposalsSound'
    <2> SUFFICES ASSUME NEW b \in DOMAIN project_proposals'
                 PROVE  Sound(project_proposals[b])'
      BY DEF ProposalsSound
    <2> QED
      BY <1>2, <1>6, <1>8, SoundStays DEF ProjectInv, ProposalsSound
  <1>11. ProjectsWereApproved' /\ ProjectOrgsExist'
    BY <1>1, <1>8 DEF ProjectInv, ProjectsWereApproved, ProjectOrgsExist, Contributors
  <1>12. ApprovedHasItsProject'
    BY <1>1, <1>7, <1>8 DEF ProjectInv, ApprovedHasItsProject
  <1> QED
    BY <1>2, <1>9, <1>10, <1>11, <1>12 DEF ProjectInv

(* A vote changes the tallies, the voters and the status, and nothing else. *)
LEMMA VoteOnProposal ==
    ASSUME NEW p \in ProjectProposal, NEW o, NEW voter \in Wallets, NEW vote \in BOOLEAN
    PROVE  LET u == WithVote(o, p, voter, vote)
           IN  /\ u \in ProjectProposal
               /\ u.organization = p.organization /\ u.title = p.title
               /\ u.member_pubkeys = p.member_pubkeys
               /\ u.task_approval_threshold = p.task_approval_threshold
               /\ u.validity_period = p.validity_period
  <1> DEFINE f == p.votes_for + (IF vote THEN 1 ELSE 0)
             a == p.votes_against + (IF vote THEN 0 ELSE 1)
             st == UpdateProposalStatus(f, a, IsProposalExpired(p.expires_at, now),
                     organization[o].parameters.project_proposal_threshold_percentage,
                     ContributorCount(o),
                     organization[o].parameters.contributor_proposal_quorum_percentage)
             u == [p EXCEPT !.votes_for = f, !.votes_against = a,
                            !.voters = @ \cup {voter}, !.status = st]
  <1>1. f \in Nat /\ a \in Nat
    BY DEF ProjectProposal
  <1>2. st \in ProposalStatus
    BY DEF UpdateProposalStatus, ProposalStatus
  <1>3. WithVote(o, p, voter, vote) = u
    BY DEF WithVote
  <1> HIDE DEF f, a, st
  <1>4. u \in ProjectProposal
    BY <1>1, <1>2 DEF ProjectProposal
  <1>5. /\ u.organization = p.organization /\ u.title = p.title
        /\ u.member_pubkeys = p.member_pubkeys
        /\ u.task_approval_threshold = p.task_approval_threshold
        /\ u.validity_period = p.validity_period
    BY DEF ProjectProposal
  <1> QED
    BY <1>3, <1>4, <1>5

(* A free address takes the project of a sound proposal.                   *)
LEMMA ProjectEntered ==
    ASSUME ProjectInv, NEW o \in Orgs, NEW uuid \in Uuids \cup ProposalAddresses,
           NEW p \in ProjectProposal, p.organization = o, Sound(p),
           CreateProjectAccount(o, uuid, p)
    PROVE  /\ <<o, uuid>> \notin DOMAIN projects
           /\ DOMAIN projects' = DOMAIN projects \cup {<<o, uuid>>}
           /\ \A a \in DOMAIN projects : projects'[a] = projects[a]
           /\ IsProjectOf(projects'[<<o, uuid>>], p)
           /\ projects'[<<o, uuid>>].organization = o
           /\ Members(projects'[<<o, uuid>>]) \subseteq Contributors(o)
           /\ ProjectsTypeOK'
  <1> DEFINE project == NewProject(o, p.title, p.member_pubkeys, p.task_approval_threshold,
                                   p.validity_period)
  <1>1. /\ project \in Project /\ IsProjectOf(project, p) /\ project.organization = o
        /\ Members(project) \subseteq Contributors(o)
    BY DescribedProject DEF ProjectInv
  <1>2. <<o, uuid>> \notin DOMAIN projects /\ projects' = StoreAccount(projects, <<o, uuid>>, project)
    BY DEF CreateProjectAccount
  <1> HIDE DEF project
  <1>3. /\ DOMAIN projects' = DOMAIN projects \cup {<<o, uuid>>}
        /\ projects'[<<o, uuid>>] = project
        /\ \A a \in DOMAIN projects : projects'[a] = projects[a]
    BY <1>2 DEF StoreAccount
  <1>4. ProjectsTypeOK'
    BY <1>1, <1>3 DEF ProjectInv, TypeOK, ProjectsTypeOK, ProjectAddresses
  <1> QED
    BY <1>1, <1>2, <1>3, <1>4

(* The vote that approves a proposal leaves its project at the address     *)
(* derived from it; a vote that does not changes no project.               *)
LEMMA VoteProjects ==
    ASSUME ProjectInv, NEW v \in Wallets, NEW o \in Orgs, NEW a \in DOMAIN project_proposals,
           NEW vote \in BOOLEAN, NEW tokens \in TokenAmounts,
           VoteOnProjectProposal(v, o, a, vote, tokens)
    PROVE  ProjectInv'
  <1> DEFINE p == project_proposals[a]
             u == WithVote(o, p, v, vote)
  <1>1. /\ p \in ProjectProposal /\ p.organization = o /\ p.status = "Active" /\ Sound(p)
        /\ project_proposals' = [project_proposals EXCEPT ![a] = u]
        /\ UNCHANGED <<now, organization, contributor>>
        /\ IF u.status = "Approved" THEN CreateProjectAccount(o, a, u) ELSE UNCHANGED projects
    BY DEF ProjectInv, TypeOK, ProposalsSound, VoteOnProjectProposal,
           VoteOnProjectProposalAccounts, GetUuidFromPubkey, orgVars
  <1>2. /\ u \in ProjectProposal /\ u.organization = o /\ u.title = p.title
        /\ u.member_pubkeys = p.member_pubkeys
        /\ u.task_approval_threshold = p.task_approval_threshold
        /\ u.validity_period = p.validity_period
    BY <1>1, VoteOnProposal
  <1> HIDE DEF u
  <1>3. Sound(u)
    BY <1>1, <1>2 DEF Sound
  <1>4. OrgInv' /\ OrgsStay
    BY <1>1 DEF ProjectInv, OrgInv, OrgsStay, Contributors
  <1>5. /\ DOMAIN project_proposals' = DOMAIN project_proposals
        /\ project_proposals'[a] = u
        /\ \A b \in DOMAIN project_proposals : b # a => project_proposals'[b] = project_proposals[b]
    BY <1>1
  <1>6. ProposalsSound'
    <2> SUFFICES ASSUME NEW b \in DOMAIN project_proposals'
                 PROVE  Sound(project_proposals[b])'
      BY DEF ProposalsSound
    <2> QED
      BY <1>3, <1>4, <1>5, SoundStays DEF ProjectInv, ProposalsSound
  <1>7. \A q : \A b \in DOMAIN project_proposals :
            project_proposals[b].status = "Approved" /\ IsProjectOf(q, project_proposals[b])
              => b \in DOMAIN project_proposals' /\ project_proposals'[b].status = "Approved"
                 /\ IsProjectOf(q, project_proposals'[b])
    BY <1>1, <1>5
  <1>8. CASE u.status # "Approved"
    <2>1. projects' = projects
      BY <1>1, <1>8
    <2>2. TypeOK'
      BY <1>2, <1>5, <2>1 DEF ProjectInv, TypeOK, ProjectsTypeOK
    <2>3. ProjectsWereApproved' /\ ProjectOrgsExist'
      BY <1>1, <1>7, <2>1 DEF ProjectInv, ProjectsWereApproved, ProjectOrgsExist, Contributors,
         IsProjectOf
    <2>4. ApprovedHasItsProject'
      BY <1>5, <1>8, <2>1 DEF ProjectInv, ApprovedHasItsProject
    <2> QED
      BY <1>4, <1>6, <2>2, <2>3, <2>4 DEF ProjectInv
  <1>9. CASE u.status = "Approved"
    <2>1. a \in ProposalAddresses
      BY DEF ProjectInv, TypeOK
    <2>2. /\ DOMAIN projects' = DOMAIN projects \cup {<<o, a>>}
          /\ \A b \in DOMAIN projects : projects'[b] = projects[b]
          /\ IsProjectOf(projects'[<<o, a>>], u)
          /\ projects'[<<o, a>>].organization = o
          /\ Members(projects'[<<o, a>>]) \subseteq Contributors(o)
          /\ ProjectsTypeOK'
      BY <1>1, <1>2, <1>3, <1>9, <2>1, ProjectEntered
    <2>3. TypeOK'
      BY <1>2, <1>5, <2>2 DEF ProjectInv, TypeOK
    <2>4. ProjectOrgsExist'
      BY <1>1, <2>2 DEF ProjectInv, ProjectOrgsExist, Sound
    <2>5. ProjectsWereApproved'
      <3> SUFFICES ASSUME NEW b \in DOMAIN projects'
                   PROVE  /\ \E q \in DOMAIN project_proposals' :
                               /\ project_proposals'[q].status = "Approved"
                               /\ IsProjectOf(projects'[b], project_proposals'[q])
                          /\ Members(projects'[b]) \subseteq Contributors(projects'[b].organization)
        BY <1>1 DEF ProjectsWereApproved, IsProjectOf, Members, Contributors
      <3>1. CASE b = <<o, a>>
        BY <1>5, <1>9, <2>2, <3>1
      <3>2. CASE b # <<o, a>>
        BY <1>7, <2>2, <3>2 DEF ProjectInv, ProjectsWereApproved
      <3> QED
        BY <3>1, <3>2
    <2>6. ApprovedHasItsProject'
      <3> SUFFICES ASSUME NEW b \in DOMAIN project_proposals',
                          project_proposals'[b].status = "Approved"
                   PROVE  /\ <<project_proposals'[b].organization, b>> \in DOMAIN projects'
                          /\ IsProjectOf(projects'[<<project_proposals'[b].organization, b>>],
                                         project_proposals'[b])
        BY DEF ApprovedHasItsProject, GetUuidFromPubkey, IsProjectOf
      <3>1. CASE b = a
        BY <1>2, <1>5, <2>2, <3>1
      <3>2. CASE b # a
        BY <1>5, <2>2, <3>2 DEF ProjectInv, ApprovedHasItsProject, GetUuidFromPubkey
      <3> QED
        BY <3>1, <3>2
    <2> QED
      BY <1>4, <1>6, <2>3, <2>4, <2>5, <2>6 DEF ProjectInv
  <1> QED
    BY <1>8, <1>9

(* create_project takes a free address for an approved proposal.           *)
LEMMA CreateProjects ==
    ASSUME ProjectInv, NEW w \in Wallets, NEW o \in Orgs, NEW a \in DOMAIN project_proposals,
           NEW uuid \in Uuids \cup ProposalAddresses,
           CreateProject(w, o, a, uuid)
    PROVE  ProjectInv'
  <1> DEFINE p == project_proposals[a]
  <1>1. /\ p \in ProjectProposal /\ p.organization = o /\ p.status = "Approved" /\ Sound(p)
        /\ CreateProjectAccount(o, uuid, p)
        /\ UNCHANGED <<now, organization, contributor, project_proposals>>
    BY DEF ProjectInv, TypeOK, ProposalsSound, CreateProject, CreateProjectAccounts, orgVars
  <1>2. /\ <<o, uuid>> \notin DOMAIN projects
        /\ DOMAIN projects' = DOMAIN projects \cup {<<o, uuid>>}
        /\ \A b \in DOMAIN projects : projects'[b] = projects[b]
        /\ IsProjectOf(projects'[<<o, uuid>>], p)
        /\ projects'[<<o, uuid>>].organization = o
        /\ Members(projects'[<<o, uuid>>]) \subseteq Contributors(o)
        /\ ProjectsTypeOK'
    BY <1>1, ProjectEntered
  <1>3. OrgInv' /\ OrgsStay
    BY <1>1 DEF ProjectInv, OrgInv, OrgsStay, Contributors
  <1>4. ProposalsSound'
    BY <1>1 DEF ProjectInv, ProposalsSound, Sound, ValidProjectArguments, IsValidContributor,
       Contributors
  <1>5. TypeOK' /\ ProjectOrgsExist'
    BY <1>1, <1>2 DEF ProjectInv, TypeOK, ProjectOrgsExist, Sound
  <1>6. ProjectsWereApproved'
    <2> SUFFICES ASSUME NEW b \in DOMAIN projects'
                 PROVE  /\ \E q \in DOMAIN project_proposals :
                             /\ project_proposals[q].status = "Approved"
                             /\ IsProjectOf(projects'[b], project_proposals[q])
                        /\ Members(projects'[b]) \subseteq Contributors(projects'[b].organization)
      BY <1>1 DEF ProjectsWereApproved, IsProjectOf, Members, Contributors
    <2>1. CASE b = <<o, uuid>>
      BY <1>1, <1>2, <2>1
    <2>2. CASE b # <<o, uuid>>
      BY <1>2, <2>2 DEF ProjectInv, ProjectsWereApproved
    <2> QED
      BY <2>1, <2>2
  <1>7. ApprovedHasItsProject'
    <2> SUFFICES ASSUME NEW b \in DOMAIN project_proposals,
                        project_proposals[b].status = "Approved"
                 PROVE  /\ <<project_proposals[b].organization, b>> \in DOMAIN projects'
                        /\ IsProjectOf(projects'[<<project_proposals[b].organization, b>>],
                                       project_proposals[b])
      BY <1>1 DEF ApprovedHasItsProject, GetUuidFromPubkey, IsProjectOf
    <2> QED
      BY <1>2 DEF ProjectInv, ApprovedHasItsProject, GetUuidFromPubkey
  <1> QED
    BY <1>3, <1>4, <1>5, <1>6, <1>7 DEF ProjectInv

(* Every step keeps the invariant.                                         *)
THEOREM ProjectStep == ProjectInv /\ [Next]_vars => ProjectInv'
  <1> SUFFICES ASSUME ProjectInv, [Next]_vars PROVE ProjectInv'
    OBVIOUS
  <1>1. CASE OrgNext /\ UNCHANGED <<projects, project_proposals>>
    BY <1>1, OrgStepProjects
  <1>2. CASE Propose
    BY <1>2, ProposeProjects DEF Propose
  <1>3. CASE Vote
    BY <1>3, VoteProjects DEF Vote
  <1>4. CASE Create
    BY <1>4, CreateProjects DEF Create
  <1>5. CASE UNCHANGED vars
    BY <1>5, OrgStepProjects DEF vars, projectVars
  <1> QED
    BY <1>1, <1>2, <1>3, <1>4, <1>5 DEF Next

(* The invariant of project governance holds in every reachable state.     *)
THEOREM ProjectInvariant == Spec => []ProjectInv
  BY ProjectInit, ProjectStep, PTL DEF Spec

(* Accounts keep their shape, and every stored time fits an i64.           *)
THEOREM ProjectTypes == Spec => []TypeOK
  <1>1. ProjectInv => TypeOK
    BY DEF ProjectInv
  <1> QED
    BY <1>1, ProjectInvariant, PTL

(* Whatever address create_project is given, a project is what an approved *)
(* proposal of its organization described (vote_on_project_proposal and    *)
(* create_project), and its members are contributors.                      *)
THEOREM ProjectsAreApproved == Spec => []ProjectsWereApproved
  <1>1. ProjectInv => ProjectsWereApproved
    BY DEF ProjectInv
  <1> QED
    BY <1>1, ProjectInvariant, PTL

(* No approval leaves its proposal without a project, whoever took which   *)
(* address before (vote_on_project_proposal).                              *)
THEOREM ApprovalsHaveProjects == Spec => []ApprovedHasItsProject
  <1>1. ProjectInv => ApprovedHasItsProject
    BY DEF ProjectInv
  <1> QED
    BY <1>1, ProjectInvariant, PTL

-----------------------------------------------------------------------------
(***************************************************************************)
(* Refinement.                                                             *)
(***************************************************************************)
OpenSomeProject ==
    \E o \in Orgs, uuid \in Uuids \cup ProposalAddresses, title \in Titles,
       members \in MemberLists, threshold \in TaskThresholds, period \in Periods :
         OpenProject(o, uuid, title, members, threshold, period)

(* The account made from a sound proposal is one that Projects may open.   *)
LEMMA SoundOpens ==
    ASSUME NEW o \in Orgs, NEW uuid \in Uuids \cup ProposalAddresses,
           NEW p \in ProjectProposal, p.organization = o, Sound(p),
           CreateProjectAccount(o, uuid, p), UNCHANGED orgVars
    PROVE  OpenSomeProject
  <1>1. p.title \in Titles
    BY DEF ProjectProposal
  <1>2. OpenProject(o, uuid, p.title, p.member_pubkeys, p.task_approval_threshold, p.validity_period)
    BY DEF OpenProject, Sound, CreateProjectAccount
  <1> QED
    BY <1>1, <1>2 DEF OpenSomeProject, Sound

(* A vote opens at most the project it decides on.                         *)
LEMMA VoteOpens ==
    ASSUME ProjectInv, NEW v \in Wallets, NEW o \in Orgs, NEW a \in DOMAIN project_proposals,
           NEW vote \in BOOLEAN, NEW tokens \in TokenAmounts,
           VoteOnProjectProposal(v, o, a, vote, tokens)
    PROVE  OpenSomeProject \/ UNCHANGED projectVars
  <1> DEFINE p == project_proposals[a]
             u == WithVote(o, p, v, vote)
  <1>1. /\ p \in ProjectProposal /\ p.organization = o /\ Sound(p)
        /\ UNCHANGED orgVars
        /\ IF u.status = "Approved" THEN CreateProjectAccount(o, a, u) ELSE UNCHANGED projects
    BY DEF ProjectInv, TypeOK, ProposalsSound, VoteOnProjectProposal,
           VoteOnProjectProposalAccounts, GetUuidFromPubkey
  <1>2. /\ u \in ProjectProposal /\ u.organization = o
        /\ u.member_pubkeys = p.member_pubkeys
        /\ u.task_approval_threshold = p.task_approval_threshold
        /\ u.validity_period = p.validity_period
    BY <1>1, VoteOnProposal
  <1> HIDE DEF u
  <1>3. Sound(u)
    BY <1>1, <1>2 DEF Sound
  <1>4. a \in ProposalAddresses
    BY DEF ProjectInv, TypeOK
  <1> QED
    BY <1>1, <1>2, <1>3, <1>4, SoundOpens DEF projectVars

(* A step that votes on projects opens one as Projects does, or none.      *)
LEMMA ProjectsProjectStep == ProjectInv /\ [Next]_vars => [ProjectsNext]_projectVars
  <1> SUFFICES ASSUME ProjectInv, [Next]_vars
               PROVE  ProjectsNext \/ UNCHANGED projectVars
    OBVIOUS
  <1>1. CASE OrgNext /\ UNCHANGED <<projects, project_proposals>>
    BY <1>1 DEF ProjectsNext
  <1>2. CASE Propose
    BY <1>2 DEF Propose, ProposeProject
  <1>3. CASE Vote
    BY <1>3, VoteOpens DEF Vote, OpenSomeProject, ProjectsNext
  <1>4. CASE Create
    <2>1. PICK w \in Wallets, o \in Orgs, a \in DOMAIN project_proposals,
               uuid \in Uuids \cup ProposalAddresses : CreateProject(w, o, a, uuid)
      BY <1>4 DEF Create
    <2> DEFINE p == project_proposals[a]
    <2>2. /\ p \in ProjectProposal /\ p.organization = o /\ Sound(p)
          /\ CreateProjectAccount(o, uuid, p) /\ UNCHANGED orgVars
      BY <2>1 DEF ProjectInv, TypeOK, ProposalsSound, CreateProject, CreateProjectAccounts
    <2>3. OpenSomeProject
      BY <2>2, SoundOpens
    <2> QED
      BY <2>3 DEF OpenSomeProject, ProjectsNext
  <1>5. CASE UNCHANGED vars
    BY <1>5 DEF vars
  <1> QED
    BY <1>1, <1>2, <1>3, <1>4, <1>5 DEF Next

(* Proposals, votes and create_project change the projects only as         *)
(* Projects allows on its own: once, at a free address, with arguments     *)
(* that propose_project accepts.                                           *)
THEOREM ProjectsImplemented == Spec => ProjectsSpec
  <1>1. Init => ProjectsInit
    BY DEF Init
  <1> QED
    BY <1>1, ProjectsProjectStep, ProjectInvariant, PTL DEF Spec, ProjectsSpec

(* A new proposal is a ballot without votes.                               *)
LEMMA ProposeOpensBallot ==
    ASSUME NEW w \in Wallets, NEW o \in Orgs, NEW title \in Titles,
           NEW members \in MemberLists, NEW threshold \in TaskThresholds, NEW period \in Periods,
           NEW tokens \in TokenAmounts,
           ProposeProject(w, o, title, members, threshold, period, tokens)
    PROVE  Ballot!BallotsNext
  <1> DEFINE a == <<o, title>>
  <1>1. PICK prop :
          /\ project_proposals' = StoreAccount(project_proposals, a, prop)
          /\ prop.status = "Active" /\ prop.voters = {}
          /\ prop.votes_for = 0 /\ prop.votes_against = 0
    BY DEF ProposeProject
  <1>2. a \notin DOMAIN project_proposals
    BY DEF ProposeProject, ProposeProjectAccounts
  <1> HIDE DEF a
  <1>3. /\ DOMAIN project_proposals' = DOMAIN project_proposals \cup {a}
        /\ \A b \in DOMAIN project_proposals : project_proposals'[b] = project_proposals[b]
        /\ project_proposals'[a] = prop
    BY <1>1, <1>2 DEF StoreAccount
  <1>4. Ballot!Open(a)
    BY <1>1, <1>2, <1>3 DEF Ballot!Open
  <1> QED
    BY <1>3, <1>4 DEF Ballot!BallotsNext

(* A vote that finds the ballot in time leaves it undecided, approved or   *)
(* rejected: the expiry that would mark it was refused before.             *)
LEMMA StatusInTime ==
    ASSUME NEW f, NEW a, NEW threshold, NEW n, NEW quorum
    PROVE  UpdateProposalStatus(f, a, FALSE, threshold, n, quorum)
             \in {"Active", "Approved", "Rejected"}
  BY DEF UpdateProposalStatus

(* A vote on a project is a vote cast on an open ballot.                   *)
LEMMA VoteCastsBallot ==
    ASSUME ProjectInv, NEW v \in Wallets, NEW o \in Orgs, NEW a \in DOMAIN project_proposals,
           NEW vote \in BOOLEAN, NEW tokens \in TokenAmounts,
           VoteOnProjectProposal(v, o, a, vote, tokens)
    PROVE  Ballot!BallotsNext
  <1> DEFINE p == project_proposals[a]
             for == IF vote THEN 1 ELSE 0
             against == IF vote THEN 0 ELSE 1
  <1>1. /\ p \in ProjectProposal /\ now \in Int
        /\ p.organization = o /\ p.status = "Active"
        /\ IsValidContributor(o, v) /\ v \notin p.voters
        /\ ~IsProposalExpired(p.expires_at, now)
        /\ project_proposals' = [project_proposals EXCEPT ![a] = WithVote(o, p, v, vote)]
    BY DEF VoteOnProjectProposal, VoteOnProjectProposalAccounts, HasVoted, ProjectInv, TypeOK, OrgInv
  <1>2. now < p.expires_at
    BY <1>1, I64MaxAssumption DEF IsProposalExpired, ProjectProposal
  <1>3. PICK status \in {"Active", "Approved", "Rejected"} :
          WithVote(o, p, v, vote) = Ballot!Counted(p, v, for, against, status)
    <2> DEFINE outcome(expired) == UpdateProposalStatus(p.votes_for + for, p.votes_against + against,
                     expired, organization[o].parameters.project_proposal_threshold_percentage,
                     ContributorCount(o),
                     organization[o].parameters.contributor_proposal_quorum_percentage)
    <2>1. outcome(FALSE) \in {"Active", "Approved", "Rejected"}
      BY StatusInTime
    <2>2. IsProposalExpired(p.expires_at, now) = FALSE
      BY <1>1 DEF IsProposalExpired
    <2>3. WithVote(o, p, v, vote) =
            Ballot!Counted(p, v, for, against, outcome(IsProposalExpired(p.expires_at, now)))
      BY DEF WithVote, Ballot!Counted
    <2> QED
      BY <2>1, <2>2, <2>3
  <1>4. v \in Contributors(p.organization) \ p.voters
    BY <1>1 DEF IsValidContributor
  <1>5. for \in {0, 1} /\ against = 1 - for
    OBVIOUS
  <1> HIDE DEF for, against
  <1>6. project_proposals' =
          [project_proposals EXCEPT ![a] = Ballot!Counted(p, v, for, 1 - for, status)]
    BY <1>1, <1>3, <1>5
  <1>7. Ballot!Cast(a, v)
    BY <1>1, <1>2, <1>4, <1>5, <1>6 DEF Ballot!Cast
  <1> QED
    BY <1>7 DEF Ballot!BallotsNext

(* What a step does to the proposals is a step of Ballots.                 *)
LEMMA ProjectBallotStep == ProjectInv /\ [Next]_vars => [Ballot!BallotsNext]_project_proposals
  <1> SUFFICES ASSUME ProjectInv, [Next]_vars
               PROVE  Ballot!BallotsNext \/ UNCHANGED project_proposals
    OBVIOUS
  <1>1. CASE Propose
    BY <1>1, ProposeOpensBallot DEF Propose
  <1>2. CASE Vote
    BY <1>2, VoteCastsBallot DEF Vote
  <1>3. CASE Create
    BY <1>3 DEF Create, CreateProject
  <1>4. CASE UNCHANGED vars
    BY <1>4 DEF vars
  <1> QED
    BY <1>1, <1>2, <1>3, <1>4 DEF Next

(* Projects keep the promise of Ballots, for every electorate and order of *)
(* the instructions.                                                       *)
THEOREM ProjectBallotsImplemented == Spec => ProjectBallots
  <1>1. Init => Ballot!BallotsInit
    BY DEF Init, EmptyMap, Ballot!BallotsInit
  <1> QED
    BY <1>1, ProjectBallotStep, ProjectInvariant, PTL
       DEF Spec, ProjectBallots, Ballot!BallotsSpec

-----------------------------------------------------------------------------
(***************************************************************************)
(* Counting.  That a ballot's tallies are the number of its voters follows *)
(* from what Ballots lets a step do to it.                                 *)
(***************************************************************************)
TalliesCounted ==
    \A a \in DOMAIN project_proposals :
        /\ IsFiniteSet(project_proposals[a].voters)
        /\ Cardinality(project_proposals[a].voters) =
             project_proposals[a].votes_for + project_proposals[a].votes_against

(* A ballot that is opened has as many votes as voters, and a vote cast    *)
(* adds one of each.                                                       *)
LEMMA BallotsStayCounted ==
    ASSUME ProjectInv, TalliesCounted, [Ballot!BallotsNext]_project_proposals
    PROVE  TalliesCounted'
  <1> SUFFICES ASSUME NEW b \in DOMAIN project_proposals'
               PROVE  /\ IsFiniteSet(project_proposals'[b].voters)
                      /\ Cardinality(project_proposals'[b].voters) =
                           project_proposals'[b].votes_for + project_proposals'[b].votes_against
    BY DEF TalliesCounted
  <1>1. CASE UNCHANGED project_proposals
    BY <1>1 DEF TalliesCounted
  <1>2. ASSUME NEW a \in DOMAIN project_proposals', Ballot!Open(a)
        PROVE  /\ IsFiniteSet(project_proposals'[b].voters)
               /\ Cardinality(project_proposals'[b].voters) =
                    project_proposals'[b].votes_for + project_proposals'[b].votes_against
    <2>1. CASE b # a
      BY <1>2, <2>1 DEF Ballot!Open, TalliesCounted
    <2>2. CASE b = a /\ project_proposals'[a].voters = {} /\ project_proposals'[a].votes_for = 0
      BY <1>2, <2>2, FS_EmptySet DEF Ballot!Open
    <2>3. ASSUME b = a, NEW voter, project_proposals'[a].voters = {voter},
                 project_proposals'[a].votes_for = 1
          PROVE  /\ IsFiniteSet(project_proposals'[b].voters)
                 /\ Cardinality(project_proposals'[b].voters) =
                      project_proposals'[b].votes_for + project_proposals'[b].votes_against
      <3>1. IsFiniteSet({voter}) /\ Cardinality({voter}) = 1
        BY FS_Singleton
      <3>2. project_proposals'[b].votes_against = 0
        BY <1>2, <2>3 DEF Ballot!Open
      <3> QED
        BY <2>3, <3>1, <3>2
    <2> QED
      BY <1>2, <2>1, <2>2, <2>3 DEF Ballot!Open
  <1>3. ASSUME NEW a \in DOMAIN project_proposals, NEW voter \in Wallets, Ballot!Cast(a, voter)
        PROVE  /\ IsFiniteSet(project_proposals'[b].voters)
               /\ Cardinality(project_proposals'[b].voters) =
                    project_proposals'[b].votes_for + project_proposals'[b].votes_against
    <2> DEFINE p == project_proposals[a]
    <2>1. PICK for \in {0, 1}, status \in {"Active", "Approved", "Rejected"} :
            project_proposals' = [project_proposals EXCEPT ![a] = Ballot!Counted(p, voter, for, 1 - for, status)]
      BY <1>3 DEF Ballot!Cast
    <2>2. /\ p \in ProjectProposal /\ voter \notin p.voters
          /\ IsFiniteSet(p.voters) /\ Cardinality(p.voters) = p.votes_for + p.votes_against
      BY <1>3 DEF ProjectInv, TypeOK, TalliesCounted, Ballot!Cast
    <2>3. p.votes_for \in Nat /\ p.votes_against \in Nat
      BY <2>2 DEF ProjectProposal
    <2> DEFINE counted == Ballot!Counted(p, voter, for, 1 - for, status)
    <2>4. /\ counted.voters = p.voters \cup {voter}
          /\ counted.votes_for = p.votes_for + for
          /\ counted.votes_against = p.votes_against + (1 - for)
      BY <2>2 DEF Ballot!Counted, ProjectProposal
    <2>5. /\ IsFiniteSet(p.voters \cup {voter})
          /\ Cardinality(p.voters \cup {voter}) = Cardinality(p.voters) + 1
      BY <2>2, FS_AddElement
    <2> HIDE DEF p, counted
    <2>6. /\ IsFiniteSet(counted.voters)
          /\ Cardinality(counted.voters) = counted.votes_for + counted.votes_against
      BY <2>2, <2>3, <2>4, <2>5
    <2>7. CASE b = a
      BY <2>1, <2>6, <2>7 DEF counted
    <2>8. CASE b # a
      BY <2>1, <2>8 DEF TalliesCounted
    <2> QED
      BY <2>7, <2>8
  <1> QED
    BY <1>1, <1>2, <1>3 DEF Ballot!BallotsNext

(* In every reachable state a ballot has as many votes as voters.          *)
THEOREM ProjectTalliesCounted == Spec => []TalliesCounted
  <1>1. Init => TalliesCounted
    BY DEF Init, EmptyMap, TalliesCounted
  <1>2. ProjectInv /\ TalliesCounted /\ [Next]_vars => TalliesCounted'
    BY ProjectBallotStep, BallotsStayCounted
  <1> QED
    BY <1>1, <1>2, ProjectInvariant, PTL DEF Spec

(* The status a vote leaves is the one its new tallies give, in the        *)
(* electorate before the vote.                                             *)
LEMMA ProjectVoteStatus ==
    ASSUME NEW p \in ProjectProposal, NEW o, NEW voter \in Wallets, NEW vote \in BOOLEAN
    PROVE  LET u  == WithVote(o, p, voter, vote)
               ps == organization[o].parameters
           IN  u.status = UpdateProposalStatus(u.votes_for, u.votes_against,
                   IsProposalExpired(p.expires_at, now),
                   ps.project_proposal_threshold_percentage, ContributorCount(o),
                   ps.contributor_proposal_quorum_percentage)
  <1> DEFINE st(f, a) == UpdateProposalStatus(f, a, IsProposalExpired(p.expires_at, now),
                organization[o].parameters.project_proposal_threshold_percentage,
                ContributorCount(o),
                organization[o].parameters.contributor_proposal_quorum_percentage)
             f == p.votes_for + (IF vote THEN 1 ELSE 0)
             a == p.votes_against + (IF vote THEN 0 ELSE 1)
             u == [p EXCEPT !.votes_for = f, !.votes_against = a,
                            !.voters = @ \cup {voter}, !.status = st(f, a)]
  <1>1. WithVote(o, p, voter, vote) = u
    BY DEF WithVote
  <1> HIDE DEF st, f, a
  <1>2. u.votes_for = f /\ u.votes_against = a /\ u.status = st(f, a)
    BY DEF ProjectProposal
  <1> QED
    BY <1>1, <1>2 DEF st

(* The deciding vote leaves votes that make both shares.                   *)
LEMMA ProjectVoteEarns ==
    ASSUME ProjectInv, TalliesCounted', NEW v \in Wallets, NEW o \in Orgs,
           NEW a \in DOMAIN project_proposals, NEW vote \in BOOLEAN, NEW tokens \in TokenAmounts,
           VoteOnProjectProposal(v, o, a, vote, tokens),
           project_proposals'[a].status = "Approved"
    PROVE  LET new == project_proposals'[a]
               ps  == organization[project_proposals[a].organization].parameters
           IN  /\ QuorumShare(Cardinality(new.voters),
                     ContributorCount(project_proposals[a].organization),
                     ps.contributor_proposal_quorum_percentage)
               /\ ThresholdShare(new.votes_for, new.votes_against,
                     ps.project_proposal_threshold_percentage)
  <1> DEFINE p  == project_proposals[a]
             u  == WithVote(o, p, v, vote)
             ps == organization[o].parameters
  <1>1. /\ p \in ProjectProposal /\ o \in DOMAIN organization /\ p.organization = o
        /\ project_proposals' = [project_proposals EXCEPT ![a] = u]
    BY DEF ProjectInv, TypeOK, VoteOnProjectProposal, VoteOnProjectProposalAccounts
  <1>2. project_proposals'[a] = u
    BY <1>1
  <1>3. u.status = UpdateProposalStatus(u.votes_for, u.votes_against,
                     IsProposalExpired(p.expires_at, now),
                     ps.project_proposal_threshold_percentage, ContributorCount(o),
                     ps.contributor_proposal_quorum_percentage)
    BY <1>1, ProjectVoteStatus
  <1>4. u \in ProjectProposal
    BY <1>1, VoteOnProposal
  <1>5. u.votes_for \in Nat /\ u.votes_against \in Nat
    BY <1>4 DEF ProjectProposal
  <1> HIDE DEF u
  <1>6. u.votes_for + u.votes_against = Cardinality(u.voters)
    BY <1>1, <1>2 DEF TalliesCounted
  <1>7. /\ ps.project_proposal_threshold_percentage \in Nat
        /\ ps.contributor_proposal_quorum_percentage \in Nat
        /\ ContributorCount(o) \in Nat
    BY <1>1, StoredShares DEF ProjectInv
  <1>8. /\ QuorumShare(u.votes_for + u.votes_against, ContributorCount(o),
              ps.contributor_proposal_quorum_percentage)
        /\ ThresholdShare(u.votes_for, u.votes_against, ps.project_proposal_threshold_percentage)
    <2>1. u.status = "Approved"
      BY <1>2
    <2> HIDE DEF ps, p
    <2> QED
      BY <1>3, <1>5, <1>7, <2>1, ApprovedShares
  <1> QED
    BY <1>1, <1>2, <1>6, <1>8

(* The votes behind every project make the contributors' quorum and the    *)
(* projects' threshold of the electorate that voted, however the program   *)
(* rounds (vote_on_project_proposal, update_proposal_status).              *)
THEOREM ProjectsAreEarned == Spec => ProjectApprovalIsEarned
  <1> DEFINE Earned ==
        \A a \in DOMAIN project_proposals :
          LET old == project_proposals[a]
              new == project_proposals'[a]
              ps  == organization[old.organization].parameters
          IN  old.status = "Active" /\ new.status = "Approved" =>
                /\ QuorumShare(Cardinality(new.voters), ContributorCount(old.organization),
                      ps.contributor_proposal_quorum_percentage)
                /\ ThresholdShare(new.votes_for, new.votes_against,
                      ps.project_proposal_threshold_percentage)
  <1>1. ProjectInv /\ TalliesCounted' /\ [Next]_vars => [Earned]_vars
    <2> SUFFICES ASSUME ProjectInv, TalliesCounted', Next,
                        NEW a \in DOMAIN project_proposals,
                        project_proposals[a].status = "Active",
                        project_proposals'[a].status = "Approved"
                 PROVE  LET old == project_proposals[a]
                            new == project_proposals'[a]
                            ps  == organization[old.organization].parameters
                        IN  /\ QuorumShare(Cardinality(new.voters),
                                  ContributorCount(old.organization),
                                  ps.contributor_proposal_quorum_percentage)
                            /\ ThresholdShare(new.votes_for, new.votes_against,
                                  ps.project_proposal_threshold_percentage)
      OBVIOUS
    <2>1. CASE UNCHANGED project_proposals
      BY <2>1
    <2>2. CASE Propose
      <3>1. project_proposals'[a] = project_proposals[a]
        BY <2>2 DEF Propose, ProposeProject, StoreAccount, ProposeProjectAccounts
      <3> QED
        BY <3>1
    <2>3. CASE Vote
      <3>1. PICK v \in Wallets, o \in Orgs, b \in DOMAIN project_proposals,
                 vote \in BOOLEAN, tokens \in TokenAmounts :
                   VoteOnProjectProposal(v, o, b, vote, tokens)
        BY <2>3 DEF Vote
      <3>2. a = b
        BY <3>1 DEF VoteOnProjectProposal
      <3> QED
        BY <3>1, <3>2, ProjectVoteEarns
    <2> QED
      BY <2>1, <2>2, <2>3 DEF Next, Create, CreateProject
  <1> QED
    BY <1>1, ProjectInvariant, ProjectTalliesCounted, PTL DEF Spec, ProjectApprovalIsEarned
=============================================================================
