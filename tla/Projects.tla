------------------------------- MODULE Projects -------------------------------
(***************************************************************************)
(* Project accounts (state.rs, project.rs): the members an organization    *)
(* has entrusted with tasks.  An account is written once, when a project   *)
(* proposal is approved or when create_project makes one from an approved  *)
(* proposal, and nothing ever changes or closes it: is_active is TRUE from *)
(* then on, and validity_end_time only limits the tasks' ballots.          *)
(***************************************************************************)
EXTENDS Organization

CONSTANTS
    Titles,           \* project titles, each the address of one proposal
    Uuids,            \* uuids passed to create_project
    MemberLists,      \* member lists passed to propose_project
    TaskThresholds,   \* task approval thresholds passed to propose_project
    Periods,          \* validity periods passed to propose_project
    MaxMembers        \* keys reserved for the members (20)

ASSUME ProjectsAssumption ==
    /\ MemberLists \subseteq Seq(Wallets)
    /\ TaskThresholds \subseteq Nat
    /\ Periods \subseteq Int
    /\ MaxMembers \in Nat

VARIABLE projects     \* project accounts, at <<organization, uuid>>

projectVars == <<orgVars, projects>>

(* The uuid a proposal gives its project is cut from the proposal's own    *)
(* address; that address stands for it.                                    *)
ProposalAddresses == Orgs \X Titles
ProjectAddresses  == Orgs \X (Uuids \cup ProposalAddresses)

Project ==
    [organization : Orgs, title : Titles, members : Seq(Wallets),
     task_approval_threshold : 0..100, validity_end_time : 0..I64Max]

Members(project) == {project.members[i] : i \in DOMAIN project.members}

NewProject(o, title, members, threshold, validity_period) ==
    [organization |-> o, title |-> title, members |-> members,
     task_approval_threshold |-> threshold,
     validity_end_time |-> SaturatingAdd(now, validity_period)]

ValidProjectArguments(o, members, threshold, validity_period) ==
    /\ ValidateThreshold(threshold)
    /\ ValidateValidityPeriod(validity_period)
    /\ \A i \in DOMAIN members : IsValidContributor(o, members[i])

-----------------------------------------------------------------------------
(***************************************************************************)
(* Projects on their own: whatever propose_project accepts may become one, *)
(* at a free address.  It is the environment of the tasks and the abstract *)
(* specification that ProjectGovernance implements.                        *)
(***************************************************************************)
ProjectsInit == OrgInit /\ projects = EmptyMap

OpenProject(o, uuid, title, members, threshold, validity_period) ==
    /\ o \in DOMAIN organization
    /\ <<o, uuid>> \notin DOMAIN projects
    /\ ValidProjectArguments(o, members, threshold, validity_period)
    /\ projects' = StoreAccount(projects, <<o, uuid>>,
                      NewProject(o, title, members, threshold, validity_period))
    /\ UNCHANGED orgVars

ProjectsNext ==
    \/ OrgNext /\ UNCHANGED projects
    \/ \E o \in Orgs, uuid \in Uuids \cup ProposalAddresses, title \in Titles,
          members \in MemberLists, threshold \in TaskThresholds, period \in Periods :
         OpenProject(o, uuid, title, members, threshold, period)

ProjectsSpec == ProjectsInit /\ [][ProjectsNext]_projectVars

ProjectsTypeOK ==
    /\ DOMAIN projects \subseteq ProjectAddresses
    /\ \A a \in DOMAIN projects : projects[a] \in Project
=============================================================================
