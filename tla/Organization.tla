----------------------------- MODULE Organization -----------------------------
(***************************************************************************)
(* The organization accounts of the voting program (organization.rs) and   *)
(* the contributor accounts that hang from them: who governs, under which  *)
(* parameters.  Every other component reads this state; only the           *)
(* instructions below, and the approving vote of contributor.rs, write it. *)
(*                                                                         *)
(* An account map is a function whose domain is the set of addresses       *)
(* allocated so far.  An instruction is one atomic action: a failed check  *)
(* anywhere rolls all of it back, so its guard is the conjunction of all   *)
(* its checks.                                                             *)
(***************************************************************************)
EXTENDS VotingRules, Sequences, FiniteSets

CONSTANTS
    Wallets,          \* keys that sign instructions
    Orgs,             \* organization addresses (one per creator and uuid)
    ParameterSets,    \* argument records passed to create and update, valid or not
    Rates,            \* contributor rates
    TokenAmounts,     \* amounts a voter's governance token account may hold
    MaxNameLength,    \* bytes reserved for the name (120)
    MaxContributors,  \* keys reserved for the contributor list (50)
    KeyBytes,         \* bytes of one key (32)
    MaxTime           \* bound of the clock

Parameters ==
    [name_length                                : Nat,
     contributor_proposal_threshold_percentage  : Nat,
     contributor_proposal_validity_period       : Int,
     contributor_validity_period                : Int,
     contributor_proposal_quorum_percentage     : Nat,
     project_proposal_threshold_percentage      : Nat,
     project_proposal_validity_period           : Int,
     minimum_token_requirement                  : Nat,
     treasury_transfer_threshold_percentage     : Nat,
     treasury_transfer_proposal_validity_period : Int,
     treasury_transfer_quorum_percentage        : Nat]

ASSUME OrganizationAssumption ==
    /\ ParameterSets \subseteq Parameters
    /\ Rates \subseteq Nat
    /\ TokenAmounts \subseteq Nat
    /\ MaxNameLength \in Nat
    /\ MaxContributors \in Nat
    /\ KeyBytes \in Nat
    /\ MaxTime \in 0..I64Max

VARIABLES
    now,              \* the chain's clock, in seconds
    organization,     \* organization accounts
    contributor       \* contributor accounts, at <<organization, wallet>>

orgVars == <<now, organization, contributor>>

(* A contributor account that init_if_needed has only zeroed is not        *)
(* represented: its authority is nobody's key, so no instruction tells it  *)
(* from an account that does not exist.                                    *)
OrganizationAccount == [creator : Wallets, contributors : Seq(Wallets),
                        parameters : Parameters]
ContributorAccount  == [rate : Nat, validity_end_time : 0..I64Max, is_active : BOOLEAN]

Contributors(o) == {organization[o].contributors[i] : i \in DOMAIN organization[o].contributors}
ContributorCount(o) == Len(organization[o].contributors)
IsValidContributor(o, key) == key \in Contributors(o)

(* What storing one account does to an account map, taking the address if  *)
(* it was free.                                                            *)
EmptyMap == [address \in {} |-> address]
StoreAccount(accounts, address, account) ==
    [a \in DOMAIN accounts \cup {address} |->
        IF a = address THEN account ELSE accounts[a]]

(* The account was allocated once, at its greatest size: an instruction    *)
(* whose result no longer fits fails.  A short name leaves room for more   *)
(* keys, and a full list leaves none for a longer name.                    *)
OrganizationFits(org) ==
    org.parameters.name_length + KeyBytes * Len(org.contributors)
        <= MaxNameLength + KeyBytes * MaxContributors

(* The clock of the chain never runs backwards. *)
Tick ==
    /\ now < MaxTime
    /\ now' = now + 1
    /\ UNCHANGED <<organization, contributor>>

ValidateParameters(p) ==
    /\ ValidateThreshold(p.contributor_proposal_threshold_percentage)
    /\ ValidateThreshold(p.project_proposal_threshold_percentage)
    /\ ValidateThreshold(p.contributor_proposal_quorum_percentage)
    /\ ValidateValidityPeriod(p.contributor_proposal_validity_period)
    /\ ValidateValidityPeriod(p.contributor_validity_period)
    /\ ValidateValidityPeriod(p.project_proposal_validity_period)
    /\ ValidateThreshold(p.treasury_transfer_threshold_percentage)
    /\ ValidateThreshold(p.treasury_transfer_quorum_percentage)
    /\ ValidateValidityPeriod(p.treasury_transfer_proposal_validity_period)
    /\ p.contributor_proposal_quorum_percentage > 0
    /\ p.treasury_transfer_quorum_percentage > 0
    /\ p.name_length \in 1..MaxNameLength

(* Both accounts are created (init): neither address may be taken. *)
CreateOrganizationAccounts(creator, o) ==
    /\ o \notin DOMAIN organization
    /\ <<o, creator>> \notin DOMAIN contributor

NewContributor(rate, validity_period) ==
    [rate |-> rate, is_active |-> TRUE,
     validity_end_time |-> SaturatingAdd(now, validity_period)]

ValidityPeriod(o) == organization[o].parameters.contributor_validity_period

CreateOrganization(creator, o, parameters, creator_rate) ==
    /\ CreateOrganizationAccounts(creator, o)
    /\ ValidateParameters(parameters)
    /\ organization' = StoreAccount(organization, o,
                         [creator |-> creator, contributors |-> <<creator>>,
                          parameters |-> parameters])
    /\ OrganizationFits(organization'[o])
    /\ contributor' = StoreAccount(contributor, <<o, creator>>,
                        NewContributor(creator_rate, parameters.contributor_validity_period))
    /\ UNCHANGED now

UpdateOrganizationParametersAccounts(creator, o) ==
    /\ o \in DOMAIN organization
    /\ organization[o].creator = creator

(* Every parameter is replaced at once; a ballot in progress is counted    *)
(* with the parameters in force at its next vote.                          *)
UpdateOrganizationParameters(creator, o, parameters) ==
    /\ UpdateOrganizationParametersAccounts(creator, o)
    /\ ValidateParameters(parameters)
    /\ organization' = [organization EXCEPT ![o].parameters = parameters]
    /\ OrganizationFits(organization'[o])
    /\ UNCHANGED <<now, contributor>>

FaultyAdmitWhenFull(o, candidate, rate) ==   \* fault: a full list drops the key silently
    LET org == [organization[o] EXCEPT !.contributors = Append(@, candidate)]
    IN  /\ organization' = IF OrganizationFits(org)
                           THEN [organization EXCEPT ![o] = org] ELSE organization
        /\ contributor' = StoreAccount(contributor, <<o, candidate>>,
                                   NewContributor(rate, ValidityPeriod(o)))
        /\ UNCHANGED now

FaultyAdmitWithoutAccount(o, candidate, rate) == \* fault: only the list is written
    /\ organization' = [organization EXCEPT ![o].contributors = Append(@, candidate)]
    /\ OrganizationFits(organization'[o])
    /\ UNCHANGED <<now, contributor>>

(* What an approving vote on a contributor proposal does to these accounts. *)
AdmitContributor(o, candidate, rate) ==
    /\ organization' = [organization EXCEPT ![o].contributors = Append(@, candidate)]
    /\ OrganizationFits(organization'[o])
    /\ contributor' = StoreAccount(contributor, <<o, candidate>>,
                                   NewContributor(rate, ValidityPeriod(o)))
    /\ UNCHANGED now

RenewContributorAccounts(authority, o) ==
    /\ o \in DOMAIN organization
    /\ <<o, authority>> \in DOMAIN contributor

RenewContributor(authority, o) ==
    /\ RenewContributorAccounts(authority, o)
    /\ IsValidContributor(o, authority)
    /\ contributor' = [contributor EXCEPT
                         ![<<o, authority>>] = NewContributor(@.rate, ValidityPeriod(o))]
    /\ UNCHANGED <<now, organization>>

-----------------------------------------------------------------------------
(***************************************************************************)
(* The organization on its own: contributors are admitted whenever there   *)
(* is one to admit.  It is the environment of the other components and the *)
(* abstract specification that ContributorGovernance implements.           *)
(***************************************************************************)
OrgInit ==
    /\ now = 0
    /\ organization = EmptyMap
    /\ contributor = EmptyMap

Administer ==
    \/ Tick
    \/ \E w \in Wallets, o \in Orgs, p \in ParameterSets :
         \/ \E r \in Rates : CreateOrganization(w, o, p, r)
         \/ UpdateOrganizationParameters(w, o, p)
    \/ \E w \in Wallets, o \in Orgs : RenewContributor(w, o)

AdmitNewContributor(o, candidate, rate) ==
    /\ o \in DOMAIN organization
    /\ ~IsValidContributor(o, candidate)
    /\ AdmitContributor(o, candidate, rate)

OrgNext ==
    \/ Administer
    \/ \E o \in Orgs, c \in Wallets, r \in Rates : AdmitNewContributor(o, c, r)

OrgSpec == OrgInit /\ [][OrgNext]_orgVars
=============================================================================
