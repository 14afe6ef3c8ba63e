------------------------------ MODULE Accounts_proofs ------------------------------
(***************************************************************************)
(* Theorems about the accounts that every component works on, those of     *)
(* Organization and of Treasury, and about VotingRules: organizations are  *)
(* well formed and stay, and no contributor leaves; what the token program *)
(* does to token accounts; that registries stay sound; that a rounded      *)
(* count of votes makes the share it stands for.                           *)
(***************************************************************************)
EXTENDS Treasury, SequenceTheorems, TLAPS

(***************************************************************************)
(* Voting rules.                                                           *)
(***************************************************************************)
(* A quotient that reaches the threshold reaches it in exact fractions.    *)
LEMMA RoundedDownShare ==
    ASSUME NEW for \in Nat, NEW against \in Nat, NEW threshold \in Nat, for + against > 0,
           (for * 100) \div (for + against) >= threshold
    PROVE  ThresholdShare(for, against, threshold)
  <1> DEFINE total == for + against
             q == (for * 100) \div total
  <1>1. total \in Nat \ {0} /\ for * 100 \in Nat
    OBVIOUS
  <1>2. q \in Nat /\ q * total <= for * 100
    <2> HIDE DEF total
    <2> DEFINE n == for * 100
    <2>1. n \in Nat
      OBVIOUS
    <2> HIDE DEF n
    <2>2. n \div total \in Nat /\ (n \div total) * total <= n
      BY <1>1, <2>1, SMTT(30)
    <2> QED
      BY <2>2 DEF n
  <1>3. q >= threshold
    OBVIOUS
  <1> HIDE DEF q
  <1>4. threshold * total <= q * total
    <2> HIDE DEF total
    <2> QED
      BY <1>1, <1>2, <1>3, SMTT(30)
  <1>5. threshold * total \in Nat /\ q * total \in Nat
    BY <1>1, <1>2
  <1>6. 100 * for = for * 100
    OBVIOUS
  <1> QED
    BY <1>2, <1>4, <1>5, <1>6 DEF ThresholdShare

(* Votes that are as many as the rounded-up quorum are the quorum's share  *)
(* of the electorate.                                                      *)
LEMMA RoundedUpQuorum ==
    ASSUME NEW votes \in Nat, NEW electorate \in Nat, NEW quorum \in Nat,
           MeetsQuorumRequirement(votes, electorate, quorum)
    PROVE  QuorumShare(votes, electorate, quorum)
  <1> DEFINE product == electorate * quorum
             least   == (product + 99) \div 100
  <1>1. product \in Nat /\ quorum * electorate = product
    BY SMTT(30)
  <1>2. votes >= least
    BY DEF MeetsQuorumRequirement
  <1> HIDE DEF product
  <1>3. 100 * least >= product
    BY <1>1
  <1>4. least \in Nat
    BY <1>1
  <1> HIDE DEF least
  <1>5. 100 * votes >= product
    BY <1>1, <1>2, <1>3, <1>4
  <1> QED
    BY <1>1, <1>5 DEF QuorumShare

(* The votes that update_proposal_status approves with make the shares of  *)
(* quorum and threshold in exact fractions.                                *)
LEMMA ApprovedShares ==
    ASSUME NEW for \in Nat, NEW against \in Nat, NEW expired, NEW threshold \in Nat,
           NEW electorate \in Nat, NEW quorum \in Nat,
           UpdateProposalStatus(for, against, expired, threshold, electorate, quorum) = "Approved"
    PROVE  /\ QuorumShare(for + against, electorate, quorum)
           /\ ThresholdShare(for, against, threshold)
  <1>1. /\ MeetsQuorumRequirement(for + against, electorate, quorum)
        /\ HasReachedThreshold(for, against, threshold)
    BY DEF UpdateProposalStatus
  <1>2. for + against \in Nat /\ for + against > 0
    BY <1>1 DEF HasReachedThreshold
  <1> QED
    BY <1>1, <1>2, RoundedUpQuorum, RoundedDownShare DEF HasReachedThreshold

-----------------------------------------------------------------------------
(***************************************************************************)
(* Organizations.                                                          *)
(***************************************************************************)

OrgInv ==
    /\ now \in 0..MaxTime
    /\ DOMAIN organization \subseteq Orgs
    /\ \A o \in DOMAIN organization :
         /\ organization[o] \in OrganizationAccount
         /\ ValidateParameters(organization[o].parameters)

(* What every step leaves: the organizations and their contributors.       *)
OrgsStay ==
    \A o \in DOMAIN organization :
        /\ o \in DOMAIN organization'
        /\ Contributors(o) \subseteq Contributors(o)'

-----------------------------------------------------------------------------
(* An expiry is an i64 that is not negative (calculate_expiration), for    *)
(* every period that the checks of the arguments let through.              *)
LEMMA ExpiryType ==
    ASSUME OrgInv, NEW period \in Int, ValidateValidityPeriod(period)
    PROVE  SaturatingAdd(now, period) \in 0..I64Max
  BY I64MaxAssumption, OrganizationAssumption DEF SaturatingAdd, OrgInv, ValidateValidityPeriod

(* The periods stored in an organization pass those checks.                *)
LEMMA StoredPeriods ==
    ASSUME OrgInv, NEW o \in DOMAIN organization
    PROVE  LET p == organization[o].parameters
           IN  /\ p.project_proposal_validity_period \in Int
               /\ ValidateValidityPeriod(p.project_proposal_validity_period)
               /\ p.treasury_transfer_proposal_validity_period \in Int
               /\ ValidateValidityPeriod(p.treasury_transfer_proposal_validity_period)
  <1>1. organization[o].parameters \in Parameters
    BY DEF OrgInv, OrganizationAccount
  <1> QED
    BY <1>1 DEF OrgInv, ValidateParameters, Parameters

(* The shares a vote is counted with, and the electorate, are numbers.     *)
LEMMA StoredShares ==
    ASSUME OrgInv, NEW o \in DOMAIN organization
    PROVE  LET p == organization[o].parameters
           IN  /\ p.contributor_proposal_quorum_percentage \in Nat
               /\ p.project_proposal_threshold_percentage \in Nat
               /\ p.treasury_transfer_threshold_percentage \in Nat
               /\ p.treasury_transfer_quorum_percentage \in Nat
               /\ ContributorCount(o) \in Nat
  <1>1. organization[o].parameters \in Parameters /\ organization[o].contributors \in Seq(Wallets)
    BY DEF OrgInv, OrganizationAccount
  <1> QED
    BY <1>1, LenProperties DEF Parameters, ContributorCount

(* Without organizations there is nothing to be wrong.                     *)
THEOREM OrgInitOK == OrgInit => OrgInv
  BY OrganizationAssumption DEF OrgInit, OrgInv, EmptyMap

(* create_organization takes a free address and leaves the others alone.   *)
LEMMA CreateKeeps ==
    ASSUME OrgInv, NEW w \in Wallets, NEW o \in Orgs, NEW p \in ParameterSets, NEW r \in Rates,
           CreateOrganization(w, o, p, r)
    PROVE  OrgInv' /\ OrgsStay
  <1> DEFINE org == [creator |-> w, contributors |-> <<w>>, parameters |-> p]
  <1>1. p \in Parameters /\ ValidateParameters(p)
    BY OrganizationAssumption DEF CreateOrganization
  <1>2. org \in OrganizationAccount /\ org.parameters = p
    BY <1>1 DEF OrganizationAccount
  <1>3. /\ organization' = StoreAccount(organization, o, org)
        /\ now' = now
        /\ o \notin DOMAIN organization
    BY DEF CreateOrganization, CreateOrganizationAccounts
  <1> HIDE DEF org
  <1>4. /\ DOMAIN organization' = DOMAIN organization \cup {o}
        /\ organization'[o] = org
        /\ \A q \in DOMAIN organization : organization'[q] = organization[q]
    BY <1>3 DEF StoreAccount
  <1>5. OrgInv'
    BY <1>1, <1>2, <1>3, <1>4 DEF OrgInv
  <1>6. OrgsStay
    BY <1>4 DEF OrgsStay, Contributors
  <1> QED
    BY <1>5, <1>6

(* update_organization_parameters leaves the list of contributors alone.   *)
LEMMA UpdateKeeps ==
    ASSUME OrgInv, NEW w \in Wallets, NEW o \in Orgs, NEW p \in ParameterSets,
           UpdateOrganizationParameters(w, o, p)
    PROVE  OrgInv' /\ OrgsStay
  <1>1. p \in Parameters /\ ValidateParameters(p) /\ o \in DOMAIN organization
    BY OrganizationAssumption
    DEF UpdateOrganizationParameters, UpdateOrganizationParametersAccounts
  <1>2. organization' = [organization EXCEPT ![o].parameters = p] /\ now' = now
    BY DEF UpdateOrganizationParameters
  <1>3. OrgInv'
    BY <1>1, <1>2 DEF OrgInv, OrganizationAccount
  <1>4. /\ DOMAIN organization' = DOMAIN organization
        /\ \A q \in DOMAIN organization : organization'[q].contributors = organization[q].contributors
    BY <1>1, <1>2 DEF OrgInv, OrganizationAccount
  <1>5. OrgsStay
    BY <1>4 DEF OrgsStay, Contributors
  <1> QED
    BY <1>3, <1>5

(* An admission puts one key behind the list.                              *)
LEMMA AdmitKeeps ==
    ASSUME OrgInv, NEW o \in DOMAIN organization, NEW c \in Wallets, NEW r,
           AdmitContributor(o, c, r)
    PROVE  OrgInv' /\ OrgsStay
  <1> DEFINE list  == organization[o].contributors
             grown == [organization[o] EXCEPT !.contributors = Append(@, c)]
  <1>1. organization[o] \in OrganizationAccount /\ list \in Seq(Wallets)
    BY DEF OrgInv, OrganizationAccount
  <1>2. /\ Append(list, c) \in Seq(Wallets)
        /\ DOMAIN list \subseteq DOMAIN Append(list, c)
        /\ \A i \in DOMAIN list : Append(list, c)[i] = list[i]
    BY <1>1, AppendProperties
  <1>3. /\ grown \in OrganizationAccount
        /\ grown.parameters = organization[o].parameters
        /\ grown.contributors = Append(list, c)
    BY <1>1, <1>2 DEF OrganizationAccount
  <1>4. /\ DOMAIN organization' = DOMAIN organization
        /\ organization'[o] = grown
        /\ \A q \in DOMAIN organization : q # o => organization'[q] = organization[q]
        /\ now' = now
    BY DEF AdmitContributor
  <1> HIDE DEF grown
  <1>5. OrgInv'
    BY <1>3, <1>4 DEF OrgInv
  <1>6. \A q \in DOMAIN organization : Contributors(q) \subseteq Contributors(q)'
    <2> SUFFICES ASSUME NEW q \in DOMAIN organization, NEW i \in DOMAIN organization[q].contributors
                 PROVE  organization[q].contributors[i] \in Contributors(q)'
      BY DEF Contributors
    <2>1. /\ i \in DOMAIN organization'[q].contributors
          /\ organization'[q].contributors[i] = organization[q].contributors[i]
      BY <1>2, <1>3, <1>4
    <2> QED
      BY <2>1 DEF Contributors
  <1> QED
    BY <1>4, <1>5, <1>6 DEF OrgsStay

(* No step of an organization leaves the types, closes an account or drops *)
(* a contributor.                                                          *)
THEOREM OrgStepOK ==
    ASSUME OrgInv, [OrgNext]_orgVars
    PROVE  OrgInv' /\ OrgsStay
  <1>1. CASE Tick
    BY <1>1, OrganizationAssumption, I64MaxAssumption DEF Tick, OrgInv, OrgsStay, Contributors
  <1>2. CASE \E w \in Wallets, o \in Orgs, p \in ParameterSets, r \in Rates :
               CreateOrganization(w, o, p, r)
    BY <1>2, CreateKeeps
  <1>3. CASE \E w \in Wallets, o \in Orgs, p \in ParameterSets :
               UpdateOrganizationParameters(w, o, p)
    BY <1>3, UpdateKeeps
  <1>4. CASE \E w \in Wallets, o \in Orgs : RenewContributor(w, o)
    <2>1. UNCHANGED <<now, organization>>
      BY <1>4 DEF RenewContributor
    <2> QED
      BY <2>1 DEF OrgInv, OrgsStay, Contributors
  <1>5. CASE \E o \in Orgs, c \in Wallets, r \in Rates : AdmitNewContributor(o, c, r)
    BY <1>5, AdmitKeeps DEF AdmitNewContributor
  <1>6. CASE UNCHANGED orgVars
    BY <1>6 DEF orgVars, OrgInv, OrgsStay, Contributors
  <1> QED
    BY <1>1, <1>2, <1>3, <1>4, <1>5, <1>6 DEF OrgNext, Administer

-----------------------------------------------------------------------------
(***************************************************************************)
(* Treasuries.                                                             *)
(***************************************************************************)

TreasuryInv ==
    /\ OrgInv
    /\ TreasuryTypeOK
    /\ RegistrySound

(* No account is closed, and none changes its mint or its owner.           *)
AccountsStay ==
    \A k \in DOMAIN token_accounts :
        /\ k \in DOMAIN token_accounts'
        /\ token_accounts'[k].mint = token_accounts[k].mint
        /\ token_accounts'[k].owner = token_accounts[k].owner

AccountsTypeOK ==
    /\ DOMAIN token_accounts \subseteq TokenAccounts
    /\ \A key \in DOMAIN token_accounts : token_accounts[key] \in TokenAccount

(* No token leaves an account that an organization owns.                   *)
AccountsOnlyGrow ==
    \A k \in DOMAIN token_accounts :
        token_accounts[k].owner \in Orgs => token_accounts'[k].amount >= token_accounts[k].amount

-----------------------------------------------------------------------------
(* Amounts are numbers.                                                    *)
LEMMA AccountsAmounts ==
    ASSUME AccountsTypeOK
    PROVE  \A k \in DOMAIN token_accounts : token_accounts[k].amount \in Nat
  BY DEF AccountsTypeOK, TokenAccount

(* A transfer moves an amount its source holds, between accounts of one    *)
(* mint, and touches no other account; one from an account to itself       *)
(* leaves it as it was.                                                    *)
LEMMA TransferEffect ==
    ASSUME AccountsTypeOK, NEW from, NEW to, NEW amount \in Nat, TransferTokens(from, to, amount)
    PROVE  /\ AccountsTypeOK'
           /\ DOMAIN token_accounts' = DOMAIN token_accounts
           /\ AccountsStay
           /\ \A k \in DOMAIN token_accounts : k # from /\ k # to =>
                token_accounts'[k] = token_accounts[k]
           /\ from # to =>
                /\ token_accounts'[from].amount = token_accounts[from].amount - amount
                /\ token_accounts'[to].amount = token_accounts[to].amount + amount
           /\ from = to => token_accounts'[from].amount = token_accounts[from].amount
  <1>1. /\ from \in DOMAIN token_accounts /\ to \in DOMAIN token_accounts
        /\ token_accounts[from] \in TokenAccount /\ token_accounts[to] \in TokenAccount
        /\ token_accounts[from].amount >= amount
        /\ token_accounts' = IF from = to THEN token_accounts
             ELSE [token_accounts EXCEPT ![from].amount = @ - amount, ![to].amount = @ + amount]
    BY DEF AccountsTypeOK, TransferTokens
  <1>2. DOMAIN token_accounts' = DOMAIN token_accounts
    BY <1>1
  <1>3. \A k \in DOMAIN token_accounts : k # from /\ k # to => token_accounts'[k] = token_accounts[k]
    BY <1>1
  <1>4. CASE from # to
    <2>1. /\ token_accounts'[from] = [token_accounts[from] EXCEPT !.amount = @ - amount]
          /\ token_accounts'[to] = [token_accounts[to] EXCEPT !.amount = @ + amount]
      BY <1>1, <1>4
    <2> QED
      BY <1>1, <1>2, <1>3, <1>4, <2>1 DEF AccountsTypeOK, AccountsStay, TokenAccount
  <1>5. CASE from = to
    BY <1>1, <1>5 DEF AccountsTypeOK, AccountsStay
  <1> QED
    BY <1>4, <1>5

(* Tokens at rest, or newly opened accounts, leave registries sound: an    *)
(* entry's account stays what it was.                                      *)
LEMMA RegistriesStay ==
    ASSUME TreasuryInv, OrgInv', OrgsStay, AccountsTypeOK', AccountsStay, UNCHANGED token_registry
    PROVE  TreasuryInv'
  <1>1. TreasuryTypeOK'
    BY DEF TreasuryInv, TreasuryTypeOK, OrgsStay, AccountsTypeOK
  <1>2. RegistrySound'
    BY DEF TreasuryInv, RegistrySound, IsTreasuryAccount, AccountsStay
  <1> QED
    BY <1>1, <1>2 DEF TreasuryInv

(* A new account is empty and disturbs no other.                           *)
LEMMA AccountOpened ==
    ASSUME AccountsTypeOK, NEW key \in TokenAccounts, NEW mint \in Mints,
           NEW owner \in Wallets \cup Orgs, InitializeAccount(key, mint, owner)
    PROVE  /\ AccountsTypeOK'
           /\ AccountsStay
           /\ key \notin DOMAIN token_accounts /\ key \in DOMAIN token_accounts'
           /\ token_accounts'[key] = [mint |-> mint, owner |-> owner, amount |-> 0]
           /\ \A k \in DOMAIN token_accounts : token_accounts'[k] = token_accounts[k]
  <1> DEFINE account == [mint |-> mint, owner |-> owner, amount |-> 0]
  <1>1. account \in TokenAccount
    BY DEF TokenAccount
  <1>2. key \notin DOMAIN token_accounts /\ token_accounts' = StoreAccount(token_accounts, key, account)
    BY DEF InitializeAccount
  <1> HIDE DEF account
  <1>3. /\ DOMAIN token_accounts' = DOMAIN token_accounts \cup {key}
        /\ token_accounts'[key] = account
        /\ \A k \in DOMAIN token_accounts : token_accounts'[k] = token_accounts[k]
    BY <1>2 DEF StoreAccount
  <1>4. AccountsTypeOK'
    BY <1>1, <1>3 DEF AccountsTypeOK
  <1> QED
    BY <1>2, <1>3, <1>4 DEF AccountsStay, account

(* A mint that is entered again keeps its place with the new account; a    *)
(* new mint goes to the end.                                               *)
LEMMA EntryEntered ==
    ASSUME NEW entries \in Seq(RegistryEntry), NEW mint \in Mints, NEW key \in TokenAccounts
    PROVE  LET new == WithEntry(entries, mint, key)
           IN  /\ new \in Seq(RegistryEntry)
               /\ Len(new) <= Len(entries) + 1
               /\ \A i \in DOMAIN new :
                    \/ new[i] = [mint |-> mint, token_account |-> key]
                    \/ i \in DOMAIN entries /\ new[i] = entries[i] /\ entries[i].mint # mint
               /\ (\A i, j \in DOMAIN entries : entries[i].mint = entries[j].mint => i = j)
                    => \A i, j \in DOMAIN new : new[i].mint = new[j].mint => i = j
  <1> DEFINE entry == [mint |-> mint, token_account |-> key]
             known == \E i \in DOMAIN entries : entries[i].mint = mint
  <1>1. entry \in RegistryEntry /\ entry.mint = mint
    BY DEF RegistryEntry
  <1>2. DOMAIN entries = 1..Len(entries) /\ Len(entries) \in Nat
    BY LenProperties
  <1>3. CASE ~known
    <2>1. WithEntry(entries, mint, key) = Append(entries, entry)
      BY <1>3 DEF WithEntry
    <2>2. /\ Append(entries, entry) \in Seq(RegistryEntry)
          /\ Len(Append(entries, entry)) = Len(entries) + 1
          /\ \A i \in 1..Len(entries) : Append(entries, entry)[i] = entries[i]
          /\ Append(entries, entry)[Len(entries) + 1] = entry
      BY <1>1, AppendProperties
    <2>3. DOMAIN Append(entries, entry) = 1..(Len(entries) + 1)
      BY <2>2, LenProperties
    <2> HIDE DEF entry
    <2>4. \A i \in 1..(Len(entries) + 1) : i \in 1..Len(entries) \/ i = Len(entries) + 1
      BY <1>2
    <2>5. \A i \in 1..(Len(entries) + 1) :
            \/ i = Len(entries) + 1 /\ Append(entries, entry)[i] = entry
            \/ i \in DOMAIN entries /\ Append(entries, entry)[i] = entries[i]
               /\ entries[i].mint # mint
      BY <1>2, <1>3, <2>2, <2>4
    <2> QED
      BY <1>1, <1>2, <2>1, <2>2, <2>3, <2>5 DEF entry
  <1>4. CASE known
    <2> DEFINE new == [i \in DOMAIN entries |->
                         IF entries[i].mint = mint THEN [entries[i] EXCEPT !.token_account = key]
                                                   ELSE entries[i]]
    <2>1. WithEntry(entries, mint, key) = new
      BY <1>4 DEF WithEntry
    <2>2. \A i \in DOMAIN entries : entries[i] \in RegistryEntry
      BY <1>2, ElementOfSeq
    <2>3. \A i \in DOMAIN entries :
            IF entries[i].mint = mint THEN new[i] = entry ELSE new[i] = entries[i]
      BY <2>2 DEF RegistryEntry
    <2>4. DOMAIN new = 1..Len(entries)
      BY <1>2
    <2>5. new \in [1..Len(entries) -> RegistryEntry]
      <3>1. \A i \in DOMAIN entries :
              (IF entries[i].mint = mint THEN [entries[i] EXCEPT !.token_account = key]
                                         ELSE entries[i]) \in RegistryEntry
        BY <2>2 DEF RegistryEntry
      <3> QED
        BY <1>2, <3>1
    <2>6. new \in Seq(RegistryEntry) /\ Len(new) = Len(entries)
      BY <1>2, <2>4, <2>5, SeqDef
    <2> HIDE DEF new
    <2> QED
      BY <1>1, <1>2, <2>1, <2>3, <2>4, <2>6
  <1> QED
    BY <1>3, <1>4

(* register_treasury_token opens the account it registers.                 *)
LEMMA RegisterKeeps ==
    ASSUME TreasuryInv, NEW w \in Wallets, NEW o \in Orgs, NEW mint \in Mints,
           NEW key \in TokenAccounts, RegisterTreasuryToken(w, o, mint, key)
    PROVE  TreasuryInv' /\ OrgsStay /\ AccountsStay /\ AccountsOnlyGrow
  <1> DEFINE entries == token_registry[o]
             new     == WithEntry(entries, mint, key)
  <1>1. /\ InitializeAccount(key, mint, o)
        /\ o \in DOMAIN token_registry /\ Len(entries) < MaxTokens
        /\ token_registry' = [token_registry EXCEPT ![o] = new]
        /\ UNCHANGED <<now, organization, contributor>>
    BY DEF RegisterTreasuryToken, RegisterTreasuryTokenAccounts, orgVars
  <1>2. OrgInv' /\ OrgsStay
    BY <1>1 DEF TreasuryInv, OrgInv, OrgsStay, Contributors
  <1>3. AccountsTypeOK
    BY DEF TreasuryInv, TreasuryTypeOK, AccountsTypeOK
  <1>4. /\ AccountsTypeOK' /\ AccountsStay /\ key \in DOMAIN token_accounts'
        /\ token_accounts'[key] = [mint |-> mint, owner |-> o, amount |-> 0]
        /\ \A k \in DOMAIN token_accounts : token_accounts'[k] = token_accounts[k]
    BY <1>1, <1>3, AccountOpened
  <1>5. /\ token_accounts'[key].mint = mint
        /\ token_accounts'[key].owner = o
    BY <1>4
  <1>6. entries \in Seq(RegistryEntry) /\ Len(entries) \in Nat
    BY <1>1, LenProperties DEF TreasuryInv, TreasuryTypeOK
  <1>7. /\ new \in Seq(RegistryEntry) /\ Len(new) <= Len(entries) + 1
        /\ \A i \in DOMAIN new :
             \/ new[i] = [mint |-> mint, token_account |-> key]
             \/ i \in DOMAIN entries /\ new[i] = entries[i] /\ entries[i].mint # mint
        /\ \A i, j \in DOMAIN new : new[i].mint = new[j].mint => i = j
    BY <1>1, <1>6, EntryEntered DEF TreasuryInv, RegistrySound
  <1>8. Len(new) \in Nat
    BY <1>7, LenProperties
  <1> HIDE DEF new
  <1>9. /\ DOMAIN token_registry' = DOMAIN token_registry
        /\ token_registry'[o] = new
        /\ \A q \in DOMAIN token_registry : q # o => token_registry'[q] = token_registry[q]
    BY <1>1
  <1>10. TreasuryTypeOK'
    BY <1>2, <1>4, <1>7, <1>9 DEF TreasuryInv, TreasuryTypeOK, OrgsStay, AccountsTypeOK
  <1>11. Len(new) <= MaxTokens
    BY <1>1, <1>6, <1>7, <1>8, TreasuryAssumption
  <1>12. \A i \in DOMAIN new :
           /\ new[i].token_account \in DOMAIN token_accounts'
           /\ token_accounts'[new[i].token_account].mint = new[i].mint
           /\ token_accounts'[new[i].token_account].owner = o
    <2> SUFFICES ASSUME NEW i \in DOMAIN new
                 PROVE  /\ new[i].token_account \in DOMAIN token_accounts'
                        /\ token_accounts'[new[i].token_account].mint = new[i].mint
                        /\ token_accounts'[new[i].token_account].owner = o
      OBVIOUS
    <2>1. CASE new[i] = [mint |-> mint, token_account |-> key]
      BY <1>4, <1>5, <2>1
    <2>2. CASE i \in DOMAIN entries /\ new[i] = entries[i]
      BY <1>1, <1>4, <2>2 DEF TreasuryInv, RegistrySound, IsTreasuryAccount, AccountsStay
    <2> QED
      BY <1>7, <2>1, <2>2
  <1>13. RegistrySound'
    <2> SUFFICES ASSUME NEW q \in DOMAIN token_registry'
                 PROVE  /\ Len(token_registry'[q]) <= MaxTokens
                        /\ \A i \in DOMAIN token_registry'[q] :
                             /\ token_registry'[q][i].token_account \in DOMAIN token_accounts'
                             /\ token_accounts'[token_registry'[q][i].token_account].mint
                                  = token_registry'[q][i].mint
                             /\ token_accounts'[token_registry'[q][i].token_account].owner = q
                        /\ \A i, j \in DOMAIN token_registry'[q] :
                             token_registry'[q][i].mint = token_registry'[q][j].mint => i = j
      BY DEF RegistrySound, IsTreasuryAccount
    <2>1. CASE q = o
      BY <1>7, <1>9, <1>11, <1>12, <2>1
    <2>2. CASE q # o
      BY <1>4, <1>9, <2>2 DEF TreasuryInv, RegistrySound, IsTreasuryAccount, AccountsStay
    <2> QED
      BY <2>1, <2>2
  <1>14. AccountsOnlyGrow
    BY <1>3, <1>4, AccountsAmounts DEF AccountsOnlyGrow
  <1> QED
    BY <1>2, <1>4, <1>10, <1>13, <1>14 DEF TreasuryInv

(* A deposit takes tokens from a wallet's account, and what it moves lands *)
(* in the treasury.                                                        *)
LEMMA DepositKeeps ==
    ASSUME TreasuryInv, NEW w \in Wallets, NEW o \in Orgs, NEW from \in TokenAccounts,
           NEW to \in TokenAccounts, NEW amount \in Amounts,
           DepositToTreasury(w, o, from, to, amount)
    PROVE  TreasuryInv' /\ OrgsStay /\ AccountsStay /\ AccountsOnlyGrow
  <1>1. /\ TransferTokens(from, to, amount)
        /\ from \in DOMAIN token_accounts /\ token_accounts[from].owner = w
        /\ UNCHANGED <<now, organization, contributor, token_registry>>
    BY DEF DepositToTreasury, DepositToTreasuryAccounts, orgVars
  <1>2. OrgInv' /\ OrgsStay
    BY <1>1 DEF TreasuryInv, OrgInv, OrgsStay, Contributors
  <1>3. amount \in Nat /\ w \notin Orgs
    BY TreasuryAssumption
  <1>4. AccountsTypeOK
    BY DEF TreasuryInv, TreasuryTypeOK, AccountsTypeOK
  <1>5. /\ AccountsTypeOK' /\ AccountsStay
        /\ \A k \in DOMAIN token_accounts : k # from /\ k # to =>
                token_accounts'[k] = token_accounts[k]
        /\ from # to => token_accounts'[to].amount = token_accounts[to].amount + amount
    BY <1>1, <1>3, <1>4, TransferEffect
  <1>6. AccountsOnlyGrow
    BY <1>1, <1>3, <1>4, <1>5, AccountsAmounts DEF AccountsOnlyGrow
  <1> QED
    BY <1>1, <1>2, <1>5, <1>6, RegistriesStay

(* A treasury starts without registries and with the wallets' accounts.    *)
THEOREM TreasuryInitOK == TreasuryInit => TreasuryInv
  <1> SUFFICES ASSUME TreasuryInit PROVE TreasuryInv
    OBVIOUS
  <1>1. OrgInv
    BY OrgInitOK DEF TreasuryInit
  <1>2. TreasuryTypeOK /\ RegistrySound
    BY TreasuryAssumption DEF TreasuryInit, OrgInit, EmptyMap, TreasuryTypeOK, RegistrySound
  <1> QED
    BY <1>1, <1>2 DEF TreasuryInv

(* No step that only administers or funds a treasury spoils its registry,  *)
(* closes an account or takes a token out of an organization's account.    *)
THEOREM TreasuryStepOK ==
    ASSUME TreasuryInv, [TreasuryNext]_treasuryVars
    PROVE  TreasuryInv' /\ OrgsStay /\ AccountsStay /\ AccountsOnlyGrow
  <1> USE DEF TreasuryInv
  <1>1. AccountsTypeOK
    BY DEF TreasuryTypeOK, AccountsTypeOK
  <1>2. ASSUME [OrgNext]_orgVars, UNCHANGED <<token_registry, token_accounts>>
        PROVE  TreasuryInv' /\ OrgsStay /\ AccountsStay /\ AccountsOnlyGrow
    <2>1. OrgInv' /\ OrgsStay
      BY <1>2, OrgStepOK
    <2>2. AccountsTypeOK' /\ AccountsStay /\ AccountsOnlyGrow
      BY <1>1, <1>2, AccountsAmounts DEF AccountsTypeOK, AccountsStay, AccountsOnlyGrow
    <2> QED
      BY <1>2, <2>1, <2>2, RegistriesStay
  <1>3. CASE \E key \in TokenAccounts, mint \in Mints, owner \in Wallets \cup Orgs :
               OpenTokenAccount(key, mint, owner)
    <2> PICK key \in TokenAccounts, mint \in Mints, owner \in Wallets \cup Orgs :
               OpenTokenAccount(key, mint, owner)
      BY <1>3
    <2>1. /\ InitializeAccount(key, mint, owner)
          /\ UNCHANGED <<now, organization, contributor, token_registry>>
      BY DEF OpenTokenAccount, orgVars
    <2>2. OrgInv' /\ OrgsStay
      BY <2>1 DEF OrgInv, OrgsStay, Contributors
    <2>3. /\ AccountsTypeOK' /\ AccountsStay
          /\ \A k \in DOMAIN token_accounts : token_accounts'[k] = token_accounts[k]
      BY <1>1, <2>1, AccountOpened
    <2>4. AccountsOnlyGrow
      BY <1>1, <2>3, AccountsAmounts DEF AccountsOnlyGrow
    <2> QED
      BY <2>1, <2>2, <2>3, <2>4, RegistriesStay
  <1>4. CASE \E w \in Wallets, o \in Orgs : InitializeTreasuryRegistry(w, o)
    <2> PICK w \in Wallets, o \in Orgs : InitializeTreasuryRegistry(w, o)
      BY <1>4
    <2>1. /\ token_registry' = StoreAccount(token_registry, o, <<>>)
          /\ o \in DOMAIN organization /\ o \notin DOMAIN token_registry
          /\ UNCHANGED <<now, organization, contributor, token_accounts>>
      BY DEF InitializeTreasuryRegistry, InitializeTreasuryRegistryAccounts, orgVars
    <2>2. OrgInv' /\ OrgsStay
      BY <2>1 DEF OrgInv, OrgsStay, Contributors
    <2>3. AccountsStay /\ AccountsOnlyGrow
      BY <1>1, <2>1, AccountsAmounts DEF AccountsStay, AccountsOnlyGrow
    <2>4. /\ DOMAIN token_registry' = DOMAIN token_registry \cup {o}
          /\ token_registry'[o] = <<>>
          /\ \A q \in DOMAIN token_registry : token_registry'[q] = token_registry[q]
      BY <2>1 DEF StoreAccount
    <2>5. <<>> \in Seq(RegistryEntry) /\ Len(<<>>) = 0 /\ DOMAIN <<>> = {} /\ MaxTokens >= 0
      BY EmptySeq, TreasuryAssumption
    <2>6. TreasuryTypeOK'
      BY <2>1, <2>4, <2>5 DEF TreasuryTypeOK
    <2>7. RegistrySound'
      <3> SUFFICES ASSUME NEW q \in DOMAIN token_registry'
                   PROVE  /\ Len(token_registry'[q]) <= MaxTokens
                          /\ \A i \in DOMAIN token_registry'[q] :
                               /\ token_registry'[q][i].token_account \in DOMAIN token_accounts
                               /\ token_accounts[token_registry'[q][i].token_account].mint
                                    = token_registry'[q][i].mint
                               /\ token_accounts[token_registry'[q][i].token_account].owner = q
                          /\ \A i, j \in DOMAIN token_registry'[q] :
                               token_registry'[q][i].mint = token_registry'[q][j].mint => i = j
        BY <2>1 DEF RegistrySound, IsTreasuryAccount
      <3>1. CASE q = o
        BY <2>4, <2>5, <3>1
      <3>2. CASE q # o
        BY <2>4, <3>2 DEF RegistrySound, IsTreasuryAccount
      <3> QED
        BY <3>1, <3>2
    <2> QED
      BY <2>2, <2>3, <2>6, <2>7
  <1>5. CASE \E w \in Wallets, o \in Orgs, mint \in Mints, key \in TokenAccounts :
               RegisterTreasuryToken(w, o, mint, key)
    BY <1>5, RegisterKeeps
  <1>6. CASE \E w \in Wallets, o \in Orgs, from, to \in TokenAccounts, amount \in Amounts :
               DepositToTreasury(w, o, from, to, amount)
    BY <1>6, DepositKeeps
  <1> QED
    BY <1>2, <1>3, <1>4, <1>5, <1>6 DEF TreasuryNext, Fund, treasuryVars, orgVars
=============================================================================
