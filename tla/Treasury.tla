------------------------------- MODULE Treasury -------------------------------
(***************************************************************************)
(* The treasury of an organization (treasury.rs): the registry of the      *)
(* mints it accepts and the token accounts its treasury authority owns.    *)
(* Token accounts belong to the token program, which is external; here is  *)
(* what the instructions ask of it.  The organization's address stands for *)
(* its treasury authority, the program address that signs its transfers.   *)
(***************************************************************************)
EXTENDS Organization

CONSTANTS
    Mints,            \* token mints
    TokenAccounts,    \* addresses of token accounts
    Amounts,          \* amounts passed to the instructions
    WalletAccounts,   \* the wallets' token accounts in the initial state
    MaxTokens         \* entries a registry may hold (20)

TokenAccount == [mint : Mints, owner : Wallets \cup Orgs, amount : Nat]

ASSUME TreasuryAssumption ==
    /\ Amounts \subseteq Nat
    /\ DOMAIN WalletAccounts \subseteq TokenAccounts
    /\ IsFiniteSet(DOMAIN WalletAccounts)
    /\ \A key \in DOMAIN WalletAccounts :
         /\ WalletAccounts[key] \in TokenAccount
         /\ WalletAccounts[key].owner \in Wallets
    /\ Wallets \cap Orgs = {}
    /\ MaxTokens \in Nat

VARIABLES
    token_registry,   \* registry accounts, at the organization
    token_accounts    \* token accounts of the token program

treasuryVars == <<orgVars, token_registry, token_accounts>>

(* An entry's is_active flag is TRUE from its registration on. *)
RegistryEntry == [mint : Mints, token_account : TokenAccounts]

IsTreasuryAccount(o, mint, key) ==
    /\ key \in DOMAIN token_accounts
    /\ token_accounts[key].mint = mint
    /\ token_accounts[key].owner = o

TokenRegistered(o, mint) ==
    /\ o \in DOMAIN token_registry
    /\ \E i \in DOMAIN token_registry[o] : token_registry[o][i].mint = mint

-----------------------------------------------------------------------------
(* The token program: a new account is empty, and a transfer fails unless  *)
(* its source covers it and both accounts hold one mint.  A transfer from  *)
(* an account to itself leaves it as it was.                               *)
InitializeAccount(key, mint, owner) ==
    /\ key \notin DOMAIN token_accounts
    /\ token_accounts' = StoreAccount(token_accounts, key,
                                      [mint |-> mint, owner |-> owner, amount |-> 0])

TransferTokens(from, to, amount) ==
    /\ from \in DOMAIN token_accounts /\ to \in DOMAIN token_accounts
    /\ token_accounts[from].mint = token_accounts[to].mint
    /\ token_accounts[from].amount >= amount
    /\ token_accounts' = IF from = to THEN token_accounts
         ELSE [token_accounts EXCEPT ![from].amount = @ - amount, ![to].amount = @ + amount]

(* Whoever pays for it may open an account for a wallet or for a treasury. *)
OpenTokenAccount(key, mint, owner) ==
    /\ InitializeAccount(key, mint, owner)
    /\ UNCHANGED <<orgVars, token_registry>>

-----------------------------------------------------------------------------
InitializeTreasuryRegistryAccounts(authority, o) ==
    /\ o \in DOMAIN organization
    /\ organization[o].creator = authority
    /\ o \notin DOMAIN token_registry

InitializeTreasuryRegistry(authority, o) ==
    /\ InitializeTreasuryRegistryAccounts(authority, o)
    /\ token_registry' = StoreAccount(token_registry, o, <<>>)
    /\ UNCHANGED <<orgVars, token_accounts>>

RegisterTreasuryTokenAccounts(authority, o) ==
    /\ o \in DOMAIN organization
    /\ o \in DOMAIN token_registry
    /\ organization[o].creator = authority \/ IsValidContributor(o, authority)

FaultyAppendEntry(entries, mint, key) ==     \* fault: a known mint is entered again
    Append(entries, [mint |-> mint, token_account |-> key])

(* A mint that is registered again gets the new account; the tokens in the *)
(* old one stay there.                                                     *)
WithEntry(entries, mint, key) ==
    IF \E i \in DOMAIN entries : entries[i].mint = mint
    THEN [i \in DOMAIN entries |->
            IF entries[i].mint = mint THEN [entries[i] EXCEPT !.token_account = key]
                                      ELSE entries[i]]
    ELSE Append(entries, [mint |-> mint, token_account |-> key])

RegisterTreasuryToken(authority, o, mint, key) ==
    /\ RegisterTreasuryTokenAccounts(authority, o)
    /\ InitializeAccount(key, mint, o)
    /\ Len(token_registry[o]) < MaxTokens
    /\ token_registry' = [token_registry EXCEPT ![o] = WithEntry(@, mint, key)]
    /\ UNCHANGED orgVars

(* Any treasury account of the mint takes a deposit, the registered one or *)
(* another.                                                                *)
DepositToTreasuryAccounts(depositor, o, from, to) ==
    /\ o \in DOMAIN organization
    /\ to \in DOMAIN token_accounts /\ from \in DOMAIN token_accounts
    /\ IsTreasuryAccount(o, token_accounts[from].mint, to)
    /\ token_accounts[from].owner = depositor

DepositToTreasury(depositor, o, from, to, amount) ==
    /\ DepositToTreasuryAccounts(depositor, o, from, to)
    /\ TokenRegistered(o, token_accounts[from].mint)
    /\ TransferTokens(from, to, amount)
    /\ UNCHANGED <<orgVars, token_registry>>

-----------------------------------------------------------------------------
TreasuryInit ==
    /\ OrgInit
    /\ token_registry = EmptyMap
    /\ token_accounts = WalletAccounts

Fund ==
    \/ \E key \in TokenAccounts, mint \in Mints, owner \in Wallets \cup Orgs :
         OpenTokenAccount(key, mint, owner)
    \/ \E w \in Wallets, o \in Orgs : InitializeTreasuryRegistry(w, o)
    \/ \E w \in Wallets, o \in Orgs, mint \in Mints, key \in TokenAccounts :
         RegisterTreasuryToken(w, o, mint, key)
    \/ \E w \in Wallets, o \in Orgs, from, to \in TokenAccounts, amount \in Amounts :
         DepositToTreasury(w, o, from, to, amount)

TreasuryNext ==
    \/ OrgNext /\ UNCHANGED <<token_registry, token_accounts>>
    \/ Fund

-----------------------------------------------------------------------------
TreasuryTypeOK ==
    /\ DOMAIN token_registry \subseteq DOMAIN organization
    /\ \A o \in DOMAIN token_registry : token_registry[o] \in Seq(RegistryEntry)
    /\ DOMAIN token_accounts \subseteq TokenAccounts
    /\ \A key \in DOMAIN token_accounts : token_accounts[key] \in TokenAccount

(* A registry names each mint once, with an account of that mint which the *)
(* organization's own treasury authority owns, however often the mint is   *)
(* registered again, and it never outgrows its account.                    *)
RegistrySound ==
    \A o \in DOMAIN token_registry :
        /\ Len(token_registry[o]) <= MaxTokens
        /\ \A i \in DOMAIN token_registry[o] :
             IsTreasuryAccount(o, token_registry[o][i].mint, token_registry[o][i].token_account)
        /\ \A i, j \in DOMAIN token_registry[o] :
             token_registry[o][i].mint = token_registry[o][j].mint => i = j
=============================================================================
