SPECIFICATION Spec
CONSTANTS
    w1 = w1
    w2 = w2
    w3 = w3
    o1 = o1
    usdc = usdc
    a1 = a1
    t1 = t1
    Wallets = {w1, w2, w3}
    Orgs = {o1}
    ParameterSets <- OneParameterSet
    Rates = {1}
    TokenAmounts = {0}
    MaxNameLength = 1
    MaxContributors = 3
    KeyBytes = 1
    I64Max = 3
    MaxTime = 1
    Mints = {usdc}
    TokenAccounts = {a1, t1}
    Amounts = {1, 2}
    WalletAccounts <- OneWalletAccount
    MaxTokens = 2
    Nonces = {1}
    MaxVoters = 3
    MaxTransfers = 2
    MaxExecutions = 2
SYMMETRY OtherWallets
INVARIANT ApprovalMeetsThreshold
CHECK_DEADLOCK FALSE
