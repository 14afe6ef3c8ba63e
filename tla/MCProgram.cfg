SPECIFICATION StartSpec
CONSTANTS
    w1 = w1
    w2 = w2
    o1 = o1
    o2 = o2
    usdc = usdc
    a1 = a1
    t1 = t1
    t2 = t2
    u1 = u1
    Wallets = {w1, w2}
    Orgs = {o1, o2}
    ParameterSets <- OneParameterSet
    Rates = {1}
    TokenAmounts = {0}
    MaxNameLength = 1
    MaxContributors = 2
    KeyBytes = 1
    I64Max = 3
    MaxTime = 0
    Mints = {usdc}
    TokenAccounts = {a1, t1, t2}
    Amounts = {1}
    WalletAccounts <- OneWalletAccount
    MaxTokens = 2
    Titles = {"P"}
    Uuids = {}
    MemberLists <- OneMemberList
    TaskThresholds = {51}
    Periods = {1}
    MaxMembers = 2
    Texts <- ShortAndLong
    MaxUrlLength = 1
    MaxDescriptionLength = 1
    Timestamps = {0}
    ReplayWindow = 1
    MaxElections = 1
    MaxProjectProposals = 1
    MaxProjects = 1
    Nonces = {1}
    MaxTransfers = 1
    MaxExecutions = 2
    TaskTitles = {"A"}
    Nobody = Nobody
    MaxTasks = 1
    MaxVoters = 2
INVARIANTS
    TypeOK
    DecisionsAreFunded
    SupplyConserved
    RegistrySound
PROPERTIES
    ChangesAreDeclared
    TreasurySpendsByDecision
CHECK_DEADLOCK FALSE
