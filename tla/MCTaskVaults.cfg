SPECIFICATION FairSpec
CONSTANTS
    w1 = w1
    w2 = w2
    o1 = o1
    usdc = usdc
    a1 = a1
    t1 = t1
    Wallets = {w1, w2}
    Orgs = {o1}
    ParameterSets <- OneParameterSet
    Rates = {1}
    TokenAmounts = {0}
    MaxNameLength = 1
    MaxContributors = 2
    KeyBytes = 1
    I64Max = 2
    MaxTime = 2
    Mints = {usdc}
    TokenAccounts = {a1, t1}
    Amounts = {1, 2}
    WalletAccounts <- OneWalletAccount
    MaxTokens = 1
    Titles = {"P"}
    Uuids = {}
    MemberLists <- FourEntries
    TaskThresholds = {51}
    Periods = {1}
    MaxMembers = 2
    TaskTitles = {"A", "B"}
    Nobody = Nobody
    MaxTasks = 2
INVARIANTS
    TaskApprovalIsEarned
PROPERTIES
    TaskBallots
    PromiseKept
    FundedTasksArePaid
CHECK_DEADLOCK FALSE
