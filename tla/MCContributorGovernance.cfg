SPECIFICATION Spec
CONSTANTS
    w1 = w1
    w2 = w2
    w3 = w3
    o1 = o1
    Wallets = {w1, w2, w3}
    Orgs = {o1}
    ParameterSets <- OneParameterSet
    Rates = {1, 2}
    TokenAmounts = {0}
    MaxNameLength = 1
    MaxContributors = 3
    KeyBytes = 1
    I64Max = 3
    MaxTime = 2
    Timestamps = {0, 1}
    ReplayWindow = 2
    MaxVoters = 3
    MaxProposals = 3
SYMMETRY WalletSymmetry
INVARIANTS
    TypeOK
    BallotsCounted
    NoDuplicateContributors
    MembersWereElected
    MembersHaveAccounts
    NoOverlookedMajority
CHECK_DEADLOCK FALSE
