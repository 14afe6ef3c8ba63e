SPECIFICATION Spec
CONSTANTS
    w1 = w1
    w2 = w2
    w3 = w3
    o1 = o1
    Wallets = {w1, w2, w3}
    Orgs = {o1}
    ParameterSets <- AllParameterSets
    Rates = {1}
    TokenAmounts = {0, 1}
    MaxNameLength = 2
    MaxContributors = 2
    KeyBytes = 1
    I64Max = 3
    MaxTime = 2
    Timestamps = {0, 1}
    ReplayWindow = 2
    MaxVoters = 3
    MaxProposals = 2
SYMMETRY WalletSymmetry
INVARIANTS
    ApprovedIsMember
PROPERTIES
    ContributorBallots
    ApprovalIsEarned
    OrgSpec
CHECK_DEADLOCK FALSE
