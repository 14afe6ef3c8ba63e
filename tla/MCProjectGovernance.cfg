SPECIFICATION Spec
CONSTANTS
    w1 = w1
    w2 = w2
    w3 = w3
    o1 = o1
    u1 = u1
    Wallets = {w1, w2, w3}
    Orgs = {o1}
    ParameterSets <- OneParameterSet
    Rates = {1}
    TokenAmounts = {0}
    MaxNameLength = 1
    MaxContributors = 3
    KeyBytes = 1
    I64Max = 3
    MaxTime = 1
    Titles = {"A", "B"}
    Uuids = {u1}
    MemberLists <- OneMember
    TaskThresholds = {50, 101}
    Periods = {0, 3}
    MaxMembers = 2
    MaxVoters = 3
    MaxProposals = 2
    MaxProjects = 2
SYMMETRY WalletSymmetry
INVARIANTS
    ProjectsWereApproved
    ApprovedHasItsProject
PROPERTIES
    ProjectBallots
    ProjectApprovalIsEarned
    ProjectsSpec
CHECK_DEADLOCK FALSE
