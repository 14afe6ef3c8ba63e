SPECIFICATION FairSpec
CONSTANTS
    Transactions = {x1, x2}
    Orgs = {o1}
    Requests = {r1, r2}
    NoTransaction = NoTransaction
INVARIANTS
    TypeOK
    RecordedIsOnChain
    AnsweredIsRecorded
    ResubmissionRefused
PROPERTIES
    LandedIsRecorded
CHECK_DEADLOCK FALSE
