SPECIFICATION Spec
CONSTANTS
    Clients = {c1, c2}
    w1 = w1
    w2 = w2
    n1 = n1
    n2 = n2
    Wallets = {w1, w2}
    Orgs = {o1}
    Usernames = {n1, n2}
    Username <- OwnUsername
    MaxFaults = 1
SYMMETRY AnyClients
INVARIANTS
    TypeOK
    DuplicatesBounded
PROPERTIES
    MembersStay
CHECK_DEADLOCK FALSE
