SPECIFICATION FairCacheSpec
CONSTANTS
    Requests = {r1}
    Keys = {"organization", "organization_members", "price"}
    MaxChanges = 2
    MaxLosses = 1
    None = None
INVARIANTS
    CacheTypeOK
    StaleHasCause
PROPERTIES
    CacheSettles
CHECK_DEADLOCK FALSE
