SPECIFICATION Spec
CONSTANTS
    b1 = b1
    b2 = b2
    dbA = dbA
    dbB = dbB
    Backend = {b1, b2}
    Database = {dbA}
    Term = {t1}
    DbOf <- OneDatabase
    SLOTS = 2
    PROBE_DEPTH = 2
    Home <- Collide
    Nesting = {b1, b2}
    Batching = {b1, b2}
    DdlAfterIntern = FALSE
    MaxEra = 2
    MaxId = 2
    MaxSub = 1
    MaxGen = 3
SYMMETRY Sessions
INVARIANTS
    
    CacheNamesLiveTerms
PROPERTIES
    HitsAreSound
    RefinesContract
