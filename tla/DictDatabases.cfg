SPECIFICATION Spec
CONSTANTS
    b1 = b1
    b2 = b2
    dbA = dbA
    dbB = dbB
    Backend = {b1, b2}
    Database = {dbA, dbB}
    Term = {t1, t2}
    DbOf <- TwoDatabases
    SLOTS = 2
    PROBE_DEPTH = 2
    Home <- Collide
    Nesting = {b1}
    Batching = {b1}
    DdlAfterIntern = FALSE
    MaxEra = 1
    MaxId = 2
    MaxSub = 2
    MaxGen = 1
SYMMETRY Keys
INVARIANTS
    CacheNamesLiveTerms
    OneRowPerTerm

    
