SPECIFICATION Spec
CONSTANTS
    c1 = c1
    c2 = c2
    dbA = dbA
    dbB = dbB
    a = a
    b = b
    val = val
    uniq = uniq
    Coordinator = {c1, c2}
    NoCoordinator = NoCoordinator
    Loader = {c1}
    Pinger = {}
    Database = {dbA}
    DbOf <- OneDatabase
    Term = {a, b}
    File <- Short
    MAX_JOBS = 2
    MAX_SLOTS = 6
    Width = 2
    PingWidth = 1
    Ddl = {uniq}
    Exclusive = {uniq}
    Meanwhile = FALSE
    Outages = {"restart"}
    MaxJobId = 2
PROPERTIES
    OkMeansLoaded
