\* A load is one transaction and none is bound to follow another: when the
\* last has ended the sessions rest.
SPECIFICATION Spec
CONSTANTS
    Session = {s1, s2}
    Document <- MCDocument
    Name = {"k", "n"}
    Known <- MCKnown
    BATCH = 2
    DictBatch = 2
    BULK = 2
    DeferMin = 2
    Window = 1
    Block = 2
    SniffLines = 2
    Calls <- MCCalls
    MaxLoads = 2
INVARIANTS
    RowsAreTheDocuments
    OneRowPerTerm
    DigestOfLatest
    
PROPERTY
    LoadsReturn
CHECK_DEADLOCK FALSE
