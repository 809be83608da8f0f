\* Three asserted rows in two graphs, a walk of at most two levels.
CONSTANTS
    Iri <- MCIri
    Blank <- MCBlank
    Literal <- MCLiteral
    Type = "type"
    SubClassOf = "sub"
    SubPropertyOf = "subp"
    DomainOf = "dom"
    RangeOf = "range"
    SameAs = "same"
    Graph <- MCGraph
    MaxDepth = 2
    MaxPairs = 6
    Stored <- MCStored
    Insertable <- MCInsertable
    MaxRows = 3
    Paths <- MCPaths
    Ends <- MCEnds
    TermOrder <- MCTermOrder
    MaxPermutationGroup = 2
    MaxRecursionDepth = 32
    DiffMaxRows = 8
    Narrows <- MCNarrows
SPECIFICATION Spec
INVARIANT WalksAreSparql
INVARIANT CutsAreExact
INVARIANT ShortcutIsClosure
INVARIANT ClosureIsEntailment
INVARIANT DigestsNest
INVARIANT DiffIsExact
