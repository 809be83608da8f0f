SPECIFICATION UpdateSpec
CONSTANTS
    Var <- MCVar
    Term <- MCTerm
    Numeral <- MCNumeral
    ValueOf <- MCValueOf
    Named = {1, 2}
    IriOf <- MCIriOf
    Null = "NULL"
    Lex <- MCLex
    LexRank <- MCLexRank
    Blank <- MCBlank
    Text <- MCText
    Label = {"_r", "_t"}
    MaxQuads = 6
    Queries <- MCQueries
    Datasets <- MCDatasets
INVARIANTS
    AnswersAreSparql
    PagesAreOrdered
    JoinsStayConnected
    ConstructIsSparql
    DescribeIsClosure
PROPERTIES
    RoundTripIsExact
    UpdatesAreSparql
CHECK_DEADLOCK FALSE
