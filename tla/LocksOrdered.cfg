CONSTANTS
    Session = {s1, s2}
    Graph = {1, 2}
    Calls <- Ordered
    Apart = TRUE
SPECIFICATION FairSpec
INVARIANTS NoDeadlock AnswerStands
PROPERTIES CallsReturn
