SPECIFICATION Spec
CONSTANTS
    s1 = s1  s2 = s2  n1 = n1  a = a  b = b
    Session = {s1, s2}
    NoSession = NoSession
    Named = {n1}
    Triple = {a, b}
    Entails <- MCEntails
    Updates <- MCUpdates
    Appended <- MCAppended
    Materialized <- MCMaterialized
    Lockable = {n1, 0}
    MaxCopy = 2
SYMMETRY MCSymmetry
INVARIANTS NoTwoFromUpdates CurrentIsComplete
 
CHECK_DEADLOCK FALSE
