CONSTANTS
    s1 = s1  s2 = s2
    Session = {s1, s2}
    NoSession = NoSession
    x = x
    Name = {x}
    NoIri = NoIri
    q = q
    Quad = {q}
    MaxId = 1
    FreshInstall = TRUE
    Calls = {"drop", "clear", "put", "copy", "carve", "move", "lock", "unlock", "staged"}
SPECIFICATION Spec
SYMMETRY Sessions
PROPERTIES TriggersHoldTheFence
