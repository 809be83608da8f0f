CONSTANTS
    s1 = s1  s2 = s2
    Session = {s1, s2}
    NoSession = NoSession
    x = x
    Name = {x}
    NoIri = NoIri
    q = q
    Quad = {q}
    MaxId = 2
    FreshInstall = FALSE
    Calls = {"drop", "put", "move", "lock", "unlock"}
SPECIFICATION Spec
SYMMETRY Sessions
INVARIANTS CatalogAgrees LockCustody
PROPERTIES IdsNeverReused ReasonKept
