SPECIFICATION Spec
CONSTANTS
    Values = {v1, v2}
    None = None
    Callers = {c1}
    Worlds <- LateWrites
SYMMETRY Symmetry
INVARIANTS
    RevocationIsReliable
