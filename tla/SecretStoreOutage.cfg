SPECIFICATION Spec
CONSTANTS
    Values = {v1, v2}
    None = None
    Callers = {c1}
    Worlds <- Outages
SYMMETRY Symmetry
INVARIANTS
    SecretIsNotLost
