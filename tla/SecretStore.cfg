SPECIFICATION Spec
CONSTANTS
    Values = {v1, v2}
    None = None
    Callers = {c1, c2, c3}
    Worlds <- SteadyAndUnreliable
SYMMETRY Symmetry
INVARIANTS
    SteadyStoreKeepsPromises
    LastCopyIsKept
