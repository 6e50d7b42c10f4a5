SPECIFICATION Spec
CONSTANTS
    Users = {u1, u2, u3}
    Callers = {c1}
    MaxEdges = 3
    None = None
SYMMETRY Symmetry
INVARIANTS
    NoCycle
