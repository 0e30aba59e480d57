SPECIFICATION Spec
CONSTANTS
    Key = {k1}
    Upload = {u1, u2}
    Data = {x, y}
    Request = {r1, r2, r3}
    MaxDepth = 3
    Failures = TRUE
    Restarts = TRUE
    None = None
SYMMETRY Symmetric
INVARIANTS TransparentUnlessRaced PlaintextHasCause
