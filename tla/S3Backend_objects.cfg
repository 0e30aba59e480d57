SPECIFICATION Spec
CONSTANTS
    n1 = n1
    n2 = n2
    x1 = x1
    Name = {n1, n2}
    Real = {x1}
    RealOf <- MCAlias
    Request = {r1, r2}
    Upload = {u1}
    PartSize = 2
    BodyLen = {0, 1, 2, 3}
    MaxVer = 2
    None = None
SYMMETRY Symmetric
INVARIANTS ReadsSeeAcknowledgedWrites StaleHasCause WholeBodyIsStored UploadsAreAccountedFor
