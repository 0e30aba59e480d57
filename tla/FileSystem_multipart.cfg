SPECIFICATION Spec
CONSTANTS
    Key = {k1}
    Upload = {u1}
    PartNo = {2, 10}
    NameOrder <- MCNameOrder
    MaxParts = 3
    PartLists <- MCPartLists
    Contents <- MCContents
    PartContents <- MCPartContents
    Meta = {m1}
    Request = {r1, r2}
    Spare = {i1, i2, i3, i4}
    Blank = Blank
    None = None
    Unknown = Unknown
    Gone = Gone
    Hole = Hole
SYMMETRY Symmetric
VIEW LiveView
INVARIANTS AcknowledgedIsKept UndisturbedReadsAreExact PartsAreListed
