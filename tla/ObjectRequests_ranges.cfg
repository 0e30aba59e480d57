SPECIFICATION RequestsSpec
CONSTANTS
    Client = {c1, c2}
    Buffer = {b1, b2}
    NoBuffer = NoBuffer
    Content <- Contents4
    SmallBuffer = 1
    SmallFile = 2
    Header <- Ranges
    MaxPuts = 2
SYMMETRY Symmetric
INVARIANTS WholeBodies OnlyFramingIsDropped RangeIsExact BytesInPlace
