SPECIFICATION Spec
CONSTANTS
    HighSmall = 2
    HighMedium = 3
    HighLarge = 4
    FastLarge = 3
    UploadLarge = 3
    CopySize = 1
    BlockSize = 2
    Request = {r1, r2}
    Upload = {u1, u2}
    PartNo = {1, 2}
    PartLists <- ClientLists
    Size = {"medium", "large", "smallSealed"}
    Length <- Lengths
    Chunk = {1, 3, 5}
    MaxSent = 3
    MaxParts = 2
    None = None
    Unknown = Unknown
    Gone = Gone
    Garbled = Garbled
    EmptyMD5 = EmptyMD5
SYMMETRY Symmetric
INVARIANTS AcknowledgedIsKept PartsAreKept UndisturbedReadsAreExact BodyIsExact PartsAreListed
