SPECIFICATION Spec
CONSTANTS
    k1 = k1
    k2 = k2
    b1 = b1
    Key = {k1, k2}
    Bucket = {b1}
    BucketOf <- MCBucketOf
    Request = {r1, r2}
    PutSize = {"small"}
    HotCap = 1
    MetaCap = 2
    MaxVer = 3
    FailedWritesApply = TRUE
    Multipart = TRUE
    None = None
SYMMETRY Symmetric
INVARIANTS TypeOK ReadsSeeAcknowledgedWrites StaleHasCause
