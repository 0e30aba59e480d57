SPECIFICATION FairSpec
CONSTANTS
    v1 = v1
    v2 = v2
    v3 = v3
    r1 = r1
    other = other
    east = east
    minio = minio
    aws = aws
    alice = alice
    bob = bob
    Unset = Unset
    None = None
    Request = {w, l}
    Lister = l
    Default <- Own
    Bucket <- Names
    Virtual <- Virtual3
    Config <- SharedConfig
    Mapping <- NameMapping
    Key <- Keys3
    Query <- Queries
    MaxWrites = 3
INVARIANTS ListedIsOwn NothingLost ClientsAreShared
PROPERTIES Isolation 
CHECK_DEADLOCK FALSE
