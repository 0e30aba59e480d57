SPECIFICATION FairSpec
CONSTANTS
    Caller = {c1, c2}
    Worker = {w1, w2}
    Parallelism = 2
    Lens = {1, 2}
    MaxOffset = 4
    None = None
INVARIANTS TypeOK NoSilentFailure NothingMissing RangesDisjoint
PROPERTIES CallsReturn
