SPECIFICATION FairSpec
CONSTANTS
    DataKey = {d1, d2}
    Slot = {s1}
    User = {u1, u2}
    UserKind = {"envelope", "provider", "custom"}
    CallerEvicts = TRUE
    None = None
INVARIANTS PlaintextIsOwned UnreadableHasCause
PROPERTIES EventuallyWiped
