SPECIFICATION Spec
CONSTANTS
    DataKey = {d1, d2}
    Slot = {s1}
    User = {u1}
    UserKind = {"envelope"}
    CallerEvicts = FALSE
    None = None
INVARIANTS KeysAreCached

