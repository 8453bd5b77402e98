CONSTANTS
    Reqs = {r1, r2}
    Wids = {w1}
    NoDef = nodef
    StoreOutcomes = {"ok"}
    ChanCap = 1
SPECIFICATION Spec
INVARIANT DeletedStaysDeleted
