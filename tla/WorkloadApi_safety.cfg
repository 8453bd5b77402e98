CONSTANTS
    Reqs = {r1, r2}
    Wids = {w1}
    NoDef = nodef
    StoreOutcomes <- MCOutcomes
    ChanCap = 1
SYMMETRY ReqSymmetry
SPECIFICATION Spec
INVARIANT TypeOK
VIEW IdleView
