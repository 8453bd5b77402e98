\* Registry and lifecycle safety with two concurrent tasks, every youki
\* outcome (success, failure, timeout with an abandoned child).
CONSTANTS
    Tasks = {t1, t2}
    Nodes = {n1}
    Ids = {c1, c2}
    Unknown = u
    NoTask = none
    Outcomes <- MCOutcomes
    MaxPolls = 2
    MaxAbandoned = 1
SPECIFICATION Spec
SYMMETRY TaskSymmetry
INVARIANT TypeOK
INVARIANT RegisteredUntilRemoved
INVARIANT RemovedStaysGone
INVARIANT IndexAgrees
PROPERTY ImplementsRegistry
PROPERTY FallbackOnlyInTeardown
VIEW IdleView
