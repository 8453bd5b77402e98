\* Every call returns, under fair scheduling of the calls under way, with a
\* youki that always answers: its failures and timeouts only end calls sooner.
\* With such a youki no stop or remove may fail (TeardownIdempotent).
CONSTANTS
    Tasks = {t1, t2}
    Nodes = {n1}
    Ids = {c1, c2}
    Unknown = u
    NoTask = none
    Outcomes = {"ok"}
    MaxPolls = 2
    MaxAbandoned = 0
SPECIFICATION Spec
PROPERTY EveryCallReturns
INVARIANT TeardownIdempotent
