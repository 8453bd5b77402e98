\* A failed create_container leaves a youki container no caller can remove.
CONSTANTS
    Tasks = {t1}
    Nodes = {n1}
    Ids = {c1}
    Unknown = u
    NoTask = none
    Outcomes = {"ok", "fail"}
    MaxPolls = 1
    MaxAbandoned = 0
SPECIFICATION Spec
INVARIANT NoOrphanContainers
