\* One task, a youki that always succeeds: a create then a remove whose
\* remove_dir_all of the bundle fails, an error remove_container discards.
CONSTANTS
    Tasks = {t1}
    Nodes = {n1}
    Ids = {c1}
    Unknown = u
    NoTask = none
    Outcomes = {"ok"}
    MaxPolls = 1
    MaxAbandoned = 0
SPECIFICATION Spec
INVARIANT BundleGoneAfterRemove
