------------------------- MODULE ContainerRegistry -------------------------
(***************************************************************************)
(* What the container registry promises its callers (spec 3 and 4.2-4.3): *)
(* a map from container id to its owning node and last-known status, in   *)
(* which every lifecycle operation is one atomic step.  create_container   *)
(* adds an entry under an id never seen before, stop_container marks an    *)
(* entry stopped, remove_container takes the entry out for good (and is a  *)
(* no-op on an id without an entry).  An entry's node never changes and a  *)
(* stopped entry never runs again.                                         *)
(*                                                                         *)
(* YoukiCli splits each of these operations over several awaits and two   *)
(* separately locked maps; it implements this module under the mapping    *)
(* given there.                                                            *)
(***************************************************************************)
CONSTANTS
    Ids,    \* the container ids callers can name
    Nodes   \* node ids

VARIABLES
    reg,    \* id -> [node, status]
    gone    \* ids remove_container has completed for

vars == <<reg, gone>>

Entry == [node : Nodes, status : {"running", "stopped"}]

Init ==
    /\ reg = [c \in {} |-> CHOOSE e \in Entry : TRUE]
    /\ gone = {}

(* create_container: a fresh id, registered as running on node n.          *)
Create(c, n) ==
    /\ c \notin DOMAIN reg \cup gone
    /\ reg' = [x \in DOMAIN reg \cup {c} |->
                 IF x = c THEN [node |-> n, status |-> "running"] ELSE reg[x]]
    /\ UNCHANGED gone

(* stop_container: the entry, if there is one, is stopped.                 *)
Stop(c) ==
    /\ c \in DOMAIN reg
    /\ reg' = [reg EXCEPT ![c].status = "stopped"]
    /\ UNCHANGED gone

(* remove_container: the entry, if there is one, is gone for good.         *)
Remove(c) ==
    /\ reg' = [x \in DOMAIN reg \ {c} |-> reg[x]]
    /\ gone' = gone \cup {c}

Next == \E c \in Ids : (\E n \in Nodes : Create(c, n)) \/ Stop(c) \/ Remove(c)

Spec == Init /\ [][Next]_vars
=============================================================================
