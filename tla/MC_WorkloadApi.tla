--------------------------- MODULE MC_WorkloadApi ---------------------------
(* Model-checking instance of WorkloadApi: request tasks and workload ids   *)
(* are model values given in the cfg.                                      *)
EXTENDS WorkloadApi, TLC

MCOutcomes == {"ok", "fail"}

ReqSymmetry == Permutations(Reqs)

(* An idle request's path id, definition and reply are never read again. *)
IdleView ==
    <<store, orch, history, pc,
      [t \in Reqs |-> IF Idle(t) THEN NoDef ELSE wid[t]],
      [t \in Reqs |-> IF Idle(t) THEN NoDef ELSE def[t]]>>
=============================================================================
