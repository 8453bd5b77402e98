---------------------------- MODULE MC_YoukiCli ----------------------------
(* Model-checking instance of YoukiCli: the constants the cfg files give   *)
(* values to, and the symmetry of interchangeable tasks.                   *)
EXTENDS YoukiCli

MCOutcomes == {"ok", "fail", "timeout"}

TaskSymmetry == Permutations(Tasks)

(* What an idle task last worked on is never read again: states that       *)
(* differ only there are the same state.  No action reads `deletes`, and   *)
(* FallbackOnlyInTeardown reads it only for registered ids, which no id   *)
(* becomes again once it has left the registry.                           *)
LOCAL Parked(t, v, idle) == IF pc[t] = "idle" THEN idle ELSE v

IdleView ==
    <<youki, registry, bundles, <<used, returned, removed, deletes \cap Registered>>, pc,
      [t \in Tasks |-> Parked(t, cid[t], Unknown)],
      [t \in Tasks |-> Parked(t, nid[t], CHOOSE n \in Nodes : TRUE)],
      [t \in Tasks |-> Parked(t, polls[t], 0)],
      todo>>
=============================================================================
