------------------------------ MODULE MC_UiCli ------------------------------
(* Model-checking instance of UiCli.  A finished invocation's arguments   *)
(* and intermediate results are never read again; the view keeps of them  *)
(* only what the properties look at.                                       *)
EXTENDS UiCli

LOCAL Parked(c, v, idle) == IF Idle(c) THEN idle ELSE v

IdleView ==
    <<server, pc,
      [c \in Clis |-> Parked(c, ref[c], None)],
      [c \in Clis |-> Parked(c, target[c], None)],
      [c \in Clis |-> Parked(c, listing[c], {})],
      [c \in Clis |-> Parked(c, reply[c], None)],
      [c \in Clis |-> Parked(c, <<arg[c], sent[c]>>, EnvSent(c))]>>
=============================================================================
