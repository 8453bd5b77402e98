---------------------------- MODULE StopDeadline ----------------------------
(***************************************************************************)
(* One stop_container(id) call of YoukiCliRuntime (youki_cli.rs) against   *)
(* a wall clock.  Time is counted in ticks of the loop's 100ms sleep.      *)
(* Every youki call goes through exec_youki and lasts anywhere from no     *)
(* time to the command timeout, where tokio::time::timeout gives up with   *)
(* Err(Timeout).  The container's process may exit at any moment and may   *)
(* ignore SIGTERM.  YoukiCli models the same call among concurrent ones    *)
(* with time abstracted away; this module keeps the time.                  *)
(***************************************************************************)
EXTENDS Naturals

CONSTANTS
    StopTimeout,   \* config.stop_timeout, in ticks
    CmdTimeout,    \* config.command_timeout, in ticks
    PollInterval,  \* the loop's sleep(100ms): one tick
    Epsilon        \* the slack spec 8 allows beyond stop_timeout + interval

ASSUME StopTimeout \in Nat /\ PollInterval \in Nat \ {0}
ASSUME CmdTimeout \in Nat \ {0} /\ Epsilon \in Nat

VARIABLES
    now,       \* ticks since stop_container was called
    deadline,  \* Instant::now() + stop_timeout, taken after SIGTERM
    status,    \* youki's status of the container
    pc         \* where the call is: "term", "poll", "kill", "update",
               \* "ok" (returned Ok) or "err" (returned Err)

vars == <<now, deadline, status, pc>>

(* How long one exec_youki call can take: it answers before the timeout,   *)
(* or it is cut off at the timeout.                                        *)
Durations == 0 .. CmdTimeout

TimedOut(d) == d = CmdTimeout

Init ==
    /\ now = 0
    /\ deadline = 0
    /\ status \in {"created", "running", "stopped", "absent"}
    /\ pc = "term"

(* youki_kill(id, "SIGTERM"), whose error (a timeout included) is only     *)
(* logged; then the deadline is taken.  The process may ignore SIGTERM;    *)
(* the child of a timed-out kill may still deliver it, which Exit covers.  *)
Term ==
    /\ pc = "term"
    /\ \E d \in Durations :
          /\ now' = now + d
          /\ deadline' = now + d + StopTimeout
          /\ status' \in IF ~TimedOut(d) /\ status \in {"created", "running"}
                            THEN {status, "stopped"} ELSE {status}
    /\ pc' = "poll"

(* Mutant: the deadline test written with > instead of >=.               *)
StopPollStrict ==
    /\ pc = "poll"
    /\ \E d \in Durations :
          \/ /\ now' = now + d
             /\ pc' = "err"
          \/ /\ ~TimedOut(d)
             /\ status \in {"stopped", "absent"}
             /\ now' = now + d
             /\ pc' = "update"
          \/ /\ ~TimedOut(d)
             /\ status \in {"created", "running"}
             /\ IF now + d > deadline
                  THEN /\ now' = now + d
                       /\ pc' = "kill"
                  ELSE /\ now' = now + d + PollInterval
                       /\ UNCHANGED pc
    /\ UNCHANGED <<deadline, status>>

(* One iteration: youki_state(id), then stopped or not-found: break;       *)
(* another status with Instant::now() at or past the deadline: SIGKILL;    *)
(* before it: sleep 100ms; Err(Timeout) or another error (a non-zero exit, *)
(* unparsable JSON): return Err.                                           *)
Poll ==
    /\ pc = "poll"
    /\ \E d \in Durations :
          \/ /\ now' = now + d
             /\ pc' = "err"
          \/ /\ ~TimedOut(d)
             /\ status \in {"stopped", "absent"}
             /\ now' = now + d
             /\ pc' = "update"
          \/ /\ ~TimedOut(d)
             /\ status \in {"created", "running"}
             /\ IF now + d >= deadline
                  THEN /\ now' = now + d
                       /\ pc' = "kill"
                  ELSE /\ now' = now + d + PollInterval
                       /\ UNCHANGED pc
    /\ UNCHANGED <<deadline, status>>

(* youki_kill(id, "SIGKILL").await.ok(); break.                            *)
Kill ==
    /\ pc = "kill"
    /\ \E d \in Durations :
          /\ now' = now + d
          /\ status' = IF ~TimedOut(d) /\ status \in {"created", "running"}
                         THEN "stopped" ELSE status
    /\ pc' = "update"
    /\ UNCHANGED deadline

(* containers.write().await.get_mut(id).status = "stopped"; Ok(()).        *)
(* The wait for the write lock is not counted.  It is never held across a *)
(* youki call, but a remove_container holds it across cleanup_bundle's     *)
(* remove_dir_all, which no timeout bounds; the bounds below are those of  *)
(* a stop that finds the lock free, and YoukiCli's EveryCallReturns is     *)
(* what shows the wait ends.                                               *)
Update ==
    /\ pc = "update"
    /\ pc' = "ok"
    /\ UNCHANGED <<now, deadline, status>>

(* The container's process exits by itself.                                *)
Exit ==
    /\ status = "running"
    /\ status' = "stopped"
    /\ UNCHANGED <<now, deadline, pc>>

Next == Term \/ Poll \/ Kill \/ Update \/ Exit

Spec == Init /\ [][Next]_vars

-----------------------------------------------------------------------------
Returned == pc \in {"ok", "err"}

(* The worst case the code allows: SIGTERM cut off at the timeout, the     *)
(* last state poll, begun at the deadline, answering just before the       *)
(* timeout, and SIGKILL cut off at the timeout.                            *)
CodeBound == CmdTimeout + StopTimeout + (CmdTimeout - 1) + CmdTimeout

(* stop_container returns within the bound above whatever youki does and   *)
(* however long the container keeps running: the deadline check ends the  *)
(* loop.                                                                   *)
StopWithinCodeBound == Returned => now <= CodeBound

(* Spec 8: stop_container always returns within stop_timeout + polling     *)
(* interval + epsilon, for any sequence of youki responses.                *)
StopWithinSpecBound == Returned => now <= StopTimeout + PollInterval + Epsilon

=============================================================================
