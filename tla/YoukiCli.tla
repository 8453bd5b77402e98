------------------------------ MODULE YoukiCli ------------------------------
(***************************************************************************)
(* YoukiCliRuntime (container_runtime/src/youki_cli.rs): the registry it   *)
(* keeps (the `containers` and `containers_by_node` maps, each behind a    *)
(* tokio RwLock), the lifecycle operations of its ContainerRuntime impl    *)
(* run by concurrent tokio tasks, and the youki binary those operations    *)
(* drive through exec_youki, whose command timeout abandons the child      *)
(* process rather than killing it.                                         *)
(*                                                                         *)
(* Every `.await` of an operation is a point where other tasks run, so     *)
(* each operation is split into one action per await-to-await segment;    *)
(* pc[t] names the await task t is parked at.                              *)
(***************************************************************************)
EXTENDS Naturals, FiniteSets, Functions, TLC

CONSTANTS
    Tasks,      \* tokio tasks calling into the runtime concurrently
    Nodes,      \* node ids
    Ids,        \* ids create_container may generate ("{name}-{uuid}")
    Unknown,    \* an id no create_container ever returns
    NoTask,     \* the containers write lock is held across no await
    Outcomes,   \* how an exec_youki call may end: a subset of
                \* {"ok", "fail", "timeout"}
    MaxPolls,   \* `youki state` polls after which stop's deadline has
                \* certainly passed (stop_timeout / 100ms)
    MaxAbandoned \* bound: abandoned youki children alive at once

ASSUME Unknown \notin Ids /\ NoTask \notin Tasks
ASSUME "ok" \in Outcomes /\ Outcomes \subseteq {"ok", "fail", "timeout"}
ASSUME MaxPolls \in Nat \ {0}
ASSUME MaxAbandoned \in Nat

AllIds == Ids \cup {Unknown}

VARIABLES
    runtime,    \* youki's own record of each id: "absent", "created",
                \* "running" or "stopped"
    abandoned,  \* youki children whose exec_youki timed out: still running
    containers, \* YoukiCliRuntime.containers: id -> ContainerState
    byNode,     \* YoukiCliRuntime.containers_by_node: node -> ids
    bundles,    \* ids whose bundle directory exists on disk
    writer,     \* task holding containers.write() across an await
    used,       \* ids Uuid::new_v4 has produced
    returned,   \* history: ids create_container returned Ok for
    removed,    \* history: ids remove_container returned Ok for
    deletes,    \* history: ids remove_container has run youki delete on
    failed,     \* history: ids a stop_container or remove_container
                \* returned Err for
    pc,         \* the await each task is parked at ("idle": no call)
    cid,        \* the container id of each task's current call
    nid,        \* the node id of each task's current call
    polls,      \* iterations of stop_container's wait loop so far
    todo        \* ids list_containers has still to query

youki == <<runtime, abandoned>>
registry == <<containers, byNode, writer>>
history == <<used, returned, removed, deletes, failed>>
task == <<pc, cid, nid, polls, todo>>
vars == <<youki, registry, bundles, history, task>>

-----------------------------------------------------------------------------
(* The external youki runtime.                                             *)

RStatus == {"absent", "created", "running", "stopped"}

(* The state changes `youki <cmd>` makes when it runs to completion:       *)
(* <<cmd, from, to>>.  A command with no move from the current status      *)
(* exits non-zero and changes nothing.  SIGTERM ("term") may be handled    *)
(* or ignored by the container's process; SIGKILL ("kill") is not; a       *)
(* created container's init process dies of either signal.                 *)
Moves ==
    { <<"create", "absent", "created">>, <<"start", "created", "running">>,
      <<"term", "created", "stopped">>, <<"term", "running", "stopped">>,
      <<"term", "running", "running">>,
      <<"kill", "created", "stopped">>, <<"kill", "running", "stopped">> }
    \cup { <<"delete", s, "absent">> : s \in RStatus \ {"absent"} }

Succeeds(cmd, s) == \E m \in Moves : m[1] = cmd /\ m[2] = s

After(cmd, s) ==
    IF Succeeds(cmd, s) THEN {m[3] : m \in {m \in Moves : m[1] = cmd /\ m[2] = s}}
                        ELSE {s}

(* How `youki <cmd>` exits, run to completion on a container in status s: *)
(* "success" when it makes a move; otherwise a non-zero exit whose stderr  *)
(* says the container does not exist when youki holds no such id, and     *)
(* names another cause ("refused") when it does.  `youki state` succeeds   *)
(* for every container youki holds.                                        *)
YoukiExit(cmd, s) ==
    CASE cmd = "state" /\ s # "absent" -> "success"
      [] cmd # "state" /\ Succeeds(cmd, s) -> "success"
      [] s = "absent" -> "notexist"
      [] OTHER -> "refused"

(* exec_youki(args): run `youki <cmd> <id> --root <state_root>` under      *)
(* tokio::time::timeout.  "ok": youki ran to completion; "fail": it could  *)
(* not be spawned, or exited non-zero for a reason unrelated to the        *)
(* container's status; "timeout": the output() future was dropped, and     *)
(* the child, spawned without kill_on_drop, goes on to apply its effect    *)
(* later (FinishAbandoned).                                                *)
ExecYouki(cmd, c, o) ==
    \/ /\ o = "ok"
       /\ \E s \in After(cmd, runtime[c]) : runtime' = [runtime EXCEPT ![c] = s]
       /\ UNCHANGED abandoned
    \/ /\ o = "fail"
       /\ UNCHANGED youki
    \/ /\ o = "timeout"
       /\ Cardinality(abandoned) < MaxAbandoned
       /\ abandoned' = abandoned \cup {[cmd |-> cmd, id |-> c]}
       /\ UNCHANGED runtime

(* Mutant: youki_delete without its "not exist"/"not found" exemption: a  *)
(* delete of a container youki no longer holds is an error.                *)
YoukiDeleteStrict(o, s) == o = "ok" /\ YoukiExit("delete", s) = "success"

(* youki_delete(id, force) returns Ok: exec_youki returned, and youki      *)
(* exited 0 or its stderr contains "not exist" or "not found".             *)
YoukiDelete(o, s) == o = "ok" /\ YoukiExit("delete", s) \in {"success", "notexist"}

(* youki_state(id): the status youki reports when it exits 0; "notfound"  *)
(* (ContainerNotFound) when its stderr contains "not exist" or "not       *)
(* found"; "error" for any other exit, and when exec_youki fails.          *)
YoukiState(o, s) ==
    CASE o # "ok" -> "error"
      [] YoukiExit("state", s) = "success" -> s
      [] YoukiExit("state", s) = "notexist" -> "notfound"
      [] OTHER -> "error"

(* An abandoned youki child finishes.                                      *)
FinishAbandoned ==
    \E a \in abandoned :
        /\ \E s \in After(a.cmd, runtime[a.id]) :
              runtime' = [runtime EXCEPT ![a.id] = s]
        /\ abandoned' = abandoned \ {a}
        /\ UNCHANGED <<registry, bundles, history, task>>

(* A container's process exits by itself.                                  *)
ContainerExits ==
    \E c \in AllIds :
        /\ runtime[c] = "running"
        /\ runtime' = [runtime EXCEPT ![c] = "stopped"]
        /\ UNCHANGED <<abandoned, registry, bundles, history, task>>

-----------------------------------------------------------------------------
(* The registry.                                                           *)

(* ContainerState, less the fields no control decision reads (bundle_path  *)
(* is a function of node and id, pid is always None).                      *)
ContainerState == [node : Nodes, status : {"running", "stopped"}]

Registered == DOMAIN containers

Listed(n) == IF n \in DOMAIN byNode THEN byNode[n] ELSE {}

(* The ids a caller can pass: those create_container returned, and one it  *)
(* never did.                                                              *)
Callable == returned \cup {Unknown}

Goto(t, l) == pc' = [pc EXCEPT ![t] = l]

Idle(t) == pc[t] = "idle"

LockFree == writer = NoTask

(* Entering a call with container id c.                                    *)
Enter(t, c, l) ==
    /\ Goto(t, l)
    /\ cid' = [cid EXCEPT ![t] = c]

-----------------------------------------------------------------------------
(* init_node(node_id): create_dir_all(bundle_root/node), then              *)
(* by_node.entry(node_id).or_insert_with(Vec::new).                        *)
InitNode(t, n) ==
    /\ Idle(t)
    /\ byNode' = [m \in DOMAIN byNode \cup {n} |-> Listed(m)]
    /\ UNCHANGED <<youki, containers, writer, bundles, history, task>>

(* create_container, up to the first youki call: a fresh id, the bundle    *)
(* directory, the image pull, the rootfs symlink and the OCI config.  Any  *)
(* of these may fail; the directory is left behind if a later one does.    *)
CreatePrepare(t, n) ==
    /\ Idle(t)
    /\ used # Ids
    /\ LET c == CHOOSE x \in Ids \ used : TRUE IN
       /\ used' = used \cup {c}
       /\ nid' = [nid EXCEPT ![t] = n]
       /\ \/ /\ bundles' = bundles \cup {c}
             /\ Enter(t, c, "c_create")
          \/ /\ bundles' \in {bundles, bundles \cup {c}}
             /\ Enter(t, c, "idle")
    /\ UNCHANGED <<youki, registry, returned, removed, deletes, failed, polls, todo>>

(* youki_create(id, bundle): any error ends create_container with Err.     *)
CreateYouki(t) ==
    LET c == cid[t] IN
    /\ pc[t] = "c_create"
    /\ \E o \in Outcomes :
          /\ ExecYouki("create", c, o)
          /\ Goto(t, IF o = "ok" /\ Succeeds("create", runtime[c])
                        THEN "c_start" ELSE "idle")
    /\ UNCHANGED <<registry, bundles, history, cid, nid, polls, todo>>

(* youki_start(id): any error ends create_container with Err, leaving the  *)
(* created container behind.                                               *)
StartYouki(t) ==
    LET c == cid[t] IN
    /\ pc[t] = "c_start"
    /\ \E o \in Outcomes :
          /\ ExecYouki("start", c, o)
          /\ Goto(t, IF o = "ok" /\ Succeeds("start", runtime[c])
                        THEN "c_insert" ELSE "idle")
    /\ UNCHANGED <<registry, bundles, history, cid, nid, polls, todo>>

(* self.containers.write().await.insert(id, state): the guard is dropped   *)
(* at the end of the statement.                                            *)
CreateInsert(t) ==
    /\ pc[t] = "c_insert"
    /\ LockFree
    /\ containers' = (cid[t] :> [node |-> nid[t], status |-> "running"])
                        @@ containers
    /\ Goto(t, "c_index")
    /\ UNCHANGED <<youki, byNode, writer, bundles, history, cid, nid, polls, todo>>

(* containers_by_node.write().await.entry(node).or_default().push(id);     *)
(* then Ok(container_id).                                                  *)
CreateIndex(t) ==
    /\ pc[t] = "c_index"
    /\ byNode' = [m \in DOMAIN byNode \cup {nid[t]} |->
                    IF m = nid[t] THEN Listed(m) \cup {cid[t]} ELSE byNode[m]]
    /\ returned' = returned \cup {cid[t]}
    /\ Goto(t, "idle")
    /\ UNCHANGED <<youki, containers, writer, bundles, used, removed, deletes, failed,
                   cid, nid, polls, todo>>

-----------------------------------------------------------------------------
(* stop_container(id): youki_kill(id, "SIGTERM"), whose error is only      *)
(* logged; the deadline is taken after it returns.                         *)
StopTerm(t, c) ==
    /\ Idle(t)
    /\ \E o \in Outcomes : ExecYouki("term", c, o)
    /\ Enter(t, c, "s_poll")
    /\ polls' = [polls EXCEPT ![t] = 0]
    /\ UNCHANGED <<registry, bundles, history, nid, todo>>

(* Mutant: the deadline never passes (taken anew on every iteration), so   *)
(* the loop sleeps for as long as the container runs.                      *)
StopPollNoDeadline(t) ==
    LET c == cid[t] IN
    /\ pc[t] = "s_poll"
    /\ \E o \in Outcomes : LET r == YoukiState(o, runtime[c]) IN
          \/ /\ r = "error"
             /\ Goto(t, "idle")
             /\ failed' = failed \cup {c}
          \/ /\ r \in {"stopped", "notfound"}
             /\ Goto(t, "s_update")
             /\ UNCHANGED failed
          \/ /\ r \in {"created", "running"}
             /\ UNCHANGED <<pc, failed>>
    /\ UNCHANGED <<youki, registry, bundles, used, returned, removed, deletes, cid, nid, polls, todo>>

(* Mutant: off by one in the loop bound, one sleep too many.               *)
StopPollOffByOne(t) ==
    LET c == cid[t] IN
    /\ pc[t] = "s_poll"
    /\ \E o \in Outcomes : LET r == YoukiState(o, runtime[c]) IN
          \/ /\ r = "error"
             /\ Goto(t, "idle")
             /\ failed' = failed \cup {c}
             /\ UNCHANGED polls
          \/ /\ r \in {"stopped", "notfound"}
             /\ Goto(t, "s_update")
             /\ UNCHANGED <<failed, polls>>
          \/ /\ r \in {"created", "running"}
             /\ UNCHANGED failed
             /\ \/ /\ Goto(t, "s_kill")
                   /\ UNCHANGED polls
                \/ /\ polls[t] <= MaxPolls
                   /\ polls' = [polls EXCEPT ![t] = @ + 1]
                   /\ UNCHANGED pc
    /\ UNCHANGED <<youki, registry, bundles, used, returned, removed, deletes, cid, nid, todo>>

(* One iteration of the wait loop: youki_state(id), then                   *)
(*   Ok(state) if status == "stopped"  => break                            *)
(*   Ok(_) if now >= deadline          => SIGKILL, break                   *)
(*   Ok(_)                             => sleep 100ms                      *)
(*   Err(ContainerNotFound)            => break                            *)
(*   Err(e)                            => return Err.                      *)
(* Each iteration sleeps 100ms, so after MaxPolls of them the deadline has *)
(* passed; a slow `youki state` can make it pass sooner.                   *)
StopPoll(t) ==
    LET c == cid[t] IN
    /\ pc[t] = "s_poll"
    /\ \E o \in Outcomes : LET r == YoukiState(o, runtime[c]) IN
          \/ /\ r = "error"
             /\ Goto(t, "idle")
             /\ failed' = failed \cup {c}
             /\ UNCHANGED polls
          \/ /\ r \in {"stopped", "notfound"}
             /\ Goto(t, "s_update")
             /\ UNCHANGED <<failed, polls>>
          \/ /\ r \in {"created", "running"}
             /\ UNCHANGED failed
             /\ \/ /\ Goto(t, "s_kill")
                   /\ UNCHANGED polls
                \/ /\ polls[t] < MaxPolls
                   /\ polls' = [polls EXCEPT ![t] = @ + 1]
                   /\ UNCHANGED pc
    /\ UNCHANGED <<youki, registry, bundles, used, returned, removed, deletes, cid, nid, todo>>

(* youki_kill(id, "SIGKILL").await.ok(); break.                            *)
StopKill(t) ==
    /\ pc[t] = "s_kill"
    /\ \E o \in Outcomes : ExecYouki("kill", cid[t], o)
    /\ Goto(t, "s_update")
    /\ UNCHANGED <<registry, bundles, history, cid, nid, polls, todo>>

(* Mutant: the lookup is dropped and every registered entry is marked     *)
(* stopped, so stopping one container changes the status of the others.   *)
StopUpdateAll(t) ==
    /\ pc[t] = "s_update"
    /\ LockFree
    /\ containers' = [c \in Registered |-> [containers[c] EXCEPT !.status = "stopped"]]
    /\ Goto(t, "idle")
    /\ UNCHANGED <<youki, byNode, writer, bundles, history, cid, nid, polls, todo>>

(* if let Some(state) = containers.write().await.get_mut(id) {             *)
(*     state.status = "stopped" }; Ok(()).                                 *)
StopUpdate(t) ==
    /\ pc[t] = "s_update"
    /\ LockFree
    /\ containers' = [c \in Registered |->
                        IF c = cid[t] THEN [containers[c] EXCEPT !.status = "stopped"]
                                      ELSE containers[c]]
    /\ Goto(t, "idle")
    /\ UNCHANGED <<youki, byNode, writer, bundles, history, cid, nid, polls, todo>>

-----------------------------------------------------------------------------
(* Mutant: the registry entry is taken out before youki_delete, so a failed *)
(* delete leaves the container running but unregistered.                   *)
RemoveDeleteLate(t, c) ==
    /\ Idle(t)
    /\ \E o \in Outcomes :
          /\ ExecYouki("delete", c, o)
          /\ deletes' = deletes \cup {c}
          /\ failed' = IF YoukiDelete(o, runtime[c]) THEN failed ELSE failed \cup {c}
          /\ Enter(t, c, IF YoukiDelete(o, runtime[c]) THEN "r_entry" ELSE "idle")
          /\ containers' = IF YoukiDelete(o, runtime[c]) THEN containers
                            ELSE Restrict(containers, Registered \ {c})
    /\ UNCHANGED <<byNode, writer, bundles, used, returned, removed, nid, polls, todo>>

(* Mutant: youki_delete's error is only logged and the removal goes on,   *)
(* as cleanup_bundle's is.                                                 *)
RemoveDeleteIgnoreError(t, c) ==
    /\ Idle(t)
    /\ \E o \in Outcomes :
          /\ ExecYouki("delete", c, o)
          /\ deletes' = deletes \cup {c}
          /\ Enter(t, c, "r_entry")
    /\ UNCHANGED <<registry, bundles, used, returned, removed, failed, nid, polls, todo>>

(* remove_container(id): youki_delete(id, force); a non-zero exit whose    *)
(* stderr says "not exist"/"not found" counts as success, any other        *)
(* error is returned.                                                      *)
RemoveDelete(t, c) ==
    /\ Idle(t)
    /\ \E o \in Outcomes :
          /\ ExecYouki("delete", c, o)
          /\ deletes' = deletes \cup {c}
          /\ failed' = IF YoukiDelete(o, runtime[c]) THEN failed ELSE failed \cup {c}
          /\ Enter(t, c, IF YoukiDelete(o, runtime[c]) THEN "r_entry" ELSE "idle")
    /\ UNCHANGED <<registry, bundles, used, returned, removed, nid, polls, todo>>

(* if let Some(state) = self.containers.write().await.remove(id) { .. }    *)
(* The write guard is a temporary of the `if let` scrutinee, so it lives   *)
(* to the end of the block: across cleanup_bundle().await and the          *)
(* containers_by_node lock.  No entry: Ok(()).                             *)
RemoveEntry(t) ==
    LET c == cid[t] IN
    /\ pc[t] = "r_entry"
    /\ LockFree
    /\ IF c \in Registered
         THEN /\ containers' = Restrict(containers, Registered \ {c})
              /\ nid' = [nid EXCEPT ![t] = containers[c].node]
              /\ writer' = t
              /\ Goto(t, "r_cleanup")
              /\ UNCHANGED removed
         ELSE /\ removed' = removed \cup {c}
              /\ Goto(t, "idle")
              /\ UNCHANGED <<containers, nid, writer>>
    /\ UNCHANGED <<youki, byNode, bundles, used, returned, deletes, failed, cid, polls, todo>>

(* self.cleanup_bundle(&state.bundle_path).await.ok(): remove_dir_all,     *)
(* whose failure is ignored.                                               *)
CleanupBundle(t) ==
    /\ pc[t] = "r_cleanup"
    /\ bundles' \in {bundles \ {cid[t]}, bundles}
    /\ Goto(t, "r_index")
    /\ UNCHANGED <<youki, registry, history, cid, nid, polls, todo>>

(* Mutant: the node index is not pruned.                                   *)
RemoveIndexKeep(t) ==
    /\ pc[t] = "r_index"
    /\ writer' = NoTask
    /\ removed' = removed \cup {cid[t]}
    /\ Goto(t, "idle")
    /\ UNCHANGED <<youki, containers, byNode, bundles, used, returned, deletes, failed, cid, nid, polls, todo>>

(* by_node.get_mut(node).map(|l| l.retain(|id| id != container_id)); both  *)
(* guards drop; Ok(()).                                                    *)
RemoveIndex(t) ==
    /\ pc[t] = "r_index"
    /\ byNode' = [m \in DOMAIN byNode |->
                    IF m = nid[t] THEN byNode[m] \ {cid[t]} ELSE byNode[m]]
    /\ writer' = NoTask
    /\ removed' = removed \cup {cid[t]}
    /\ Goto(t, "idle")
    /\ UNCHANGED <<youki, containers, bundles, used, returned, deletes, failed, cid, nid, polls, todo>>

-----------------------------------------------------------------------------
(* Mutant: `Err(_) =>` in place of `Err(ContainerNotFound(_)) =>`: every *)
(* failed youki state falls back to the registry.                          *)
QueryStateAnyError(t, c, back, done) ==
    /\ \E o \in Outcomes :
          Goto(t, IF YoukiState(o, runtime[c]) \in {"notfound", "error"}
                  THEN back ELSE done)
    /\ UNCHANGED <<youki, registry, bundles, history, nid, polls>>

(* get_container_status(id), first step: youki_state(id).  Ok: the live    *)
(* status; ContainerNotFound: fall back to the registry (label back);      *)
(* any other error: a degraded "unknown" status.  `done` is where the      *)
(* caller resumes.                                                         *)
QueryState(t, c, back, done) ==
    /\ \E o \in Outcomes :
          Goto(t, IF YoukiState(o, runtime[c]) = "notfound" THEN back ELSE done)
    /\ UNCHANGED <<youki, registry, bundles, history, nid, polls>>

(* The fallback: containers.read().await.get(id): the cached status, or    *)
(* Err("Container not found").                                             *)
CacheAnswer(c) == IF c \in Registered THEN containers[c].status ELSE "notfound"

ReadCache(t, done) ==
    /\ LockFree
    /\ Goto(t, done)
    /\ UNCHANGED <<youki, registry, bundles, history, cid, nid, polls, todo>>

GetStatus(t, c) ==
    /\ Idle(t)
    /\ cid' = [cid EXCEPT ![t] = c]
    /\ QueryState(t, c, "g_cache", "idle")
    /\ UNCHANGED todo

GetStatusCache(t) ==
    /\ pc[t] = "g_cache"
    /\ ReadCache(t, "idle")

(* list_containers(node): clone the node's id list under the read lock,    *)
(* drop the guard, then get_container_status on each id in turn (an Err    *)
(* becomes an "unknown" entry).                                            *)
ListSnapshot(t, n) ==
    /\ Idle(t)
    /\ todo' = [todo EXCEPT ![t] = Listed(n)]
    /\ Goto(t, "l_next")
    /\ UNCHANGED <<youki, registry, bundles, history, cid, nid, polls>>

ListNext(t) ==
    /\ pc[t] = "l_next"
    /\ IF todo[t] = {}
         THEN /\ Goto(t, "idle")
              /\ UNCHANGED <<youki, registry, bundles, history, cid, nid, polls, todo>>
         ELSE \E c \in todo[t] :
                 /\ cid' = [cid EXCEPT ![t] = c]
                 /\ todo' = [todo EXCEPT ![t] = @ \ {c}]
                 /\ QueryState(t, c, "l_cache", "l_next")

ListCache(t) ==
    /\ pc[t] = "l_cache"
    /\ ReadCache(t, "l_next")

-----------------------------------------------------------------------------
Init ==
    /\ runtime = [c \in AllIds |-> "absent"]
    /\ abandoned = {}
    /\ containers = [c \in {} |-> [node |-> CHOOSE n \in Nodes : TRUE, status |-> "running"]]
    /\ byNode = [n \in {} |-> {}]
    /\ bundles = {}
    /\ writer = NoTask
    /\ used = {}
    /\ returned = {}
    /\ removed = {}
    /\ deletes = {}
    /\ failed = {}
    /\ pc = [t \in Tasks |-> "idle"]
    /\ cid = [t \in Tasks |-> Unknown]
    /\ nid = [t \in Tasks |-> CHOOSE n \in Nodes : TRUE]
    /\ polls = [t \in Tasks |-> 0]
    /\ todo = [t \in Tasks |-> {}]

(* A call begins.                                                          *)
Call(t) ==
    \/ \E n \in Nodes : InitNode(t, n) \/ CreatePrepare(t, n) \/ ListSnapshot(t, n)
    \/ \E c \in Callable : StopTerm(t, c) \/ RemoveDelete(t, c) \/ GetStatus(t, c)

(* A call already under way takes its next step.                           *)
Step(t) ==
    \/ CreateYouki(t) \/ StartYouki(t) \/ CreateInsert(t) \/ CreateIndex(t)
    \/ StopPoll(t) \/ StopKill(t) \/ StopUpdate(t)
    \/ RemoveEntry(t) \/ CleanupBundle(t) \/ RemoveIndex(t)
    \/ GetStatusCache(t) \/ ListNext(t) \/ ListCache(t)

Next ==
    \/ \E t \in Tasks : Call(t) \/ Step(t)
    \/ FinishAbandoned
    \/ ContainerExits

(* tokio polls every ready task, and its RwLock queues waiters fairly, so  *)
(* a call under way keeps taking steps.  Callers need not make calls, and  *)
(* nothing forces a container to exit or an abandoned child to finish.     *)
Fairness == \A t \in Tasks : WF_vars(Step(t))

Spec == Init /\ [][Next]_vars /\ Fairness

-----------------------------------------------------------------------------
(* Properties.                                                             *)

TypeOK ==
    /\ runtime \in [AllIds -> RStatus]
    /\ abandoned \subseteq [cmd : {"create", "start", "term", "kill", "delete"}, id : AllIds]
    /\ Registered \subseteq Ids
    /\ \A c \in Registered : containers[c] \in ContainerState
    /\ DOMAIN byNode \subseteq Nodes
    /\ \A n \in DOMAIN byNode : byNode[n] \subseteq Ids
    /\ bundles \subseteq Ids
    /\ writer \in Tasks \cup {NoTask}
    /\ returned \subseteq used /\ removed \subseteq AllIds /\ deletes \subseteq AllIds
    /\ failed \subseteq AllIds
    /\ pc \in [Tasks -> {"idle", "c_create", "c_start", "c_insert", "c_index",
                         "s_poll", "s_kill", "s_update",
                         "r_entry", "r_cleanup", "r_index",
                         "g_cache", "l_next", "l_cache"}]
    /\ cid \in [Tasks -> AllIds] /\ nid \in [Tasks -> Nodes]
    /\ polls \in [Tasks -> 0..MaxPolls]
    /\ todo \in [Tasks -> SUBSET Ids]

(* Task t is inside remove_container(c) between taking the entry out of    *)
(* `containers` and retaining it out of `containers_by_node`.              *)
Unindexing(t, c) == pc[t] \in {"r_cleanup", "r_index"} /\ cid[t] = c

(* Task t is inside create_container(c) between the two inserts.           *)
Indexing(t, c) == pc[t] = "c_index" /\ cid[t] = c

(* Spec 3: a registry entry exists while create_container has returned it  *)
(* and remove_container has not: no other operation (a stop racing a       *)
(* remove, a failed remove) takes the entry away before a remove of it     *)
(* succeeds, except inside that remove.                                    *)
RegisteredUntilRemoved ==
    \A c \in returned \ removed :
        c \in Registered \/ \E t \in Tasks : Unindexing(t, c)

(* Spec 3 and 8: once remove_container(c) has returned Ok, c has no        *)
(* registry entry and youki holds no container c, whatever stop or         *)
(* status calls on c were in flight and whatever youki children were       *)
(* abandoned.                                                              *)
RemovedStaysGone ==
    \A c \in removed : c \notin Registered /\ runtime[c] = "absent"

(* Spec 3: the node index and the primary map agree, except in the         *)
(* windows the two separately taken locks leave open in create_container   *)
(* and remove_container.                                                   *)
IndexAgrees ==
    /\ \A n \in DOMAIN byNode : \A c \in byNode[n] :
          \/ c \in Registered /\ containers[c].node = n
          \/ \E t \in Tasks : Unindexing(t, c)
    /\ \A c \in Registered :
          \/ c \in Listed(containers[c].node)
          \/ \E t \in Tasks : Indexing(t, c)

(* Spec 4.2 and 5: every call returns; in particular stop_container's      *)
(* wait loop ends however long the container keeps running, and a call     *)
(* waiting for the containers lock gets it.                                *)
EveryCallReturns == \A t \in Tasks : pc[t] # "idle" ~> pc[t] = "idle"

(* Spec 4.2, 5 and 8: stop, kill and delete are idempotent, and          *)
(* concurrent stop and remove calls on one id each tolerate "already       *)
(* gone".  So with a youki that runs every command to completion, no       *)
(* stop_container or remove_container returns Err: not a second remove of  *)
(* an id, not a stop or remove whose container a racing remove (or its     *)
(* abandoned child) deleted, not a call on an id youki never held.  Youki  *)
(* refuses those with a non-zero exit; this rests on youki_delete and      *)
(* youki_state reading "does not exist" in its stderr as success and as    *)
(* ContainerNotFound.  (A youki that fails or times out makes them fail,   *)
(* as the spec allows; the run checking this lets every call complete.)    *)
TeardownIdempotent == failed = {}

(* Spec 4.2, atomicity of create_container: a create that fails leaves at  *)
(* most on-disk artifacts for remove_container to clean up.  So every      *)
(* container youki holds has an id some caller was given, or a create of   *)
(* it is still under way.                                                  *)
NoOrphanContainers ==
    \A c \in Ids :
        runtime[c] # "absent" =>
            \/ c \in returned
            \/ \E t \in Tasks : cid[t] = c /\ pc[t] \in {"c_start", "c_insert", "c_index"}

(* Spec 4.2 and 8: remove_container erases the bundle directory when it    *)
(* succeeds, so create_container followed by remove_container leaves no    *)
(* bundle directory on disk.                                                *)
BundleGoneAfterRemove == \A c \in removed : c \notin bundles

-----------------------------------------------------------------------------
(* Refinement.  The abstract registry is the primary map, plus the entry   *)
(* remove_container has taken out of it and not yet pruned from the node   *)
(* index: until that last step the remove has not happened, and the entry *)
(* it holds is seen as stopped, so taking it out is a stop.  The inserts  *)
(* of create_container and the status update of stop_container are the    *)
(* abstract create and stop; the other steps change no abstract state.     *)
AbsIds == Registered \cup {c \in Ids : \E t \in Tasks : Unindexing(t, c)}

AbsEntry(c) ==
    IF c \in Registered THEN containers[c]
    ELSE [node |-> nid[CHOOSE t \in Tasks : Unindexing(t, c)], status |-> "stopped"]

Registry == INSTANCE ContainerRegistry
                WITH Ids <- AllIds, reg <- [c \in AbsIds |-> AbsEntry(c)], gone <- removed

(* Spec 3 and 4.2: the registry the concurrent, multi-step operations      *)
(* build behaves as one in which create, stop and remove are atomic: an    *)
(* entry is added only under an id never registered or removed before, a  *)
(* stop only marks an existing entry stopped (never re-inserting one a     *)
(* racing remove took out), an entry's node never changes, and an entry    *)
(* leaves only when its remove completes.                                  *)
ImplementsRegistry == Registry!Spec

(* Task t reads the registry in get_container_status's fallback, for a     *)
(* status call or for one entry of list_containers.                        *)
ReadsCache(t) == pc[t] \in {"g_cache", "l_cache"} /\ pc'[t] # pc[t]

(* Spec 4.2 and 3: the registry is a hint, consulted only for a container  *)
(* the runtime has forgotten whose teardown bookkeeping is incomplete.     *)
(* So a status get_container_status answers from its fallback is one of a *)
(* container youki holds no record of, and a remove_container of it has   *)
(* run youki delete (perhaps timing out, its child finishing later) and    *)
(* not yet returned Ok.  This needs the fallback to be taken on youki's    *)
(* not-found alone, and nothing but a delete to make youki forget a        *)
(* tracked container.                                                      *)
FallbackOnlyInTeardown ==
    [][\A t \in Tasks :
          ReadsCache(t) /\ CacheAnswer(cid[t]) # "notfound" =>
             /\ runtime[cid[t]] = "absent"
             /\ cid[t] \in deletes \ removed]_vars

=============================================================================
