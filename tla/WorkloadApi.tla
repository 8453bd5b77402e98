----------------------------- MODULE WorkloadApi -----------------------------
(***************************************************************************)
(* The workload, node and cluster handlers of the orchestrator's HTTP API  *)
(* (orchestrator_core/src/api/handlers.rs), run by concurrent axum         *)
(* requests.  Each handler is split at its awaits: every state-store call  *)
(* is one atomic step that may fail, and workload_tx.send() is a step on   *)
(* the bounded mpsc channel that waits while the channel is full and fails *)
(* once the orchestrator's receiver is gone.  The orchestrator that drains *)
(* the channel is not in this repository; it is the environment here.      *)
(***************************************************************************)
EXTENDS Naturals, Sequences, FiniteSets

CONSTANTS
    Reqs,           \* concurrent request tasks
    Wids,           \* workload ids (Uuid::new_v4 draws a fresh one)
    NoDef,          \* a store with no workload under an id
    StoreOutcomes,  \* what a state-store call may do: "ok", "fail"
    ChanCap         \* the capacity of the workload_tx channel

ASSUME StoreOutcomes \subseteq {"ok", "fail"} /\ "ok" \in StoreOutcomes
ASSUME ChanCap \in Nat \ {0}

(* A request body (CreateWorkloadRequest) as the handlers' checks see it:  *)
(* a non-empty name, a non-empty container list, and the replica count.    *)
Bodies == [named : BOOLEAN, hasContainers : BOOLEAN, replicas : {0, 1}]

(* A WorkloadDefinition: its id, its replica count and the request that    *)
(* wrote it, which tells two versions of one workload apart.               *)
Defs == [id : Wids, replicas : {0, 1}, by : Reqs]

Replies == {"none", "created", "updated", "nocontent", "ok", "invalid",
            "notfound", "error"}

VARIABLES
    wl,        \* state_store's workloads: id -> definition or NoDef
    inst,      \* ids whose workload has instances in state_store
    chan,      \* the workload_tx channel, oldest first
    rxOpen,    \* the orchestrator's receiver still exists
    view,      \* the definition the orchestrator last received per id
    senders,   \* requests in send(), in the order they asked for a permit
    used,      \* ids handed out by Uuid::new_v4
    sent,      \* every definition ever sent on workload_tx
    deleted,   \* ids delete_workload answered 204 for
    pc,        \* per request: the await it is at, "idle" between requests
    wid,       \* per request: the workload id in its path
    def,       \* per request: the definition it built
    reply      \* per request: the response it returned

store == <<wl, inst>>
orch == <<chan, rxOpen, view, senders>>
history == <<used, sent, deleted>>
task == <<pc, wid, def, reply>>
vars == <<store, orch, history, task>>

Idle(t) == pc[t] = "idle"

(* Move request t to the next await; the request's data stays.             *)
Goto(t, p) == pc' = [pc EXCEPT ![t] = p]

(* Return from the handler with the given response.                        *)
Return(t, r) ==
    /\ pc' = [pc EXCEPT ![t] = "idle"]
    /\ reply' = [reply EXCEPT ![t] = r]

(* The checks create_workload makes on the body before any await.          *)
CreateValid(b) == b.named /\ b.hasContainers /\ b.replicas >= 1

(* The checks update_workload makes: the replica count is not checked.     *)
UpdateValid(b) == b.named /\ b.hasContainers

Init ==
    /\ wl = [w \in Wids |-> NoDef]
    /\ inst = {}
    /\ chan = <<>>
    /\ rxOpen = TRUE
    /\ view = [w \in Wids |-> NoDef]
    /\ senders = <<>>
    /\ used = {}
    /\ sent = {}
    /\ deleted = {}
    /\ pc = [t \in Reqs |-> "idle"]
    /\ wid = [t \in Reqs |-> CHOOSE w \in Wids : TRUE]
    /\ def = [t \in Reqs |-> NoDef]
    /\ reply = [t \in Reqs |-> "none"]
-----------------------------------------------------------------------------
(* POST /workloads: create_workload validates the body and converts it     *)
(* (From<CreateWorkloadRequest>, with a fresh Uuid) before its first await.*)
CallCreate(t) ==
    /\ Idle(t)
    /\ \E b \in Bodies :
          \/ /\ ~CreateValid(b)
             /\ reply' = [reply EXCEPT ![t] = "invalid"]
             /\ UNCHANGED <<pc, wid, def, used>>
          \/ /\ CreateValid(b)
             /\ \E w \in Wids \ used :
                   /\ used' = used \cup {w}
                   /\ wid' = [wid EXCEPT ![t] = w]
                   /\ def' = [def EXCEPT ![t] =
                                 [id |-> w, replicas |-> b.replicas, by |-> t]]
             /\ Goto(t, "c_put")
             /\ reply' = [reply EXCEPT ![t] = "none"]
    /\ UNCHANGED <<store, orch, sent, deleted>>

(* Every other handler starts with an await.  The handlers with a path id  *)
(* get it here; update's body is chosen where it is first read.            *)
PathHandlers == [update |-> "u_get", delete |-> "d_get", get |-> "g_get",
                 instances |-> "i_get"]
PlainHandlers == [list |-> "l_list", nodes |-> "n_list", node |-> "n_get",
                  status |-> "s_nodes"]

CallOther(t) ==
    /\ Idle(t)
    /\ \/ \E k \in DOMAIN PathHandlers, w \in Wids :
             /\ wid' = [wid EXCEPT ![t] = w]
             /\ Goto(t, PathHandlers[k])
       \/ \E k \in DOMAIN PlainHandlers :
             /\ Goto(t, PlainHandlers[k])
             /\ UNCHANGED wid
    /\ reply' = [reply EXCEPT ![t] = "none"]
    /\ UNCHANGED <<store, orch, history, def>>

(* state_store.put_workload(workload): create_workload and update_workload *)
(* store the definition they built, or fail with the store's error.        *)
PutWorkload(t, p, next) ==
    /\ pc[t] = p
    /\ \E o \in StoreOutcomes :
          \/ /\ o = "ok"
             /\ wl' = [wl EXCEPT ![def[t].id] = def[t]]
             /\ Goto(t, next)
             /\ UNCHANGED reply
          \/ /\ o = "fail"
             /\ Return(t, "error")
             /\ UNCHANGED wl
    /\ UNCHANGED <<inst, orch, history, wid, def>>

(* workload_tx.send(workload).await.  Tokio's bounded channel hands out    *)
(* slots through a fair semaphore: a sender takes a free slot at once only *)
(* when nobody is waiting, and otherwise queues; the oldest waiter gets    *)
(* the next free slot.  Dropping the receiver fails every waiting send.    *)
Waiting(t) == \E i \in 1 .. Len(senders) : senders[i] = t

Permitted(t) ==
    /\ rxOpen
    /\ Len(chan) < ChanCap
    /\ IF Waiting(t) THEN Head(senders) = t ELSE senders = <<>>

Deliver(t, ok) ==
    /\ chan' = Append(chan, def[t])
    /\ sent' = sent \cup {def[t]}
    /\ senders' = SelectSeq(senders, LAMBDA x : x # t)
    /\ Return(t, ok)

Enqueue(t) ==
    /\ rxOpen
    /\ ~Waiting(t)
    /\ ~Permitted(t)
    /\ senders' = Append(senders, t)
    /\ UNCHANGED <<chan, sent, pc, reply>>

Closed(t, r) ==
    /\ ~rxOpen
    /\ senders' = SelectSeq(senders, LAMBDA x : x # t)
    /\ Return(t, r)
    /\ UNCHANGED <<chan, sent>>

(* Mutant: the channel's capacity is not respected (an unbounded channel). *)
SendWorkloadUnbounded(t, p, ok) ==
    /\ pc[t] = p
    /\ \/ /\ rxOpen
          /\ IF Waiting(t) THEN Head(senders) = t ELSE senders = <<>>
          /\ Deliver(t, ok)
       \/ Enqueue(t)
       \/ Closed(t, "error")
    /\ UNCHANGED <<store, rxOpen, view, used, deleted, wid, def>>

SendWorkload(t, p, ok) ==
    /\ pc[t] = p
    /\ \/ Permitted(t) /\ Deliver(t, ok)
       \/ Enqueue(t)
       \/ Closed(t, "error")
    /\ UNCHANGED <<store, rxOpen, view, used, deleted, wid, def>>

CreatePut(t) == PutWorkload(t, "c_put", "c_send")
CreateSend(t) == SendWorkload(t, "c_send", "created")

(* update_workload: get_workload(id), NotFound when absent, then the       *)
(* body's checks, then the definition with the same id.                    *)
UpdateGet(t) ==
    /\ pc[t] = "u_get"
    /\ \E o \in StoreOutcomes, b \in Bodies :
          \/ /\ o = "fail"
             /\ Return(t, "error")
             /\ UNCHANGED def
          \/ /\ o = "ok"
             /\ wl[wid[t]] = NoDef
             /\ Return(t, "notfound")
             /\ UNCHANGED def
          \/ /\ o = "ok"
             /\ wl[wid[t]] # NoDef
             /\ ~UpdateValid(b)
             /\ Return(t, "invalid")
             /\ UNCHANGED def
          \/ /\ o = "ok"
             /\ wl[wid[t]] # NoDef
             /\ UpdateValid(b)
             /\ def' = [def EXCEPT ![t] = [id |-> wid[t],
                                           replicas |-> b.replicas,
                                           by |-> t]]
             /\ Goto(t, "u_put")
             /\ UNCHANGED reply
    /\ UNCHANGED <<store, orch, history, wid>>

UpdatePut(t) == PutWorkload(t, "u_put", "u_send")
UpdateSend(t) == SendWorkload(t, "u_send", "updated")

(* A store call whose only effect is on the reply: fail, NotFound when the *)
(* workload is absent, or go on to the next await (or return Ok).          *)
CheckExists(t, p, next) ==
    /\ pc[t] = p
    /\ \E o \in StoreOutcomes :
          \/ /\ o = "fail"
             /\ Return(t, "error")
          \/ /\ o = "ok"
             /\ wl[wid[t]] = NoDef
             /\ Return(t, "notfound")
          \/ /\ o = "ok"
             /\ wl[wid[t]] # NoDef
             /\ IF next = "idle" THEN Return(t, "ok")
                                 ELSE Goto(t, next) /\ UNCHANGED reply
    /\ UNCHANGED <<store, orch, history, wid, def>>

(* delete_workload: get_workload, then delete_instances_for_workload, then *)
(* delete_workload, each its own await and each able to fail.              *)
DeleteGet(t) == CheckExists(t, "d_get", "d_inst")

DeleteInstances(t) ==
    /\ pc[t] = "d_inst"
    /\ \E o \in StoreOutcomes :
          \/ /\ o = "ok"
             /\ inst' = inst \ {wid[t]}
             /\ Goto(t, "d_wl")
             /\ UNCHANGED reply
          \/ /\ o = "fail"
             /\ Return(t, "error")
             /\ UNCHANGED inst
    /\ UNCHANGED <<wl, orch, history, wid, def>>

DeleteWorkload(t) ==
    /\ pc[t] = "d_wl"
    /\ \E o \in StoreOutcomes :
          \/ /\ o = "ok"
             /\ wl' = [wl EXCEPT ![wid[t]] = NoDef]
             /\ deleted' = deleted \cup {wid[t]}
             /\ Return(t, "nocontent")
          \/ /\ o = "fail"
             /\ Return(t, "error")
             /\ UNCHANGED <<wl, deleted>>
    /\ UNCHANGED <<inst, orch, used, sent, wid, def>>

(* A store read whose result only shapes the response: list_workloads,     *)
(* list_nodes, list_instances_for_workload, and the three lists of         *)
(* get_cluster_status.                                                     *)
StoreRead(t, p, next) ==
    /\ pc[t] = p
    /\ \E o \in StoreOutcomes :
          \/ /\ o = "fail"
             /\ Return(t, "error")
          \/ /\ o = "ok"
             /\ IF next = "idle" THEN Return(t, "ok")
                                 ELSE Goto(t, next) /\ UNCHANGED reply
    /\ UNCHANGED <<store, orch, history, wid, def>>

(* get_workload, list_workloads, list_nodes and get_node: one store call.  *)
(* The node registry is not written by these handlers, so get_node finds  *)
(* its node or not.                                                        *)
GetWorkload(t) == CheckExists(t, "g_get", "idle")
ListWorkloads(t) == StoreRead(t, "l_list", "idle")
ListNodes(t) == StoreRead(t, "n_list", "idle")
GetNode(t) ==
    \/ StoreRead(t, "n_get", "idle")
    \/ /\ pc[t] = "n_get"
       /\ Return(t, "notfound")
       /\ UNCHANGED <<store, orch, history, wid, def>>

(* list_workload_instances: get_workload, then list_instances_for_workload.*)
InstancesGet(t) == CheckExists(t, "i_get", "i_list")
InstancesList(t) == StoreRead(t, "i_list", "idle")

(* get_cluster_status: list_nodes, list_workloads, list_all_instances.     *)
StatusNodes(t) == StoreRead(t, "s_nodes", "s_wl")
StatusWorkloads(t) == StoreRead(t, "s_wl", "s_inst")
StatusInstances(t) == StoreRead(t, "s_inst", "idle")
-----------------------------------------------------------------------------
(* The orchestrator (outside this repository) takes the oldest definition *)
(* off the channel and reconciles towards it.                              *)
Receive ==
    /\ rxOpen
    /\ chan # <<>>
    /\ view' = [view EXCEPT ![Head(chan).id] = Head(chan)]
    /\ chan' = Tail(chan)
    /\ UNCHANGED <<store, rxOpen, senders, history, task>>

(* The orchestrator schedules instances of a workload it has received.    *)
Schedule ==
    /\ \E w \in Wids :
          /\ view[w] # NoDef
          /\ view[w].replicas >= 1
          /\ w \notin inst
          /\ inst' = inst \cup {w}
    /\ UNCHANGED <<wl, orch, history, task>>

(* The orchestrator stops and drops its receiver.                          *)
CloseRx ==
    /\ rxOpen
    /\ rxOpen' = FALSE
    /\ UNCHANGED <<store, chan, view, senders, history, task>>

Step(t) ==
    \/ CreatePut(t) \/ CreateSend(t)
    \/ UpdateGet(t) \/ UpdatePut(t) \/ UpdateSend(t)
    \/ DeleteGet(t) \/ DeleteInstances(t) \/ DeleteWorkload(t)
    \/ GetWorkload(t) \/ ListWorkloads(t) \/ ListNodes(t) \/ GetNode(t)
    \/ InstancesGet(t) \/ InstancesList(t)
    \/ StatusNodes(t) \/ StatusWorkloads(t) \/ StatusInstances(t)

Next ==
    \/ \E t \in Reqs : CallCreate(t) \/ CallOther(t) \/ Step(t)
    \/ Receive \/ Schedule \/ CloseRx

Spec == Init /\ [][Next]_vars
-----------------------------------------------------------------------------
TypeOK ==
    /\ wl \in [Wids -> Defs \cup {NoDef}]
    /\ inst \subseteq Wids
    /\ chan \in Seq(Defs) /\ Len(chan) <= ChanCap
    /\ rxOpen \in BOOLEAN
    /\ view \in [Wids -> Defs \cup {NoDef}]
    /\ senders \in Seq(Reqs)
    /\ used \subseteq Wids /\ sent \subseteq Defs /\ deleted \subseteq Wids
    /\ pc \in [Reqs -> {"idle", "c_put", "c_send", "u_get", "u_put",
                        "u_send", "d_get", "d_inst", "d_wl", "g_get",
                        "l_list", "n_list", "n_get", "i_get", "i_list",
                        "s_nodes", "s_wl", "s_inst"}]
    /\ wid \in [Reqs -> Wids]
    /\ def \in [Reqs -> Defs \cup {NoDef}]
    /\ reply \in [Reqs -> Replies]

(* A workload delete_workload answered 204 No Content for stays deleted:   *)
(* update_workload only writes a workload it has found to exist.           *)
DeletedStaysDeleted == \A w \in deleted : wl[w] = NoDef

(* Once every request has returned and the orchestrator has drained the    *)
(* channel, it has been sent the stored version of every workload.         *)
OrchestratorSeesLatest ==
    /\ rxOpen
    /\ chan = <<>>
    /\ \A t \in Reqs : Idle(t)
    => \A w \in Wids : wl[w] # NoDef => view[w] = wl[w]
====
