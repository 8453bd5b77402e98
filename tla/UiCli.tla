------------------------------- MODULE UiCli -------------------------------
(***************************************************************************)
(* The `orch` command-line client (ui_cli/src/commands): deploy, status    *)
(* and logs, each a short sequence of HTTP calls to the API server, run    *)
(* while other clients and the orchestrator change what the server holds. *)
(* An HTTP call is one atomic step; it may fail (connection, 5xx, auth),   *)
(* and a path naming a workload that is gone answers 404.  Ids and names   *)
(* are strings over a small alphabet, as the name/id matching of the logs  *)
(* command compares them character by character.                           *)
(***************************************************************************)
EXTENDS Naturals, FiniteSets, SequencesExt

CONSTANTS
    Clis,       \* concurrently running `orch` invocations
    Letters,    \* characters of ids and names
    IdLen,      \* length of a workload id (a UUID string)
    MaxArg,     \* longest --env/--label argument explored
    None        \* an absent optional argument

ASSUME IdLen \in Nat \ {0} /\ MaxArg \in Nat

(* A workload id is a UUID string; anything shorter is not a UUID.  Names  *)
(* are user-chosen and shorter than a UUID, so Uuid::parse_str rejects     *)
(* them.                                                                   *)
Ids == [1 .. IdLen -> Letters]
Names == SeqOf(Letters, IdLen - 1) \ {<<>>}
IsUuid(s) == s \in Ids

(* Command-line values of --env and --label.                               *)
ArgChars == {"k", "=", "v"}
ArgStrings == SeqOf(ArgChars, MaxArg)

Replies == {"none", "ok", "error", "usage", "notfound", "ambiguous",
            "noinstances", "nomatch", "shown"}

VARIABLES
    wls,      \* the server's workloads: a set of [id, name]
    ever,     \* ids the server has ever handed out (Uuid::new_v4)
    sched,    \* ids of workloads that have instances
    pc,       \* per invocation: the call it is at, "idle" when done
    ref,      \* logs: the workload argument
    target,   \* logs: the id find_workload_id returned
    listing,  \* status --detailed: listed workloads not yet visited
    reply,    \* per invocation: how it ended
    arg,      \* deploy: the --env argument, None before any deploy
    sent      \* deploy: the env entry its request carried, or None

server == <<wls, ever, sched>>
cli == <<pc, ref, target, listing, reply, arg, sent>>
vars == <<server, cli>>

WlIds == {w.id : w \in wls}

Goto(c, p) == pc' = [pc EXCEPT ![c] = p]

Finish(c, r) ==
    /\ pc' = [pc EXCEPT ![c] = "idle"]
    /\ reply' = [reply EXCEPT ![c] = r]

Idle(c) == pc[c] = "idle"
-----------------------------------------------------------------------------
(* Mutant: split('=') instead of splitn(2, '='), refusing a value that     *)
(* itself contains '='.                                                    *)
ParseEnvVarSplit(s) ==
    LET i == SelectInSeq(s, LAMBDA ch : ch = "=")
    IN IF i = 0 \/ Contains(SubSeq(s, i + 1, Len(s)), "=") THEN [ok |-> FALSE]
       ELSE [ok |-> TRUE, key |-> SubSeq(s, 1, i - 1), value |-> SubSeq(s, i + 1, Len(s))]

(* parse_env_var: splitn(2, '=') on the argument; anything but two parts   *)
(* is a usage error.                                                        *)
ParseEnvVar(s) ==
    LET i == SelectInSeq(s, LAMBDA ch : ch = "=")
    IN IF i = 0 THEN [ok |-> FALSE]
       ELSE [ok |-> TRUE, key |-> SubSeq(s, 1, i - 1), value |-> SubSeq(s, i + 1, Len(s))]

(* find_workload_id, after its list call: the workloads whose name is ref  *)
(* or whose id starts with ref; one is the answer, none is WorkloadNotFound,*)
(* more are an ambiguity error.                                            *)
Matching(ws, r) == {w \in ws : w.name = r \/ IsPrefix(r, w.id)}

(* The status command's --workload filter: w.name.contains(name).          *)
Shown(ws, f) == {w.id : w \in {x \in ws : f = None \/ f \in SubSeqs(x.name)}}
-----------------------------------------------------------------------------
Init ==
    /\ wls = {}
    /\ ever = {}
    /\ sched = {}
    /\ pc = [c \in Clis |-> "idle"]
    /\ ref = [c \in Clis |-> None]
    /\ target = [c \in Clis |-> None]
    /\ listing = [c \in Clis |-> {}]
    /\ reply = [c \in Clis |-> "none"]
    /\ arg = [c \in Clis |-> None]
    /\ sent = [c \in Clis |-> None]

(* orch deploy --name n --replicas r --env a: clap rejects an --env or     *)
(* --label that parse_env_var refuses; deploy needs a loaded identity;     *)
(* then one POST /api/v1/workloads, which create_workload answers with a   *)
(* fresh id, or 400 for an empty name or zero replicas (the request always *)
(* carries one container).                                                 *)
Deploy(c) ==
    /\ Idle(c)
    /\ \E n \in Names \cup {<<>>}, r \in {0, 1}, a \in ArgStrings :
       /\ arg' = [arg EXCEPT ![c] = a]
       /\ \/ /\ ~ParseEnvVar(a).ok
             /\ Finish(c, "usage")
             /\ sent' = [sent EXCEPT ![c] = None]
             /\ UNCHANGED server
          \/ /\ ParseEnvVar(a).ok
             /\ sent' = [sent EXCEPT ![c] = [key |-> ParseEnvVar(a).key,
                                              value |-> ParseEnvVar(a).value]]
             /\ \/ /\ Finish(c, "error")
                   /\ UNCHANGED server
                \/ /\ n # <<>> /\ r >= 1
                   /\ \E id \in Ids \ ever :
                         /\ wls' = wls \cup {[id |-> id, name |-> n]}
                         /\ ever' = ever \cup {id}
                   /\ Finish(c, "ok")
                   /\ UNCHANGED sched
    /\ UNCHANGED <<ref, target, listing>>

(* orch logs <workload>: find_workload_id returns a UUID argument as it is *)
(* and lists the workloads for anything else.                              *)
LogsCall(c) ==
    /\ Idle(c)
    /\ \E r \in Names \cup Ids :
          /\ ref' = [ref EXCEPT ![c] = r]
          /\ IF IsUuid(r)
               THEN /\ target' = [target EXCEPT ![c] = r]
                    /\ Goto(c, "l_inst")
               ELSE /\ Goto(c, "l_find")
                    /\ UNCHANGED target
    /\ UNCHANGED <<server, listing, reply, arg, sent>>

(* GET /api/v1/workloads, then the match.                                  *)
LogsFind(c) ==
    /\ pc[c] = "l_find"
    /\ \/ Finish(c, "error") /\ UNCHANGED target
       \/ LET m == Matching(wls, ref[c]) IN
          /\ CASE m = {} -> Finish(c, "notfound") /\ UNCHANGED target
               [] Cardinality(m) = 1 ->
                    /\ target' = [target EXCEPT ![c] = (CHOOSE w \in m : TRUE).id]
                    /\ Goto(c, "l_inst") /\ UNCHANGED reply
               [] OTHER -> Finish(c, "ambiguous") /\ UNCHANGED target
    /\ UNCHANGED <<server, ref, listing, arg, sent>>

(* GET /api/v1/workloads/{id}/instances (404 once the workload is gone),   *)
(* then the --instance prefix filter, which may leave none.                *)
LogsInstances(c) ==
    /\ pc[c] = "l_inst"
    /\ \/ Finish(c, "error")     \* the GET fails, or answers 404
       \/ target[c] \in WlIds /\ target[c] \notin sched /\ Finish(c, "noinstances")
       \/ target[c] \in WlIds /\ target[c] \in sched /\ \E r \in {"nomatch", "shown"} : Finish(c, r)
    /\ UNCHANGED <<server, ref, target, listing, arg, sent>>
-----------------------------------------------------------------------------
(* print_data(&rows, format)? renders a non-empty GET result as a table,  *)
(* JSON or YAML; its error (output.rs, not in this repository) ends the    *)
(* command with that error.                                                *)
Printed(c, next) ==
    \/ next = "idle" /\ Finish(c, "ok")
    \/ next # "idle" /\ Goto(c, next) /\ UNCHANGED reply
    \/ Finish(c, "error")

(* orch status [--nodes-only] [--workloads-only] [--workload f]            *)
(* [--detailed]: the cluster status unless either flag is given, the node *)
(* list unless --workloads-only, the workloads unless --nodes-only; with   *)
(* both flags, nothing.                                                    *)
StatusCall(c) ==
    /\ Idle(c)
    /\ \E nodesOnly, workloadsOnly \in BOOLEAN :
          CASE ~nodesOnly /\ ~workloadsOnly -> Goto(c, "s_cluster")
            [] ~workloadsOnly -> Goto(c, "s_nodes_only")
            [] ~nodesOnly -> Goto(c, "s_wl")
            [] OTHER -> Finish(c, "ok")
    /\ listing' = [listing EXCEPT ![c] = {}]
    /\ UNCHANGED <<server, ref, target, reply, arg, sent>>

(* GET /api/v1/cluster/status: printed, or its error printed.  GET         *)
(* /api/v1/nodes: printed with print_data, or its error printed.           *)
StatusHeader(c) ==
    /\ \/ pc[c] = "s_cluster" /\ Goto(c, "s_nodes") /\ UNCHANGED reply
       \/ pc[c] = "s_nodes" /\ Goto(c, "s_wl") /\ UNCHANGED reply
       \/ pc[c] = "s_nodes" /\ Printed(c, "s_wl")
       \/ pc[c] = "s_nodes_only" /\ Finish(c, "ok")
       \/ pc[c] = "s_nodes_only" /\ Printed(c, "idle")
    /\ UNCHANGED <<server, ref, target, listing, arg, sent>>

(* GET /api/v1/workloads (its error printed) and the --workload filter     *)
(* w.name.contains(f), print_data of the result; with --detailed and a     *)
(* non-empty result, the instances of each listed workload follow.         *)
StatusWorkloads(c) ==
    /\ pc[c] = "s_wl"
    /\ \/ Finish(c, "ok") /\ UNCHANGED listing
       \/ \E f \in Names \cup {None}, detailed \in BOOLEAN :
             LET l == Shown(wls, f) IN
             /\ listing' = [listing EXCEPT ![c] = IF detailed THEN l ELSE {}]
             /\ Printed(c, IF detailed /\ l # {} THEN "s_inst" ELSE "idle")
    /\ UNCHANGED <<server, ref, target, arg, sent>>

(* One iteration over the listed workloads: GET its instances; an error   *)
(* (404 if another client deleted it since the list) is printed and the   *)
(* loop goes on; a non-empty list is printed with print_data.             *)
StatusInstances(c) ==
    /\ pc[c] = "s_inst"
    /\ LET w == CHOOSE x \in listing[c] : TRUE
           rest == listing[c] \ {w}
           next == IF rest = {} THEN "idle" ELSE "s_inst"
       IN /\ listing' = [listing EXCEPT ![c] = rest]
          /\ \/ next = "idle" /\ Finish(c, "ok")
             \/ next # "idle" /\ UNCHANGED <<pc, reply>>
             \/ w \in sched /\ Printed(c, next)
    /\ UNCHANGED <<server, ref, target, arg, sent>>
-----------------------------------------------------------------------------
(* Other clients delete workloads; the orchestrator starts instances.     *)
ServerDelete ==
    /\ \E w \in wls :
          /\ wls' = wls \ {w}
          /\ sched' = sched \ {w.id}
    /\ UNCHANGED <<ever, cli>>

ServerSchedule ==
    /\ \E id \in WlIds \ sched : sched' = sched \cup {id}
    /\ UNCHANGED <<wls, ever, cli>>

Step(c) ==
    \/ LogsFind(c) \/ LogsInstances(c)
    \/ StatusHeader(c) \/ StatusWorkloads(c) \/ StatusInstances(c)

Next ==
    \/ \E c \in Clis : Deploy(c) \/ LogsCall(c) \/ StatusCall(c) \/ Step(c)
    \/ ServerDelete \/ ServerSchedule

Spec == Init /\ [][Next]_vars
-----------------------------------------------------------------------------
(* The help text: --env and --label take KEY=VALUE.  Every argument with   *)
(* an '=' is accepted and split at its first '=', so a value may itself    *)
(* contain '=' and either side may be empty; an argument without one is    *)
(* refused before any request is made: the env entry a deploy sends is   *)
(* its argument split at the first '='.                                    *)
EnvSent(c) ==
    arg[c] # None =>
        /\ sent[c] # None <=> Contains(arg[c], "=")
        /\ sent[c] # None =>
              /\ ~Contains(sent[c].key, "=")
              /\ sent[c].key \o <<"=">> \o sent[c].value = arg[c]

EnvArgParsed == \A c \in Clis : EnvSent(c)

=============================================================================
