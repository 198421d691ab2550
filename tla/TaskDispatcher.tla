--------------------------- MODULE TaskDispatcher ---------------------------
(***************************************************************************)
(* The Task Dispatchers (services/task_dispatcher) and the path of a       *)
(* request: a replica looks the task up, gets a route from its Task        *)
(* Manager and posts to the executor, while the Resource Manager           *)
(* (services/resource_manager/manager.py) deploys, scales and tears down   *)
(* the task and tells all replicas.                                        *)
(*                                                                         *)
(* One task, whose deployments are numbered; each has a task of its own id *)
(* in the dispatchers' tables, and all of them are equivalent.  When       *)
(* `trouble` is "net" a notification may fail to arrive.  The gateway      *)
(* deploys and tears down one after the other, and dispatches invocations  *)
(* while the task is ready.                                                *)
(***************************************************************************)
EXTENDS TaskManager

CONSTANTS
  Replicas,     (* of the Task Dispatcher                                  *)
  Invocations,
  MaxInstances, (* bound on the deployments of the task                    *)
  Additions,    (* sets of GPUs that a scale-up may add                    *)
  Removals      (* sets of GPUs that a scale-down may remove               *)

ASSUME TaskDispatcherAssumption ==
  MaxInstances \in Nat /\ Additions \subseteq SUBSET GPUs /\ Removals \subseteq SUBSET GPUs

VARIABLES
  rm,        (* what the Resource Manager does with the task               *)
  instance,  (* the number of the last deployment                          *)
  told,      (* the replicas that have answered the notification           *)
  missed,    (* a replica could not be told                                *)
  tables,    (* [Replicas -> task_infos, its instances in order]           *)
  inv,       (* [Invocations -> where it is]                               *)
  found,     (* [Invocations -> the instance that was looked up]           *)
  executor   (* [Invocations -> the executor it is routed to]              *)

rmVars == <<rm, instance, told, missed, tables>>
invVars == <<inv, found, executor>>
vars == <<tmVars, rmVars, invVars>>

RMStates == {"down", "spawning", "notifying", "ready", "leaving", "undoing", "stopping"}
InvStates == {"idle", "routing", "posting", "answered", "failed", "unknown"}

Init ==
  /\ TMInit
  /\ rm = "down" /\ instance = 0 /\ told = {} /\ missed = FALSE
  /\ tables = [r \in Replicas |-> <<>>]
  /\ inv = [v \in Invocations |-> "idle"]
  /\ found = [v \in Invocations |-> 0]
  /\ executor = [v \in Invocations |-> {}]

-----------------------------------------------------------------------------
(* deploy_unit_task. *)
Deploy ==
  /\ rm = "down" /\ instance < MaxInstances /\ doing = "off"
  /\ rm' = "spawning" /\ instance' = instance + 1
  /\ Register
  /\ UNCHANGED <<told, missed, tables, invVars>>

(* RegisterTask has returned.  The process of a manager that failed is gone *)
(* with its state.                                                          *)
Spawned ==
  /\ rm = "spawning"
  /\ \/ doing = "idle" /\ rm' = "notifying" /\ UNCHANGED tmVars
     \/ /\ doing = "stopped" /\ rm' = "down"
        /\ doing' = "off"
        /\ UNCHANGED <<trouble, books, rr_counter, phase, failed, updates, pods>>
  /\ told' = {} /\ missed' = FALSE
  /\ UNCHANGED <<instance, tables, invVars>>

(* notify_task_deployment and notify_task_teardown of a replica. *)
WithAll(r) == tables[r]
WithoutInstance(r) == Pop(tables[r], instance)

Notify(r) ==
  /\ rm \in {"notifying", "leaving"} /\ r \notin told
  /\ told' = told \cup {r}
  /\ \/ /\ tables' = [tables EXCEPT ![r] = IF rm = "notifying" THEN Append(@, instance)
                                                               ELSE WithoutInstance(r)]
        /\ UNCHANGED missed
     \/ trouble = "net" /\ missed' = TRUE /\ UNCHANGED tables
  /\ UNCHANGED <<tmVars, rm, instance, invVars>>

Told ==
  /\ rm \in {"notifying", "leaving"} /\ told = Replicas
  /\ rm' = IF rm = "leaving" THEN "stopping" ELSE IF missed THEN "stopping" ELSE "ready"
  /\ UNCHANGED <<tmVars, instance, told, missed, tables, invVars>>

(* teardown_unit_task. *)
Teardown ==
  /\ rm = "ready"
  /\ rm' = "leaving" /\ told' = {} /\ missed' = FALSE
  /\ UNCHANGED <<tmVars, instance, tables, invVars>>

(* TaskManagerState.tear_down, which takes the lock of the state: no call   *)
(* of UpdateResources is under way.                                         *)
Stop ==
  /\ rm = "stopping" /\ Shutdown
  /\ rm' = "undoing"
  /\ UNCHANGED <<instance, told, missed, tables, invVars>>

Stopped ==
  /\ rm = "undoing" /\ doing = "stopped"
  /\ rm' = "down" /\ doing' = "off"
  /\ UNCHANGED <<trouble, books, rr_counter, phase, failed, updates, pods>>
  /\ UNCHANGED <<instance, told, missed, tables, invVars>>

Scale ==
  /\ rm = "ready"
  /\ (\E add \in Additions : Update(add, {})) \/ (\E remove \in Removals : Update({}, remove))
  /\ UNCHANGED <<rmVars, invVars>>

-----------------------------------------------------------------------------
(* TaskDispatcher.invoke.                                                   *)

(* The first of the tasks of the table that are equivalent. *)
Lookup(r) == tables[r][1]

Invoke(v, r) ==
  /\ inv[v] = "idle" /\ rm \in {"ready", "leaving"}
  /\ IF tables[r] = <<>>
     THEN inv' = [inv EXCEPT ![v] = "unknown"] /\ UNCHANGED found
     ELSE inv' = [inv EXCEPT ![v] = "routing"] /\ found' = [found EXCEPT ![v] = Lookup(r)]
  /\ UNCHANGED <<tmVars, rmVars, executor>>

(* GetRoute at the URL of the instance that was found; its channel is       *)
(* closed and its manager gone when it is not the one that runs.            *)
GetRoute(v) ==
  /\ inv[v] = "routing"
  /\ IF found[v] = instance /\ Serving /\ deployments # <<>>
     THEN /\ executor' = [executor EXCEPT ![v] = Route]
          /\ inv' = [inv EXCEPT ![v] = "posting"]
     ELSE inv' = [inv EXCEPT ![v] = "failed"] /\ UNCHANGED executor
  /\ IF found[v] = instance /\ Serving THEN Routed ELSE UNCHANGED tmVars
  /\ UNCHANGED <<rmVars, found>>

(* A teardown closes the channel before GetRoute has answered. *)
ChannelClosed(v) ==
  /\ inv[v] = "routing" /\ \A r \in Replicas : found[v] \notin Range(tables[r])
  /\ inv' = [inv EXCEPT ![v] = "failed"]
  /\ UNCHANGED <<tmVars, rmVars, found, executor>>

(* The executor answers, with an error or not; one that does not run does   *)
(* not, and the post fails.                                                 *)
Post(v) ==
  /\ inv[v] = "posting"
  /\ \/ pods[executor[v]] = "up" /\ inv' = [inv EXCEPT ![v] = "answered"]
     \/ inv' = [inv EXCEPT ![v] = "failed"]
  /\ UNCHANGED <<tmVars, rmVars, found, executor>>

-----------------------------------------------------------------------------
Others == <<rmVars, invVars>>

Progress ==
  \/ Spawned \/ Told \/ Stop \/ Stopped \/ \E r \in Replicas : Notify(r)
  \/ \E v \in Invocations : GetRoute(v) \/ Post(v)
  \/ (Regroup \/ Finish) /\ UNCHANGED Others

Kubernetes == \E e \in Executors : (PodUp(e) \/ PodEnds(e)) /\ UNCHANGED Others

Free ==
  \/ Deploy \/ Teardown \/ Scale
  \/ \E v \in Invocations, r \in Replicas : Invoke(v, r)
  \/ \E v \in Invocations : ChannelClosed(v)
  \/ \E e \in Executors : PodDies(e) /\ UNCHANGED Others

Quiet ==
  /\ rm \in {"down", "ready"} /\ doing \in {"off", "idle"}
  /\ \A v \in Invocations : inv[v] \in {"idle", "answered", "failed", "unknown"}

(* The API has failed to delete a pod, and the manager waits for its end.   *)
Hung == trouble = "api" /\ \E e \in Executors : phase[e] = "wait" /\ pods[e] # "ending"
Rest == (Quiet \/ Hung) /\ UNCHANGED vars

Next ==
  \/ Progress \/ Kubernetes \/ Free \/ Rest
  \/ \E e \in Executors : Work(e) /\ UNCHANGED Others

Spec == Init /\ [][Next]_vars

(* Every server goes on with what it has begun, executor by executor, and   *)
(* Kubernetes ends pods it has been told to delete.  Executors need not     *)
(* come up, pods may die, and nobody need call anything.                    *)
Fairness ==
  /\ WF_vars(Progress)
  /\ \A e \in Executors : /\ WF_vars(Work(e) /\ UNCHANGED Others)
                          /\ WF_vars(PodEnds(e) /\ UNCHANGED Others)

FairSpec == Spec /\ Fairness

-----------------------------------------------------------------------------
TypeOK ==
  /\ TMTypeOK
  /\ rm \in RMStates /\ instance \in 0 .. MaxInstances
  /\ told \subseteq Replicas /\ missed \in BOOLEAN
  /\ tables \in [Replicas -> Seq(1 .. instance)]
  /\ inv \in [Invocations -> InvStates] /\ found \in [Invocations -> 0 .. instance]
  /\ executor \in [Invocations -> SUBSET GPUs]

(* Whoever is dispatched while the task is ready gets to the instance that  *)
(* runs, at every replica and however often the task has been deployed and  *)
(* torn down before (dispatcher.py:179-194).                                *)
RunningIsFound ==
  rm = "ready" => \A r \in Replicas : tables[r] # <<>> /\ Lookup(r) = instance

(* So it is as long as no notification is lost. *)
FoundWhenTold == TypeOK /\ (trouble # "net" => RunningIsFound)

(* Every call of the Resource Manager returns and every invocation ends.    *)
EveryCallEnds == trouble # "api" => []<>Quiet

=============================================================================
