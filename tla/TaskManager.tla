----------------------------- MODULE TaskManager ----------------------------
(***************************************************************************)
(* The Task Manager of one unit task (services/task_manager/manager.py):   *)
(* it divides the GPUs it is given among task executors, spawns and kills  *)
(* their pods through Kubernetes, and routes requests to them round robin. *)
(*                                                                         *)
(* An executor is named by its set of GPUs, as executor_id is; its pod and *)
(* its service are one.  The Resource Manager sends RegisterTask,          *)
(* UpdateResources and Shutdown one after the other, under the lock of the *)
(* task's state; requests for a route come at any time and take no lock.   *)
(* When `trouble` is "api", a call of the Kubernetes API may fail and may  *)
(* do so after it has had its effect.                                      *)
(***************************************************************************)
EXTENDS ClusterGPUs

CONSTANTS
  Sizes,      (* numbers of GPUs an executor can have, by the profile      *)
  Initial,    (* the GPUs it is registered with, enough for one executor   *)
  MaxUpdates, (* bound on the UpdateResources calls                        *)
  Troubles    (* what may go wrong, one of which is chosen at the start    *)

Executors == (SUBSET GPUs) \ {{}}

ASSUME TaskManagerAssumption ==
  /\ Sizes # {} /\ Sizes \subseteq Nat \ {0} /\ IsFiniteSet(Sizes)
  /\ Initial \subseteq GPUs /\ MaxUpdates \in Nat
  /\ \A n \in Sizes : Cardinality(Initial) <= n
  /\ Troubles \subseteq {"none", "api", "net"}

VARIABLES
  trouble,
  doing,       (* which call the manager works on                          *)
  gpus,        (* self.gpus                                                *)
  owner,       (* [GPUs -> executor that has it, or {}]                    *)
  pod_names,   (* the keys of self.executor_pod_names                      *)
  deployments, (* the keys of self.executor_deployments, in order          *)
  rr_counter,  (* the counter of the round robin                           *)
  phase,       (* [Executors -> where its spawn or kill is]                *)
  failed,      (* a spawn of the call has failed                           *)
  updates,     (* the number of UpdateResources calls so far               *)
  pods         (* [Executors -> the state of its pod in Kubernetes]        *)

books == <<gpus, owner, pod_names, deployments>>
tmVars == <<trouble, doing, books, rr_counter, phase, failed, updates, pods>>

Doing == {"off", "registering", "idle", "killing", "spawning", "stopping", "stopped"}
Phases == {"none", "create", "health", "kill", "wait"}
PodStates == {"none", "starting", "up", "failed", "ending"}

TMInit ==
  /\ trouble \in Troubles
  /\ doing = "off" /\ gpus = {} /\ owner = [g \in GPUs |-> {}]
  /\ pod_names = {} /\ deployments = <<>> /\ rr_counter = 0
  /\ phase = [e \in Executors |-> "none"] /\ failed = FALSE /\ updates = 0
  /\ pods = [e \in Executors |-> "none"]

Deployed == Range(deployments)
AllSettled == \A e \in Executors : phase[e] = "none"
Put(f, S, v) == [x \in DOMAIN f |-> IF x \in S THEN v ELSE f[x]]

-----------------------------------------------------------------------------
(* TaskManager.init on RegisterTask: a new process, with all GPUs free.     *)
Register ==
  /\ doing = "off" /\ Initial # {}
  /\ doing' = "registering"
  /\ gpus' = Initial /\ owner' = [g \in GPUs |-> {}]
  /\ pod_names' = {} /\ deployments' = <<>> /\ rr_counter' = 0
  /\ phase' = Put(phase, Groups(Initial, Sizes), "create")
  /\ failed' = FALSE
  /\ UNCHANGED <<trouble, updates, pods>>

InsideOf(remove) == { e \in Deployed : e \subseteq remove }
Losing(remove) == { e \in Deployed : e \cap remove # {} }

(* update_resources up to the first kill.  A GPU that is added comes as an  *)
(* object of its own, which is free.                                        *)
Update(add, remove) ==
  /\ doing = "idle" /\ updates < MaxUpdates
  /\ updates' = updates + 1
  /\ IF remove \subseteq gpus /\ add \cap gpus = {}
     THEN /\ doing' = "killing"
          /\ gpus' = (gpus \ remove) \cup add
          /\ owner' = Put(owner, add, {})
          /\ phase' = Put(phase, Losing(remove), "kill")
     ELSE UNCHANGED <<doing, gpus, owner, phase>>
  /\ UNCHANGED <<trouble, pod_names, deployments, rr_counter, failed, pods>>

(* All are killed, or could not be: new executors on the GPUs that are free.*)
FreeOfMine == { g \in gpus : owner[g] = {} }
Regroup ==
  /\ doing = "killing" /\ AllSettled
  /\ doing' = "spawning" /\ failed' = FALSE
  /\ phase' = Put(phase, Groups(FreeOfMine, Sizes), "create")
  /\ UNCHANGED <<trouble, books, rr_counter, updates, pods>>

(* The call is answered; a registration with an error leaves no manager.    *)
Finish ==
  /\ AllSettled
  /\ \/ doing = "spawning" /\ doing' = "idle"
     \/ doing = "registering" /\ doing' = (IF failed THEN "stopped" ELSE "idle")
     \/ doing = "stopping" /\ doing' = "stopped"
  /\ UNCHANGED <<trouble, books, rr_counter, phase, failed, updates, pods>>

Shutdown ==
  /\ doing = "idle"
  /\ doing' = "stopping"
  /\ phase' = Put(phase, Deployed, "kill")
  /\ UNCHANGED <<trouble, books, rr_counter, failed, updates, pods>>

-----------------------------------------------------------------------------
(* _spawn_executor: the pod and its service, the GPUs, the deployment; from *)
(* then on requests are routed to it.                                       *)
Added(e) == IF e \in Deployed THEN deployments ELSE Append(deployments, e)

Spawn(e) ==
  /\ phase[e] = "create"
  /\ \/ /\ pods[e] = "none"
        /\ pods' = [pods EXCEPT ![e] = "starting"]
        /\ pod_names' = pod_names \cup {e}
        /\ \/ /\ phase' = [phase EXCEPT ![e] = "health"]
              /\ owner' = Put(owner, e, e)
              /\ deployments' = Added(e)
              /\ UNCHANGED failed
           \/ /\ phase' = [phase EXCEPT ![e] = "kill"]    (* no service     *)
              /\ failed' = TRUE
              /\ UNCHANGED <<owner, deployments>>
     \/ /\ phase' = [phase EXCEPT ![e] = "none"]          (* no pod         *)
        /\ failed' = TRUE
        /\ \/ UNCHANGED pods
           \/ trouble = "api" /\ pods[e] = "none" /\ pods' = [pods EXCEPT ![e] = "starting"]
        /\ UNCHANGED <<owner, pod_names, deployments>>
  /\ UNCHANGED <<trouble, doing, gpus, rr_counter, updates>>

(* The executor answers its health check in time, or does not, or has died. *)
Dead(e) == pods[e] \in {"failed", "none"}
Late(e) == pods[e] # "up"
Healthy(e) ==
  /\ phase[e] = "health"
  /\ \/ /\ pods[e] = "up"
        /\ phase' = [phase EXCEPT ![e] = "none"] /\ UNCHANGED failed
     \/ /\ Late(e)
        /\ phase' = [phase EXCEPT ![e] = "kill"] /\ failed' = TRUE
  /\ UNCHANGED <<trouble, doing, books, rr_counter, updates, pods>>

(* A dict, as the sequence of its keys, without one of them. *)
Pop(s, e) == IF e \in Range(s) THEN RemoveAt(s, CHOOSE i \in DOMAIN s : s[i] = e) ELSE s

(* _kill_executor: the names are forgotten, the pod is deleted.             *)
Dealloc(e) ==
  /\ deployments' = Pop(deployments, e)
  /\ owner' = IF e \in Deployed THEN Put(owner, e, {}) ELSE owner

Kill(e) ==
  /\ phase[e] = "kill"
  /\ pod_names' = pod_names \ {e}
  /\ \/ /\ e \in pod_names
        /\ \/ /\ pods' = [pods EXCEPT ![e] = IF @ = "none" THEN @ ELSE "ending"]
              /\ phase' = [phase EXCEPT ![e] = "wait"]
           \/ /\ trouble = "api"
              /\ phase' = [phase EXCEPT ![e] = "wait"]    (* suppressed     *)
              /\ UNCHANGED pods
           \/ /\ trouble = "api"
              /\ phase' = [phase EXCEPT ![e] = "none"]    (* raised         *)
              /\ UNCHANGED pods
        /\ UNCHANGED <<owner, deployments>>
     \/ /\ e \notin pod_names
        /\ Dealloc(e)
        /\ phase' = [phase EXCEPT ![e] = "none"]
        /\ UNCHANGED pods
  /\ UNCHANGED <<trouble, doing, gpus, rr_counter, failed, updates>>

(* Free the GPUs without waiting for the pod to go. *)
GoneAtOnce(e) == TRUE
IsGone(e) == pods[e] = "none"
Killed(e) ==
  /\ phase[e] = "wait"
  /\ phase' = [phase EXCEPT ![e] = "none"]
  /\ \/ IsGone(e) /\ Dealloc(e)
     \/ trouble = "api" /\ UNCHANGED <<owner, deployments>>
  /\ UNCHANGED <<trouble, doing, gpus, pod_names, rr_counter, failed, updates, pods>>

(* Kubernetes: a pod comes up, dies, and is gone some time after its        *)
(* deletion.                                                                *)
PodMoves(e, from, to) ==
  /\ pods[e] \in from
  /\ pods' = [pods EXCEPT ![e] = to]
  /\ UNCHANGED <<trouble, doing, books, rr_counter, phase, failed, updates>>
PodUp(e)   == PodMoves(e, {"starting"}, "up")
PodDies(e) == PodMoves(e, {"starting", "up"}, "failed")
PodEnds(e) == PodMoves(e, {"ending"}, "none")

-----------------------------------------------------------------------------
(* get_route, of a manager that is there; without an executor the remainder *)
(* raises.                                                                  *)
Serving == doing \in {"idle", "killing", "spawning", "stopping"}
Route == deployments[(rr_counter % Len(deployments)) + 1]
Routed ==
  /\ rr_counter' = rr_counter + (IF deployments = <<>> THEN 0 ELSE 1)
  /\ UNCHANGED <<trouble, doing, books, phase, failed, updates, pods>>

Work(e) == Spawn(e) \/ Healthy(e) \/ Kill(e) \/ Killed(e)

-----------------------------------------------------------------------------
TMTypeOK ==
  /\ trouble \in Troubles /\ doing \in Doing
  /\ gpus \subseteq GPUs /\ owner \in [GPUs -> SUBSET GPUs]
  /\ pod_names \subseteq Executors /\ Deployed \subseteq Executors
  /\ rr_counter \in Nat /\ updates \in 0 .. MaxUpdates
  /\ phase \in [Executors -> Phases] /\ pods \in [Executors -> PodStates]
  /\ failed \in BOOLEAN
  /\ doing \in {"off", "idle", "stopped"} => \A e \in Executors : phase[e] = "none"

(* No GPU is in two pods at the same time, though executors are regrouped   *)
(* when GPUs come and go and their pods take time to end                    *)
(* (manager.py:554-575).                                                    *)
PodsAreDisjoint ==
  trouble # "api" =>
    \A e, f \in Executors : pods[e] # "none" /\ pods[f] # "none" /\ e # f => e \cap f = {}

(* The GPUs that the Resource Manager takes for given back when the call is *)
(* answered have no pod, nor have those that are free here (manager.py:     *)
(* 128-146, 155), and an executor keeps the GPUs it was spawned with for as *)
(* long as requests are routed to it.                                       *)
AnsweredAreFree ==
  trouble # "api" =>
    /\ doing \in {"idle", "stopped", "off"} =>
         \A e \in Executors : pods[e] # "none" => e \in Deployed /\ e \subseteq gpus
    /\ \A e \in Deployed : \A g \in e : owner[g] = e

=============================================================================
