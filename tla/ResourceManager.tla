--------------------------- MODULE ResourceManager --------------------------
(***************************************************************************)
(* The Resource Manager (services/resource_manager/manager.py) and what    *)
(* its task managers do with the GPUs it gives them                        *)
(* (services/task_manager/manager.py).                                     *)
(*                                                                         *)
(* The Resource Manager is one asyncio event loop; an action is a segment  *)
(* of a handler up to its next await that suspends.  The calls of other    *)
(* servers (a task manager's RegisterTask, UpdateResources and Shutdown,   *)
(* the Task Dispatchers' notifications, the Kubernetes API) take any time  *)
(* and may fail where the handler provides for it.                         *)
(*                                                                         *)
(* A call of DeployUnitTask is named by the task manager id it makes up;   *)
(* TeardownUnitTask names the instance that an earlier Deploy created.     *)
(* The calls come from the gateway, and any may run beside any other: its  *)
(* rollback leaves a Deploy in flight, tears its instance down and lets go *)
(* of the task, and a Scale takes no lock; a gateway that has restarted    *)
(* deploys tasks that are running.  Only a Scale does not come while a     *)
(* Deploy of its task is under way, since the gateway scales tasks that    *)
(* are ready.                                                              *)
(***************************************************************************)
EXTENDS ClusterGPUs

CONSTANTS
  Ids,       (* the calls of DeployUnitTask                                *)
  Scales,    (* the calls of ScaleUnitTask                                 *)
  TaskOf,    (* [Ids \cup Scales -> tasks]                                 *)
  Amount,    (* [Scales -> GPUs to add, or to remove if negative]          *)
  SizesOf    (* [tasks -> numbers of GPUs an executor of it can have]      *)

NoId == "none"
Sizes(d) == SizesOf[TaskOf[d]]
Least(d) == CHOOSE c \in Sizes(d) : \A e \in Sizes(d) : c <= e

ASSUME ManagerAssumption ==
  /\ Nobody \notin Ids /\ NoId \notin Ids /\ Ids \cap Scales = {}
  /\ Amount \in [Scales -> Int \ {0}]
  /\ \A d \in Ids \cup Scales :
       Sizes(d) # {} /\ Sizes(d) \subseteq Nat \ {0} /\ IsFiniteSet(Sizes(d))

VARIABLES
  owner,       (* [GPUs -> GPU.owner: an id or Nobody]                     *)
  task_states, (* the ids in self.task_states                              *)
  resources,   (* [Ids -> its TaskManagerState.resources]                  *)
  dep,         (* [Ids -> where the Deploy call is]                        *)
  td,          (* [Ids -> where the Teardown call of its instance is]      *)
  sc,          (* [Scales -> where the Scale call is]                      *)
  target,      (* [Scales -> the id whose state it has found, or NoId]     *)
  batch,       (* [Scales -> the GPUs it adds or removes]                  *)
  gpus,        (* [Ids -> the task manager's own list of GPUs]             *)
  executors,   (* [Ids -> the executors in its table, as sets of GPUs]     *)
  astray       (* ghost: the ids of which a call failed that the code only *)
               (* logs or suppresses, so that executors may be left on     *)
               (* GPUs that were given back                                *)

vars == <<owner, task_states, resources, dep, td, sc, target, batch, gpus, executors, astray>>
tmVars == <<gpus, executors, astray>>
scVars == <<sc, target, batch>>

DepStates == {"idle", "spawning", "registering", "undo", "release", "popping", "notifying",
              "stopping", "freeing", "ok", "noop", "failed", "disowned"}
TdStates == {"no", "popped", "stopping", "freeing", "done", "absent", "asserted"}
ScStates == {"idle", "locking", "updating", "updated", "undoing", "undone",
             "ok", "failed", "raised"}

Init ==
  /\ owner = [g \in GPUs |-> Nobody]
  /\ task_states = {}
  /\ resources = [d \in Ids |-> <<>>]
  /\ dep = [d \in Ids |-> "idle"]
  /\ td = [d \in Ids |-> "no"]
  /\ sc = [s \in Scales |-> "idle"]
  /\ target = [s \in Scales |-> NoId]
  /\ batch = [s \in Scales |-> <<>>]
  /\ gpus = [d \in Ids |-> {}]
  /\ executors = [d \in Ids |-> {}]
  /\ astray = {}

-----------------------------------------------------------------------------
(* task_states_lock is held over an await only by the cleanup after a       *)
(* failed notification; everybody else holds it within a segment.           *)
RegistryFree == \A d \in Ids : dep[d] \notin {"stopping", "freeing"}

(* The lock of a TaskManagerState, not given back by a failed scale-down.   *)
UpdatingOrFailed(d) ==
  { s \in Scales : target[s] = d /\ sc[s] \in {"updating", "updated", "undoing", "undone", "failed"} }
(* The lock of a TaskManagerState. *)
UpdatingBy(d) ==
  { s \in Scales : target[s] = d /\ sc[s] \in {"updating", "updated", "undoing", "undone"} }
LockFree(d) == td[d] \notin {"stopping", "freeing"} /\ UpdatingBy(d) = {}

(* The states whose deployment is set and of the task of call c. *)
Running(c) ==
  { d \in task_states : TaskOf[d] = TaskOf[c] /\ dep[d] \in {"notifying", "ok"} }

Goto(d, pc) == dep' = [dep EXCEPT ![d] = pc]
GotoTd(d, pc) == td' = [td EXCEPT ![d] = pc]
GotoSc(s, pc) == sc' = [sc EXCEPT ![s] = pc]

Others(d) == { e \in Ids \ {d} : TaskOf[e] = TaskOf[d] }

-----------------------------------------------------------------------------
(* deploy_unit_task and _spawn_task_manager.                                *)

Deploy(d) ==
  /\ dep[d] = "idle" /\ RegistryFree
  /\ \/ Running(d) # {} /\ Goto(d, "noop") /\ UNCHANGED task_states
     \/ /\ Running(d) = {}
        /\ task_states' = task_states \cup {d}
        /\ Goto(d, "spawning")
  /\ UNCHANGED <<owner, resources, td, scVars, tmVars>>

(* The profile is there: the smallest number of GPUs it allows. *)
SpawnAllocate(d) ==
  /\ dep[d] = "spawning"
  /\ LET n == Least(d)
     IN  \/ /\ NotEnough(owner, n) \/ CannotColocate(owner, d, n)
            /\ Goto(d, "popping")
            /\ UNCHANGED <<owner, resources>>
         \/ /\ ~NotEnough(owner, n) /\ ~CannotColocate(owner, d, n)
            /\ resources' = [resources EXCEPT ![d] = Picked(owner, d, n)]
            /\ owner' = Give(owner, Range(Picked(owner, d, n)), d)
            /\ Goto(d, "registering")
  /\ UNCHANGED <<task_states, td, scVars, tmVars>>

(* Executors were to be killed; those left, if any, are still up.           *)
Strays(d, left) == astray' = IF left = {} THEN astray ELSE astray \cup {d}

(* The pod, the service, RegisterTask and the registry's sync.  The task    *)
(* manager has its GPUs and a healthy executor on them, and the call        *)
(* succeeds or the answer is lost or the sync fails.  Or it has not come    *)
(* up: nothing has been made, or its executor was not healthy and has been  *)
(* killed, unless that fails too, and it will not handle a Shutdown.        *)
Register(d) ==
  /\ dep[d] = "registering"
  /\ \/ /\ gpus' = [gpus EXCEPT ![d] = Range(resources[d])]
        /\ executors' = [executors EXCEPT ![d] = Groups(Range(resources[d]), Sizes(d))]
        /\ Goto(d, "notifying") \/ Goto(d, "undo")
        /\ UNCHANGED astray
     \/ /\ \E left \in SUBSET Groups(Range(resources[d]), Sizes(d)) : Strays(d, left)
        /\ Goto(d, "release")
        /\ UNCHANGED <<gpus, executors>>
  /\ UNCHANGED <<owner, task_states, resources, td, scVars>>

(* gpu.free() of every GPU in the list. *)
Free(gs) == owner' = Give(owner, Range(gs), Nobody)

(* The end of tear_down after a failed spawn. *)
Undo(d) ==
  /\ dep[d] = "release"
  /\ Free(resources[d])
  /\ Goto(d, "popping")
  /\ UNCHANGED <<task_states, resources, td, scVars, tmVars>>

Pop(d) ==
  /\ dep[d] = "popping" /\ RegistryFree
  /\ task_states' = task_states \ {d}
  /\ Goto(d, "failed")
  /\ UNCHANGED <<owner, resources, td, scVars, tmVars>>

(* All Task Dispatchers know the task, or one could not be told: then the   *)
(* state is popped and cleaned up, unless a Teardown has popped it already. *)
Notified(d) ==
  /\ dep[d] = "notifying"
  /\ \/ Goto(d, "ok") /\ UNCHANGED task_states
     \/ /\ RegistryFree
        /\ Goto(d, IF d \in task_states THEN "stopping" ELSE "disowned")
        /\ task_states' = task_states \ {d}
  /\ UNCHANGED <<owner, resources, td, scVars, tmVars>>

-----------------------------------------------------------------------------
(* teardown_unit_task and TaskManagerState.tear_down.                       *)

(* A state is found by its task and popped; then the instance name is       *)
(* compared with the one it was deployed under.                             *)
Teardown(d) ==
  /\ dep[d] # "idle" /\ td[d] = "no" /\ RegistryFree
  /\ \/ Running(d) = {} /\ GotoTd(d, "absent") /\ UNCHANGED task_states
     \/ \E e \in Running(d) :
          /\ task_states' = task_states \ {e}
          /\ GotoTd(d, IF e = d THEN "popped" ELSE "asserted")
  /\ UNCHANGED <<owner, resources, dep, scVars, tmVars>>

TeardownAnyway(d) ==
  /\ td[d] = "popped"
  /\ GotoTd(d, "stopping")
  /\ UNCHANGED <<owner, task_states, resources, dep, scVars, tmVars>>

(* The Task Dispatchers are told (or not), and the state's lock is taken.   *)
TeardownLocks(d) ==
  /\ td[d] = "popped" /\ LockFree(d)
  /\ GotoTd(d, "stopping")
  /\ UNCHANGED <<owner, task_states, resources, dep, scVars, tmVars>>

(* The task manager handles Shutdown and kills its executors.  One that     *)
(* cannot be killed is only logged, and an error of the call is suppressed, *)
(* so that any of them may be left, in nobody's table, when the task        *)
(* manager goes.                                                            *)
Shutdown(d) ==
  /\ \/ td[d] = "stopping" /\ GotoTd(d, "freeing") /\ UNCHANGED dep
     \/ dep[d] = "stopping" /\ Goto(d, "freeing") /\ UNCHANGED td
     \/ dep[d] = "undo" /\ Goto(d, "release") /\ UNCHANGED td
  /\ gpus' = [gpus EXCEPT ![d] = {}]
  /\ executors' = [executors EXCEPT ![d] = {}]
  /\ \E left \in SUBSET executors[d] : Strays(d, left)
  /\ UNCHANGED <<owner, task_states, resources, scVars>>

Stopped(d) ==
  /\ \/ td[d] = "freeing" /\ GotoTd(d, "done") /\ UNCHANGED dep
     \/ dep[d] = "freeing" /\ Goto(d, "failed") /\ UNCHANGED td
  /\ Free(resources[d])
  /\ UNCHANGED <<task_states, resources, scVars, tmVars>>

-----------------------------------------------------------------------------
(* scale_up_unit_task and scale_down_unit_task.                             *)

Up(s) == Amount[s] > 0

(* No Deploy of the task is under way. *)
Returned == {"idle", "ok", "noop", "failed", "disowned"}
MayScale(s) == \A d \in Ids : TaskOf[d] = TaskOf[s] => dep[d] \in Returned

ScaleNotRunning(s) ==
  /\ sc[s] = "idle" /\ MayScale(s) /\ RegistryFree
  /\ Running(s) = {}
  /\ GotoSc(s, "ok")
  /\ UNCHANGED <<owner, task_states, resources, dep, td, target, batch, tmVars>>

(* The state is found and the GPUs are taken, under task_states_lock.  When *)
(* the loop raises, what it has taken so far stays taken.                   *)
ScaleUp(s) ==
  /\ sc[s] = "idle" /\ MayScale(s) /\ RegistryFree /\ Up(s)
  /\ \E d \in Running(s) :
       LET a == ScaleUpBy(owner, d, Amount[s], Sizes(d))
       IN  /\ owner' = a.own
           /\ target' = [target EXCEPT ![s] = d]
           /\ batch' = [batch EXCEPT ![s] = a.got]
           /\ GotoSc(s, IF a.raised THEN "raised" ELSE "locking")
  /\ UNCHANGED <<task_states, resources, dep, td, tmVars>>

(* The state is found and has enough GPUs, now. *)
ScaleDown(s) ==
  /\ sc[s] = "idle" /\ MayScale(s) /\ RegistryFree /\ ~Up(s)
  /\ \E d \in Running(s) :
       IF Len(resources[d]) < -Amount[s]
       THEN GotoSc(s, "raised") /\ UNCHANGED target
       ELSE GotoSc(s, "locking") /\ target' = [target EXCEPT ![s] = d]
  /\ UNCHANGED <<owner, task_states, resources, dep, td, batch, tmVars>>

(* held[:n], which is all of it when there is less. *)
Prefix(held, n) == SubSeq(held, 1, IF n < Len(held) THEN n ELSE Len(held))

(* The state's lock is taken and UpdateResources is sent; a scale-down      *)
(* removes the GPUs at the head of the list.                                *)
ScaleLocks(s) ==
  /\ sc[s] = "locking" /\ LockFree(target[s])
  /\ GotoSc(s, "updating")
  /\ LET held == resources[target[s]]
     IN  batch' = [batch EXCEPT ![s] =
                     IF Up(s) THEN @ ELSE Prefix(held, -Amount[s])]
  /\ UNCHANGED <<owner, task_states, resources, dep, td, target, tmVars>>

(* TaskManager.update_resources: executors on removed GPUs are killed, and  *)
(* new ones are spawned on all GPUs without one; any of them may fail to    *)
(* come up and is then killed.  The executors of stuck could not be killed. *)
Kept(d, remove)        == { x \in executors[d] : x \cap remove = {} }
Losing(d, remove)      == executors[d] \ Kept(d, remove)
Idle(d, add, remove, busy) ==
  ((gpus[d] \ remove) \ UNION (Kept(d, remove) \cup busy)) \cup add

UpdateResources(d, add, remove, up, stuck) ==
  /\ gpus' = [gpus EXCEPT ![d] = (@ \ remove) \cup add]
  /\ executors' = [executors EXCEPT ![d] = Kept(d, remove) \cup up \cup stuck]
  /\ Strays(d, stuck)

(* The channel was closed by tear_down. *)
Gone(d) == td[d] \in {"freeing", "done"}

(* The task manager's side of a Scale.  It refuses, or is gone, or the call *)
(* does not reach it: then GPUs that a failed scale-up gives back are still *)
(* in its list.  Or it does as it is told; the answer is good when every    *)
(* new executor is up, and may be lost.                                     *)
Update(s) ==
  /\ sc[s] \in {"updating", "undoing"}
  /\ LET d      == target[s]
         these  == Range(batch[s])
         adding == Up(s) /\ sc[s] = "updating"
         add    == IF adding THEN these ELSE {}
         remove == IF adding THEN {} ELSE these
         good   == IF sc[s] = "undoing" THEN "undone" ELSE "updated"
         bad    == IF sc[s] = "undoing" THEN "undone" ELSE IF Up(s) THEN "undoing" ELSE "failed"
     IN  \/ /\ GotoSc(s, bad)
            /\ astray' = IF sc[s] = "undoing" /\ remove \cap gpus[d] # {}
                         THEN astray \cup {d} ELSE astray
            /\ UNCHANGED <<gpus, executors>>
         \/ /\ ~Gone(d) /\ remove \subseteq gpus[d] /\ add \cap gpus[d] = {}
            /\ \E busy \in SUBSET Losing(d, remove) :
                 LET wanted == Groups(Idle(d, add, remove, busy), Sizes(d))
                 IN  \E up \in SUBSET wanted : \E stuck \in SUBSET (wanted \ up) :
                       /\ UpdateResources(d, add, remove, up, busy \cup stuck)
                       /\ \/ up = wanted /\ GotoSc(s, good)
                          \/ GotoSc(s, bad)
  /\ UNCHANGED <<owner, task_states, resources, dep, td, target, batch>>

(* The answer was good: the list of the state follows.                      *)
Updated(s) ==
  /\ sc[s] = "updated" /\ RegistryFree
  /\ LET d == target[s]
     IN  \/ /\ Up(s)
            /\ resources' = [resources EXCEPT ![d] = @ \o batch[s]]
            /\ UNCHANGED owner
         \/ /\ ~Up(s)
            /\ resources' = [resources EXCEPT ![d] = SubSeq(@, -Amount[s] + 1, Len(@))]
            /\ Free(batch[s])
  /\ GotoSc(s, "ok")
  /\ UNCHANGED <<task_states, dep, td, target, batch, tmVars>>

(* The GPUs were taken back from the task manager, as far as it could.      *)
ScaleUpFailed(s) ==
  /\ sc[s] = "undone" /\ RegistryFree
  /\ Free(batch[s])
  /\ GotoSc(s, "failed")
  /\ UNCHANGED <<task_states, resources, dep, td, target, batch, tmVars>>

-----------------------------------------------------------------------------
GatewayCalls ==
  \/ \E d \in Ids : Deploy(d) \/ Teardown(d)
  \/ \E s \in Scales : ScaleNotRunning(s) \/ ScaleUp(s) \/ ScaleDown(s)

Progress ==
  \/ \E d \in Ids :
       \/ SpawnAllocate(d) \/ Register(d) \/ Undo(d) \/ Pop(d) \/ Notified(d)
       \/ TeardownLocks(d) \/ Shutdown(d) \/ Stopped(d)
  \/ \E s \in Scales : ScaleLocks(s) \/ Update(s) \/ Updated(s) \/ ScaleUpFailed(s)

(* Every call that was made has returned. *)
Quiet ==
  /\ \A d \in Ids : /\ dep[d] \in Returned
                    /\ td[d] \in {"no", "done", "absent", "asserted"}
  /\ \A s \in Scales : sc[s] \in {"idle", "ok", "failed", "raised"}
Stop == Quiet /\ UNCHANGED vars

Next == GatewayCalls \/ Progress \/ Stop

Spec == Init /\ [][Next]_vars

(* The event loop goes on, and so do the servers it calls.  The gateway     *)
(* need not call anything.  A call takes a bounded number of steps, and     *)
(* there are finitely many calls, so that fairness of the whole is enough.  *)
FairSpec == Spec /\ WF_vars(Progress)

-----------------------------------------------------------------------------
TypeOK ==
  /\ owner \in [GPUs -> Ids \cup {Nobody}]
  /\ task_states \subseteq Ids
  /\ resources \in [Ids -> Seq(GPUs)]
  /\ dep \in [Ids -> DepStates]
  /\ td \in [Ids -> TdStates]
  /\ sc \in [Scales -> ScStates]
  /\ target \in [Scales -> Ids \cup {NoId}]
  /\ batch \in [Scales -> Seq(GPUs)]
  /\ gpus \in [Ids -> SUBSET GPUs]
  /\ executors \in [Ids -> SUBSET SUBSET GPUs]
  /\ astray \subseteq Ids
  /\ \A s \in Scales : target[s] # NoId => TaskOf[target[s]] = TaskOf[s]

(* No GPU is used by two: what a task manager has, the Resource Manager has *)
(* allocated to it, and no two executors of a task manager share a GPU;     *)
(* whatever calls run at the same time, and whichever executors fail to     *)
(* come up, calls are refused and answers lost.  Nothing is claimed of a    *)
(* task manager that a failure has left astray: the code frees its GPUs     *)
(* though a Shutdown has not reached it, a scale-up could not be taken back *)
(* from it, or an executor could not be killed.                             *)
UsedAreOwned ==
  /\ TypeOK
  /\ \A d \in Ids \ astray :
       /\ \A g \in gpus[d] : owner[g] = d
       /\ \A x \in executors[d] : x \subseteq gpus[d]
       /\ \A x, y \in executors[d] : x # y => x \cap y = {}

(* The state of d, and the scale-ups for d that have taken GPUs and neither *)
(* recorded nor freed them.  One that has raised never will: the code       *)
(* forgets what it had taken before the allocation that failed.             *)
Holding(d) ==
  /\ dep[d] \in {"registering", "undo", "release", "notifying", "stopping", "freeing",
                "ok", "disowned"}
  /\ td[d] # "done"
Taking(s, d) ==
  /\ Up(s) /\ target[s] = d
  /\ sc[s] \in {"locking", "updating", "updated", "undoing", "undone", "raised"}
TakenBy(scs) == UNION { Range(batch[s]) : s \in scs }
Recorded(d) ==
  (IF Holding(d) THEN Range(resources[d]) ELSE {})
    \cup TakenBy({ s \in Scales : Taking(s, d) /\ sc[s] # "raised" })
Dropped(d) == TakenBy({ s \in Scales : Taking(s, d) /\ sc[s] = "raised" })

(* A call can still find d's state, or one that has popped it will free its *)
(* GPUs.  A Teardown that failed its assertion has popped it for good, and  *)
(* its GPUs are lost: nothing is claimed of it.                             *)
Reachable(d) ==
  \/ d \in task_states
  \/ td[d] \in {"popped", "stopping", "freeing"} \/ dep[d] \in {"stopping", "freeing"}
  \/ \E e \in Others(d) : td[e] = "asserted"

(* Every GPU that somebody owns is in the books of that owner, and the      *)
(* owner can be found: a Teardown, a failed Deploy or a failed Scale gives  *)
(* back all it took, whatever ran beside it and whatever failed.  A GPU is  *)
(* lost by a scale-up that raises in the middle of its allocation, and by   *)
(* nothing else but a Teardown that fails its assertion.                    *)
NoGPULost ==
  \A d \in Ids :
    /\ { g \in GPUs : owner[g] = d } = Recorded(d) \cup Dropped(d)
    /\ Holding(d) => Reachable(d)

(* Every call returns: no handler waits for ever for a lock, though the     *)
(* handlers take a state's lock and then the registry's and a failed        *)
(* notification keeps the registry's for long.                              *)
EveryCallReturns == []<>Quiet

=============================================================================
