------------------------------- MODULE Registry -------------------------------
(***************************************************************************)
(* The task registry (services/task_registry): task classes and execution  *)
(* descriptors live in Kubernetes as custom resources, which the gateway   *)
(* creates and deletes on the requests of `cornserve tasklib` (cli/main.py)*)
(* and which every service follows with two watchers, one for each kind,   *)
(* that load what is added into the registries of the process and empty    *)
(* both registries when something is deleted.                              *)
(*                                                                         *)
(* `log` is the history that Kubernetes keeps: the resource version of its *)
(* i-th event is i + 1.  A module holds one class, a task has at most one  *)
(* descriptor, and what a descriptor imports, its task imports.  A sync    *)
(* waits until both watchers have reached the versions that the gateway    *)
(* has recorded; a task manager is registered and then synced.  There is   *)
(* one client at a time.                                                   *)
(***************************************************************************)
EXTENDS Naturals, Sequences, FiniteSetsExt

CONSTANTS
  Tasks,       (* the definitions of task classes                          *)
  Descriptors, (* the execution descriptors                                *)
  Imports,     (* [Tasks -> the tasks whose modules its module imports]    *)
  TaskOf,      (* [Descriptors -> the task it is for]                      *)
  Batches,     (* what a client deploys, request by request: unit tasks    *)
               (* and their descriptors, then composite tasks              *)
  Control,     (* the services of the control plane                        *)
  Managers,    (* the task managers, which start later                     *)
  Served,      (* the names of the task and the descriptor they serve      *)
  MaxRounds, MaxFaults   (* bounds: how often clients start over; a fault  *)
                         (* is a failed request, an expired watch or a     *)
                         (* crash                                          *)

Names == Tasks \cup Descriptors
Services == Control \cup Managers
Kinds == {"task", "descriptor"}
Kind(n) == IF n \in Tasks THEN "task" ELSE "descriptor"

ASSUME RegistryAssumption ==
  /\ Imports \in [Tasks -> SUBSET Tasks] /\ TaskOf \in [Descriptors -> Tasks]
  /\ Tasks \cap Descriptors = {} /\ Control \cap Managers = {}
  /\ IsFiniteSet(Names) /\ Batches \in Seq(SUBSET Names)
  /\ Served \subseteq Names /\ MaxRounds \in Nat /\ MaxFaults \in Nat

(* "We firstly deploy unit tasks and descriptors because the composite ones *)
(* depend on them" (cli/main.py:725).                                       *)
Closed(S) ==
  /\ \A t \in S \cap Tasks : Imports[t] \subseteq S
  /\ \A d \in S \cap Descriptors : TaskOf[d] \in S
Earlier(m) == UNION { Batches[i] : i \in 1 .. m }
ASSUME SelfContained == \A m \in 0 .. Len(Batches) : Closed(Earlier(m))

VARIABLES
  log,      (* the events of the custom resources, <<name, added>>         *)
  latest,   (* LatestTasklibRV: [Kinds -> version]                         *)
  request,  (* what the gateway works on                                   *)
  batch,    (* the next batch of the client                                *)
  todo,     (* the custom resources of the request still to be created     *)
  newest,   (* [Kinds -> the latest version created by the request]        *)
  awaited,  (* the services whose sync the request awaits                  *)
  deployed, (* the names of the requests that have been recorded           *)
  bounds,   (* how often clients have started over, and the faults so far  *)
  state,    (* [Services -> its life]                                      *)
  registry, (* [Services -> its registries and the files they come from]   *)
  rv,       (* [Services -> [Kinds -> the version its watcher has reached]]*)
  listing,  (* [Services -> [Kinds -> the version of the list it handles]] *)
  target,   (* [Services -> the versions its sync waits for, <<>> if none] *)
  hoped,    (* ghost: [Services -> the names that its sync waits for]      *)
  promised, (* ghost: [Services -> the names that its syncs have waited    *)
            (* for, since the last purge]                                  *)
  overtaken (* ghost: the services that were told of a deletion after they *)
            (* had been brought what is there now                          *)

k8sVars == <<log, latest>>
requestVars == <<request, batch, todo, newest, awaited, deployed>>
watchVars == <<registry, rv, listing, overtaken>>
syncVars == <<target, hoped, promised>>
vars == <<k8sVars, requestVars, bounds, state, watchVars, syncVars>>

Requests == {"idle", "creating", "syncing", "deleting", "failed"}
States == {"down", "up", "registered", "refused"}

Nothing == [files |-> {}, tasks |-> {}, waiting |-> {}, descriptors |-> {}, queued |-> {}]
Zero == [k \in Kinds |-> 0]

Init ==
  /\ log = <<>> /\ latest = Zero
  /\ request = "idle" /\ batch = 1 /\ todo = {} /\ newest = Zero /\ awaited = {}
  /\ deployed = {} /\ bounds = [rounds |-> 0, faults |-> 0]
  /\ state = [s \in Services |-> IF s \in Control THEN "up" ELSE "down"]
  /\ registry = [s \in Services |-> Nothing]
  /\ rv = [s \in Services |-> Zero] /\ listing = [s \in Services |-> Zero]
  /\ target = [s \in Services |-> <<>>]
  /\ hoped = [s \in Services |-> {}] /\ promised = [s \in Services |-> {}]
  /\ overtaken = {}

-----------------------------------------------------------------------------
(* Kubernetes. *)
Version == Len(log) + 1
EventsOf(S, v) == { i \in 1 .. v - 1 : log[i][1] \in S }
PresentAt(v) ==
  { n \in Names : \E i \in 1 .. v - 1 :
      log[i] = <<n, TRUE>> /\ \A j \in i + 1 .. v - 1 : log[j] # <<n, FALSE>> }
Present == PresentAt(Version)

(* It was created before version v, and not deleted since.                  *)
Stays(n, v) ==
  \E i \in 1 .. Version - 1 :
    i < v /\ log[i] = <<n, TRUE>> /\ \A j \in i + 1 .. Version - 1 : log[j] # <<n, FALSE>>

Loaded(s) == registry[s].tasks \cup registry[s].descriptors
Alive(s) == state[s] \in {"up", "registered"}

NamesOf(k) == IF k = "task" THEN Tasks ELSE Descriptors
Unseen(s, k) == { i \in EventsOf(NamesOf(k), Version) : i >= rv[s][k] }

(* What is there and has been brought, or promised, to a service.           *)
Brought(s) == { n \in Names : Stays(n, rv[s][Kind(n)]) \/ n \in promised[s] }

-----------------------------------------------------------------------------
(* deploy_tasks of the gateway, on the next request of the client, at once  *)
(* after the one before or after a purge; or on the first, of a client that *)
(* starts over without a purge (frontend.py:203-252).                       *)
MayStartOver == request = "failed" \/ (request = "idle" /\ batch > Len(Batches))
Deploy ==
  /\ \/ request = "idle" /\ batch <= Len(Batches) /\ UNCHANGED <<batch, bounds>>
     \/ /\ MayStartOver /\ Len(Batches) > 0 /\ bounds.rounds < MaxRounds
        /\ batch' = 1 /\ bounds' = [bounds EXCEPT !.rounds = @ + 1]
  /\ request' = "creating" /\ todo' = Batches[batch'] /\ newest' = Zero
  /\ UNCHANGED <<k8sVars, awaited, deployed, state, watchVars, syncVars>>

(* The custom resource may be there already. *)
Create(n) ==
  /\ request = "creating" /\ n \in todo
  /\ todo' = todo \ {n}
  /\ IF n \in Present THEN UNCHANGED <<log, newest>>
     ELSE /\ log' = Append(log, <<n, TRUE>>)
          /\ newest' = [newest EXCEPT ![Kind(n)] = Version + 1]
  /\ UNCHANGED <<latest, request, batch, awaited, deployed, bounds, state, watchVars, syncVars>>

Record ==
  /\ request = "creating" /\ todo = {}
  /\ latest' = newest
  /\ deployed' = deployed \cup Batches[batch]
  /\ request' = "syncing" /\ awaited' = Control
  /\ UNCHANGED <<log, batch, todo, newest, bounds, state, watchVars, syncVars>>

Synced ==
  /\ request = "syncing" /\ awaited = {}
  /\ request' = "idle" /\ batch' = batch + 1
  /\ UNCHANGED <<k8sVars, todo, newest, awaited, deployed, bounds, state, watchVars, syncVars>>

(* A creation, the update of LatestTasklibRV, a sync or a deletion fails,   *)
(* or one takes too long.  The syncs that are going on go on waiting, for   *)
(* nobody.                                                                  *)
RequestFails ==
  /\ request \in {"creating", "syncing", "deleting"} /\ bounds.faults < MaxFaults
  /\ request' = "failed" /\ todo' = {} /\ awaited' = {}
  /\ bounds' = [bounds EXCEPT !.faults = @ + 1]
  /\ target' = [s \in Services |-> IF s \in awaited THEN <<>> ELSE target[s]]
  /\ UNCHANGED <<k8sVars, batch, newest, deployed, state, watchVars, hoped, promised>>

(* purge_tasklib, of an idle cluster, descriptors first: `tasklib deploy`   *)
(* begins with it (cli/main.py:733-740).                                    *)
Purge ==
  /\ MayStartOver /\ bounds.rounds < MaxRounds
  /\ \A s \in Managers : state[s] = "down"
  /\ request' = "deleting" /\ batch' = 1 /\ deployed' = {}
  /\ bounds' = [bounds EXCEPT !.rounds = @ + 1]
  /\ hoped' = [s \in Services |-> {}] /\ promised' = [s \in Services |-> {}]
  /\ UNCHANGED <<k8sVars, todo, newest, awaited, state, watchVars, target>>

Delete(n) ==
  /\ request = "deleting" /\ n \in Present
  /\ n \in Tasks => Present \cap Descriptors = {}
  /\ log' = Append(log, <<n, FALSE>>)
  /\ UNCHANGED <<latest, requestVars, bounds, state, watchVars, syncVars>>

Purged ==
  /\ request = "deleting" /\ Present = {}
  /\ request' = "idle"
  /\ UNCHANGED <<k8sVars, batch, todo, newest, awaited, deployed, bounds, state, watchVars, syncVars>>

-----------------------------------------------------------------------------
(* TaskClassRegistry and TaskExecutionDescriptorRegistry.  A module is      *)
(* written to its file before it is imported, and can be imported when the  *)
(* files of all it imports are there.                                       *)
ImportClosed(S) == \A t \in S : Imports[t] \subseteq S
Closure ==
  [t \in Tasks |->
     { u \in Tasks : \A S \in SUBSET Tasks : t \in S /\ ImportClosed(S) => u \in S }]

Importable(files, t) == Closure[t] \subseteq files

(* Tasks that are not tried again when a module they import comes. *)
BindNone(reg, t) == {t}
BindPending(reg, t) == {t} \cup { w \in reg.waiting : Importable(reg.files \cup {t}, w) }

(* Descriptors that wait although the task comes. *)
BindDescriptorsLate(reg, bound) == { d \in reg.queued : TaskOf[d] \in reg.tasks }
BindDescriptors(reg, bound) == { d \in reg.queued : TaskOf[d] \in bound }

LoadTask(reg, t) ==
  IF Importable(reg.files \cup {t}, t)
  THEN LET bound == BindPending(reg, t)
           found == BindDescriptors(reg, bound)
       IN [files       |-> reg.files \cup {t} \cup found,
           tasks       |-> reg.tasks \cup bound,
           waiting     |-> reg.waiting \ bound,
           descriptors |-> reg.descriptors \cup found,
           queued      |-> reg.queued \ found]
  ELSE [reg EXCEPT !.files = @ \cup {t}, !.waiting = @ \cup {t}]

LoadDescriptor(reg, d) ==
  IF TaskOf[d] \in reg.tasks
  THEN [reg EXCEPT !.files = @ \cup {d}, !.descriptors = @ \cup {d}]
  ELSE [reg EXCEPT !.queued = @ \cup {d}]

Load(reg, n) == IF n \in Tasks THEN LoadTask(reg, n) ELSE LoadDescriptor(reg, n)
LoadAll(reg, q) ==
  LET loaded[i \in 0 .. Len(q)] == IF i = 0 THEN reg ELSE Load(loaded[i - 1], q[i])
  IN loaded[Len(q)]

(* _purge_local_registries_if_needed, if there is a directory. *)
PurgeLocal(reg) == IF reg.files = {} THEN reg ELSE Nothing

-----------------------------------------------------------------------------
(* _watch_resource: the list, and the events since. *)
ListObjects(s, k) ==
  /\ Alive(s) /\ rv[s][k] = 0 /\ listing[s][k] = 0
  /\ listing' = [listing EXCEPT ![s][k] = Version]
  /\ UNCHANGED <<k8sVars, requestVars, bounds, state, registry, rv, overtaken, syncVars>>

HandleList(s, k) ==
  /\ Alive(s) /\ listing[s][k] > 0
  /\ LET objects == PresentAt(listing[s][k]) \cap NamesOf(k)
     IN \E q \in Bijection(1 .. Cardinality(objects), objects) :
          registry' = [registry EXCEPT ![s] = LoadAll(@, q)]
  /\ rv' = [rv EXCEPT ![s][k] = listing[s][k]]
  /\ listing' = [listing EXCEPT ![s][k] = 0]
  /\ UNCHANGED <<k8sVars, requestVars, bounds, state, overtaken, syncVars>>

(* Any deletion purges all, also what the other watcher has brought since.  *)
HandleEvent(s, k) ==
  /\ Alive(s) /\ rv[s][k] > 0 /\ Unseen(s, k) # {}
  /\ LET i == Min(Unseen(s, k))
     IN /\ rv' = [rv EXCEPT ![s][k] = i + 1]
        /\ \/ /\ log[i][2]
              /\ registry' = [registry EXCEPT ![s] = Load(@, log[i][1])]
              /\ UNCHANGED overtaken
           \/ /\ ~log[i][2]
              /\ registry' = [registry EXCEPT ![s] = PurgeLocal(@)]
              /\ overtaken' = IF Brought(s) = {} THEN overtaken \ {s} ELSE overtaken \cup {s}
  /\ UNCHANGED <<k8sVars, requestVars, bounds, state, listing, syncVars>>

(* 410 Gone: what was deleted meanwhile is never told. *)
Expire(s, k) ==
  /\ Alive(s) /\ rv[s][k] > 0 /\ bounds.faults < MaxFaults
  /\ rv' = [rv EXCEPT ![s][k] = 0]
  /\ bounds' = [bounds EXCEPT !.faults = @ + 1]
  /\ UNCHANGED <<k8sVars, requestVars, state, registry, listing, overtaken, syncVars>>

-----------------------------------------------------------------------------
(* sync_watchers.  It waits for no custom resource of a kind of which the   *)
(* last request has created none, as its version is 0 then                  *)
(* (router.py:487-494), and for nothing when LatestTasklibRV cannot be read.*)
Syncing(s) == s \in awaited \/ (state[s] = "registered" /\ promised[s] = {})

WaitedFor == { n \in deployed : latest["task"] > 0 /\ latest[Kind(n)] > 0 }
SyncBegins(s) ==
  /\ Alive(s) /\ Syncing(s) /\ target[s] = <<>>
  /\ \/ target' = [target EXCEPT ![s] = latest] /\ hoped' = [hoped EXCEPT ![s] = WaitedFor]
     \/ target' = [target EXCEPT ![s] = Zero] /\ hoped' = [hoped EXCEPT ![s] = {}]
  /\ UNCHANGED <<k8sVars, requestVars, bounds, state, watchVars, promised>>

(* One of the two watchers is enough. *)
ReachedOne(s) == \E k \in Kinds : rv[s][k] >= target[s][k]
Reached(s) == \A k \in Kinds : rv[s][k] >= target[s][k]

SyncEnds(s) ==
  /\ target[s] # <<>> /\ Reached(s)
  /\ target' = [target EXCEPT ![s] = <<>>]
  /\ promised' = [promised EXCEPT ![s] = @ \cup hoped[s]]
  /\ awaited' = awaited \ {s}
  /\ UNCHANGED <<k8sVars, request, batch, todo, newest, deployed, bounds, state, watchVars, hoped>>

(* The Resource Manager starts a task manager for a task that the control   *)
(* plane has loaded, registers the task with it, when get_task_instance and *)
(* the descriptor of the task are looked up, and then has it synced.        *)
Fresh(s) ==
  /\ registry' = [registry EXCEPT ![s] = Nothing]
  /\ rv' = [rv EXCEPT ![s] = Zero] /\ listing' = [listing EXCEPT ![s] = Zero]
  /\ target' = [target EXCEPT ![s] = <<>>]
  /\ hoped' = [hoped EXCEPT ![s] = {}] /\ promised' = [promised EXCEPT ![s] = {}]
  /\ overtaken' = overtaken \ {s}

Start(s) ==
  /\ state[s] = "down"
  /\ s \in Managers => \A c \in Control : Alive(c) /\ Served \cap Tasks \subseteq Loaded(c)
  /\ state' = [state EXCEPT ![s] = "up"]
  /\ Fresh(s)
  /\ UNCHANGED <<k8sVars, requestVars, bounds>>

Register(s) ==
  /\ s \in Managers /\ state[s] = "up"
  /\ state' = [state EXCEPT ![s] = IF Served \subseteq Loaded(s) THEN "registered" ELSE "refused"]
  /\ UNCHANGED <<k8sVars, requestVars, bounds, watchVars, syncVars>>

(* A task manager is torn down; any process may crash, with its files.      *)
Stop(s) ==
  /\ \/ s \in Managers /\ state[s] # "down" /\ UNCHANGED bounds
     \/ s \in Control /\ state[s] = "up" /\ bounds.faults < MaxFaults
        /\ bounds' = [bounds EXCEPT !.faults = @ + 1]
  /\ state' = [state EXCEPT ![s] = "down"]
  /\ Fresh(s)
  /\ UNCHANGED <<k8sVars, requestVars>>

-----------------------------------------------------------------------------
Handler ==
  Record \/ Synced \/ Purged \/ \E n \in Names : Create(n) \/ Delete(n)
Watch(s, k) == ListObjects(s, k) \/ HandleList(s, k) \/ HandleEvent(s, k)
Sync(s) == SyncBegins(s) \/ SyncEnds(s)

(* The client has deployed everything, or has given up. *)
Settled ==
  \/ request = "idle" /\ batch > Len(Batches)
  \/ request = "failed"

Next ==
  \/ Deploy \/ RequestFails \/ Purge \/ Handler
  \/ \E s \in Services : Sync(s) \/ Start(s) \/ Register(s) \/ Stop(s)
  \/ \E s \in Services, k \in Kinds : Watch(s, k) \/ Expire(s, k)
  \/ Settled /\ UNCHANGED vars

Spec == Init /\ [][Next]_vars

(* The gateway and the watchers of the control plane go on while they have  *)
(* anything to do, which is never more than finitely many steps, and crashed*)
(* services are restarted.  Clients may stop at any time, and no task       *)
(* manager need be started.                                                 *)
ControlPlane ==
  Handler \/ \E s \in Control : Sync(s) \/ Start(s) \/ \E k \in Kinds : Watch(s, k)

FairSpec == Spec /\ WF_vars(ControlPlane)

-----------------------------------------------------------------------------
Registries ==
  [files : SUBSET Names, tasks : SUBSET Tasks, waiting : SUBSET Tasks,
   descriptors : SUBSET Descriptors, queued : SUBSET Descriptors]

TypeOK ==
  /\ log \in Seq(Names \X BOOLEAN) /\ latest \in [Kinds -> Nat]
  /\ request \in Requests /\ batch \in 1 .. Len(Batches) + 1
  /\ todo \subseteq Names /\ newest \in [Kinds -> Nat]
  /\ awaited \subseteq Control /\ deployed \subseteq Names
  /\ state \in [Services -> States] /\ registry \in [Services -> Registries]
  /\ rv \in [Services -> [Kinds -> Nat]] /\ listing \in [Services -> [Kinds -> Nat]]
  /\ target \in [Services -> [Kinds -> Nat] \cup {<<>>}]
  /\ hoped \in [Services -> SUBSET Names] /\ promised \in [Services -> SUBSET Names]
  /\ overtaken \subseteq Services

(* Who has been synced has loaded what the sync has waited for and has not  *)
(* been purged since, in whatever order the two watchers bring classes,     *)
(* modules and descriptors, however often a watch expires and the service   *)
(* crashes (sync_watchers, registry.py:410-415).  It is not so for a        *)
(* service that learns of an earlier purge from the one watcher when the    *)
(* other has brought what was deployed after it: all of that is dropped     *)
(* (registry.py:452-469) and comes again only with a restart or a relist.   *)
(* `tasklib deploy` makes that possible: it deploys as soon as the gateway  *)
(* has deleted (cli/main.py:733-787).                                       *)
PromisedAreLoaded ==
  \A s \in Services : Alive(s) /\ s \notin overtaken => promised[s] \subseteq Loaded(s)

(* A task waits only for modules that have not come, and a descriptor only  *)
(* for its task; what is loaded has all its modules in the directory that a *)
(* purge looks for (registry.py:452-469, task_class_registry.py:151-183).   *)
WaitsForAReason ==
  /\ TypeOK
  /\ \A s \in Services :
    /\ \A t \in registry[s].waiting : ~Importable(registry[s].files, t)
    /\ \A d \in registry[s].queued : TaskOf[d] \notin registry[s].tasks
    /\ \A t \in registry[s].tasks : Importable(registry[s].files, t)
    /\ \A d \in registry[s].descriptors : TaskOf[d] \in registry[s].tasks

(* In the end every service of the control plane has loaded all that is     *)
(* deployed, also what no sync waits for, once clients leave it alone;      *)
(* again, if no deletion has overtaken it.                                  *)
Converges ==
  <>[](\A s \in Control : s \notin overtaken => deployed \subseteq Loaded(s))

=============================================================================
