------------------------------- MODULE Gateway ------------------------------
(***************************************************************************)
(* The gateway: its task manager (services/gateway/task_manager.py), the   *)
(* applications (app/manager.py) and the debug sessions (session.py) that  *)
(* use tasks, and the invocations of their task graphs.                    *)
(*                                                                         *)
(* One asyncio event loop; an action is a segment of a handler up to its   *)
(* next await that suspends.  app_lock is never held over an await;        *)
(* task_lock is held over all of declare_used and declare_not_used, and    *)
(* the lock of the sessions over a whole request.  The order in which a    *)
(* lock is given to those who wait for it is left open.                    *)
(*                                                                         *)
(* A task stands for all tasks that are equivalent to it, of which the     *)
(* table has at most one.  An instance is named by the user that had it    *)
(* deployed.  A client does not go away in the middle of a request.        *)
(***************************************************************************)
EXTENDS Integers, Sequences, FiniteSets

CONSTANTS
  Tasks,        (* unit tasks up to equivalence                            *)
  Apps,         (* registrations of applications                           *)
  Sessions,     (* debug sessions                                          *)
  Uses,         (* [Apps \cup Sessions -> sequence of tasks]               *)
  Invocations,  (* invocations of task graphs                              *)
  Needs,        (* [Invocations -> sequence of its tasks]                  *)
  By,           (* [Invocations -> the application or session]             *)
  Flaky,        (* the tasks whose Teardown may fail                       *)
  Hasty,        (* the applications that may be unregistered before they   *)
                (* are ready                                               *)
  Casts         (* sets of users that may come together                    *)

Users == Apps \cup Sessions
Nobody == "nobody"
In(seq) == { seq[k] : k \in DOMAIN seq }
Places(seq, t) == { k \in DOMAIN seq : seq[k] = t }
Times(seq, t) == Cardinality(Places(seq, t))

ASSUME GatewayAssumption ==
  /\ Apps \cap Sessions = {} /\ Nobody \notin Users
  /\ Uses \in [Users -> Seq(Tasks)]
  /\ \A a \in Apps, t \in Tasks : Times(Uses[a], t) <= 1
  /\ Needs \in [Invocations -> Seq(Tasks)]
  /\ By \in [Invocations -> Users]
  /\ Flaky \subseteq Tasks /\ Hasty \subseteq Apps /\ Casts \subseteq SUBSET Users

VARIABLES
  apps,        (* the keys of self.apps                                    *)
  app_states,  (* [Apps -> self.app_states, or "absent"]                   *)
  holding,     (* the sessions that have their tasks in session.tasks      *)
  closed,      (* the sessions whose socket has been closed                *)
  use,         (* [Users -> where its declare_used is]                     *)
  unuse,       (* [Users -> where its declare_not_used is]                 *)
  lock,        (* who has task_lock, or Nobody                             *)
  task_states, (* [Tasks -> self.task_states, or "absent"]                 *)
  usage,       (* [Tasks -> self.task_usage_counter]                       *)
  names,       (* [Tasks -> self.unit_task_instance_names, or Nobody]      *)
  snapshot,    (* the tables before the declare_used that has the lock     *)
  batch,       (* to_deploy or to_teardown of the call that has the lock   *)
  pending,     (* the tasks of the batch without an answer yet             *)
  errors,      (* the tasks of the batch whose answer is an error          *)
  running,     (* [Tasks -> the instances the Resource Manager runs]       *)
  flight,      (* the Deploy calls that nobody waits for: task and user    *)
  unsure,      (* ghost: the tasks of which a Teardown has failed, or a    *)
               (* Deploy was left in flight                                *)
  inv,         (* [Invocations -> where it is]                             *)
  task_invocation_tasks  (* [Tasks -> set of invocations]                  *)

appVars == <<apps, app_states, holding, closed>>
table == <<task_states, usage, names>>
Tables == [states |-> task_states, usage |-> usage, names |-> names]
calls == <<batch, pending, errors>>
rmVars == <<running, flight, unsure>>
invVars == <<inv, task_invocation_tasks>>
vars == <<appVars, use, unuse, lock, table, snapshot, calls, rmVars, invVars>>

UseStates == {"idle", "listed", "queued", "deploying", "undoing", "held", "failed"}
UnuseStates == {"idle", "queued", "tearing", "released", "failed"}
InvStates == {"idle", "checking", "running", "answered", "cancelled", "refused", "ended"}

Init ==
  /\ apps = {} /\ app_states = [a \in Apps |-> "absent"]
  /\ holding = {} /\ closed = {}
  /\ \E cast \in Casts : use = [u \in Users |-> IF u \in cast THEN "idle" ELSE "failed"]
  /\ unuse = [u \in Users |-> "idle"]
  /\ lock = Nobody
  /\ task_states = [t \in Tasks |-> "absent"]
  /\ usage = [t \in Tasks |-> 0]
  /\ names = [t \in Tasks |-> Nobody]
  /\ snapshot = Tables
  /\ batch = {} /\ pending = {} /\ errors = {}
  /\ running = [t \in Tasks |-> {}] /\ flight = {} /\ unsure = {}
  /\ inv = [i \in Invocations |-> "idle"]
  /\ task_invocation_tasks = [t \in Tasks |-> {}]

Set(f, S, v) == [x \in DOMAIN f |-> IF x \in S THEN v ELSE f[x]]
GotoUse(u, pc) == use' = [use EXCEPT ![u] = pc]
GotoUnuse(u, pc) == unuse' = [unuse EXCEPT ![u] = pc]

-----------------------------------------------------------------------------
(* Applications and sessions.                                               *)

(* validate_and_create_app; the client is told the id. *)
RegisterApp(a) ==
  /\ use[a] = "idle"
  /\ apps' = apps \cup {a} /\ app_states' = [app_states EXCEPT ![a] = "not ready"]
  /\ GotoUse(a, "listed")
  /\ UNCHANGED <<holding, closed, unuse, lock, table, snapshot, calls, rmVars, invVars>>

(* deploy_app_tasks until it waits for task_lock. *)
DeployApp(a) ==
  /\ use[a] = "listed"
  /\ \/ a \in apps /\ GotoUse(a, "queued") /\ UNCHANGED app_states
     \/ a \notin apps /\ GotoUse(a, "failed") /\ app_states' = [app_states EXCEPT ![a] = "absent"]
  /\ UNCHANGED <<apps, holding, closed, unuse, lock, table, snapshot, calls, rmVars, invVars>>

UnregisterApp(a) ==
  /\ a \in apps /\ (a \in Hasty \/ app_states[a] = "ready")
  /\ apps' = apps \ {a} /\ app_states' = [app_states EXCEPT ![a] = "absent"]
  /\ GotoUnuse(a, "queued")
  /\ UNCHANGED <<holding, closed, use, lock, table, snapshot, calls, rmVars, invVars>>

(* A session has one request at a time, and there is one lock for all.      *)
SessionsIdle ==
  \A s \in Sessions : use[s] \notin {"queued", "deploying", "undoing"}
                        /\ unuse[s] \notin {"queued", "tearing"}

RequestUse(s) ==
  /\ SessionsIdle /\ use[s] = "idle" /\ s \notin closed
  /\ GotoUse(s, "queued")
  /\ UNCHANGED <<appVars, unuse, lock, table, snapshot, calls, rmVars, invVars>>

RequestNotUse(s) ==
  /\ SessionsIdle /\ s \in holding \ closed /\ unuse[s] = "idle"
  /\ GotoUnuse(s, "queued")
  /\ UNCHANGED <<appVars, use, lock, table, snapshot, calls, rmVars, invVars>>

(* destroy_session, which gives back what the session still has. *)
Destroy(s) ==
  /\ SessionsIdle /\ s \notin closed
  /\ closed' = closed \cup {s}
  /\ \/ s \in holding /\ GotoUnuse(s, "queued")
     \/ s \notin holding /\ UNCHANGED unuse
  /\ UNCHANGED <<apps, app_states, holding, use, lock, table, snapshot, calls, rmVars, invVars>>

(* What the caller of declare_used and of declare_not_used does next. *)
Retry(u, ok) == GotoUse(u, IF ok THEN "held" ELSE "queued") /\ UNCHANGED appVars
AfterUse(u, ok) ==
  /\ GotoUse(u, IF ok THEN "held" ELSE "failed")
  /\ apps' = IF ok THEN apps ELSE apps \ {u}
  /\ app_states' = [a \in Apps |-> IF a # u THEN app_states[a] ELSE IF ok THEN "ready" ELSE "absent"]
  /\ holding' = IF ok THEN holding \cup ({u} \cap Sessions) ELSE holding
  /\ UNCHANGED closed

AfterUnuse(u, ok) ==
  /\ GotoUnuse(u, IF ok THEN "released" ELSE "failed")
  /\ holding' = IF ok THEN holding \ {u} ELSE holding
  /\ UNCHANGED <<apps, app_states, closed>>

-----------------------------------------------------------------------------
(* TaskManager.declare_used.                                                *)

(* Under the lock, up to the gather.  The instances are created one after   *)
(* the other, and each is followed at once by its Deploy call; when the     *)
(* next cannot be created, the calls made so far are left to themselves and *)
(* are not waited for.  With nothing to deploy it goes on to the end.       *)
FirstOf(seq, k) == In(SubSeq(seq, 1, k))
DeclareUsed(u) ==
  LET want == In(Uses[u])
      new  == { t \in want : task_states[t] = "absent" }
  IN  /\ use[u] = "queued" /\ lock = Nobody
      /\ snapshot' = Tables
      /\ usage' = [t \in Tasks |-> usage[t] + Times(Uses[u], t)]
      /\ \/ /\ new # {}
            /\ lock' = u
            /\ task_states' = Set(task_states, new, "deploying")
            /\ \E k \in 0 .. Len(Uses[u]) :
                 LET made == new \cap FirstOf(Uses[u], k)
                 IN  /\ names' = Set(names, made, u)
                     /\ batch' = made
                     /\ \/ /\ made = new
                           /\ GotoUse(u, "deploying")
                           /\ UNCHANGED <<flight, unsure>>
                        \/ /\ made # new
                           /\ GotoUse(u, "undoing")
                           /\ flight' = flight \cup made \X {u}
                           /\ unsure' = unsure \cup made
            /\ pending' = batch' /\ errors' = {}
            /\ UNCHANGED appVars
         \/ /\ new = {}
            /\ task_states' = Set(task_states, want, "ready")
            /\ AfterUse(u, TRUE)
            /\ UNCHANGED <<lock, names, calls, flight, unsure>>
      /\ UNCHANGED <<unuse, running, invVars>>

(* DeployUnitTask of the Resource Manager, which does nothing for a task it *)
(* runs, unless this was not up yet when the call came.                     *)
Started(t, u) ==
  LET up == [running EXCEPT ![t] = @ \cup {u}]
  IN  IF running[t] = {} THEN {up} ELSE {running} \cup (IF t \in unsure THEN {up} ELSE {})

(* It answers.  An error may stand for an answer that was lost.             *)
Deployed(t) ==
  /\ lock # Nobody /\ use[lock] = "deploying" /\ t \in pending
  /\ pending' = pending \ {t}
  /\ \/ running' \in Started(t, lock) /\ UNCHANGED errors
     \/ running' \in {running} \cup Started(t, lock) /\ errors' = errors \cup {t}
  /\ UNCHANGED <<appVars, use, unuse, lock, table, snapshot, batch, flight, unsure, invVars>>

(* A call that nobody waits for takes effect after all, or not.             *)
DeployedLate(t, u) ==
  /\ <<t, u>> \in flight
  /\ flight' = flight \ {<<t, u>>}
  /\ running' \in {running} \cup Started(t, u)
  /\ UNCHANGED <<appVars, use, unuse, lock, table, snapshot, calls, unsure, invVars>>

OnlyDeployed == batch \ errors
ToUndo == batch
AllDeployed ==
  /\ lock # Nobody /\ use[lock] = "deploying" /\ pending = {}
  /\ \/ /\ errors = {}
        /\ task_states' = Set(task_states, In(Uses[lock]), "ready")
        /\ lock' = Nobody /\ batch' = {}
        /\ AfterUse(lock, TRUE)
        /\ UNCHANGED <<pending, errors>>
     \/ /\ errors # {}
        /\ pending' = ToUndo /\ errors' = {}
        /\ GotoUse(lock, "undoing")
        /\ UNCHANGED <<task_states, lock, batch, appVars>>
  /\ UNCHANGED <<unuse, usage, names, snapshot, rmVars, invVars>>

(* The Resource Manager answers TeardownUnitTask: it does nothing for a     *)
(* task it does not run, forgets one it runs under another name and raises, *)
(* and may fail.                                                            *)
Without(t, n) == [running EXCEPT ![t] = @ \ {n}]
TornDown(t) ==
  /\ lock # Nobody /\ (use[lock] = "undoing" \/ unuse[lock] = "tearing")
  /\ t \in pending
  /\ pending' = pending \ {t}
  /\ \/ /\ running[t] = {} \/ names[t] \in running[t]
        /\ running' = Without(t, names[t])
        /\ UNCHANGED <<errors, unsure>>
     \/ /\ \E n \in running[t] \ {names[t]} : running' = Without(t, n)
        /\ errors' = errors \cup {t} /\ unsure' = unsure \cup {t}
     \/ /\ t \in Flaky
        /\ running' \in {running, Without(t, names[t])}
        /\ errors' = errors \cup {t} /\ unsure' = unsure \cup {t}
  /\ UNCHANGED <<appVars, use, unuse, lock, table, snapshot, batch, flight, invVars>>

(* The tables are as they were; what the Teardown calls said is dropped.    *)
RestoreStates == task_states' = snapshot.states /\ names' = snapshot.names /\ UNCHANGED usage
Restore == task_states' = snapshot.states /\ usage' = snapshot.usage /\ names' = snapshot.names
RolledBack ==
  /\ lock # Nobody /\ use[lock] = "undoing" /\ pending = {}
  /\ Restore /\ lock' = Nobody /\ batch' = {} /\ errors' = {}
  /\ AfterUse(lock, FALSE)
  /\ UNCHANGED <<unuse, snapshot, pending, rmVars, invVars>>

-----------------------------------------------------------------------------
(* TaskManager.declare_not_used.                                            *)

Present(t) == task_states[t] # "absent"
(* The part of the list before the assertion on the counter fails: the      *)
(* longest that fits, which is one and only one.                            *)
Fits(list) == \A t \in In(list) : Present(t) => Times(list, t) <= usage[t]
Served(list) ==
  { SubSeq(list, 1, k) : k \in { n \in 0 .. Len(list) :
      Fits(SubSeq(list, 1, n)) /\ (n = Len(list) \/ ~Fits(SubSeq(list, 1, n + 1))) } }

(* The counter hits 0: the invocations of the task are cancelled.           *)
LastUsed(list) == { t \in In(list) : Present(t) /\ usage[t] = Times(list, t) }
LeftAfterOne(list) ==
  [t \in Tasks |-> IF Present(t) /\ t \in In(list) THEN usage[t] - 1 ELSE usage[t]]
LeftAfter(list) ==
  [t \in Tasks |-> IF Present(t) THEN usage[t] - Times(list, t) ELSE usage[t]]
NotCancelled(last) == {}
Cancelled(last) ==
  { i \in UNION { task_invocation_tasks[t] : t \in last } : inv[i] = "running" }

Unused(u, list) ==
  LET last == LastUsed(list)
  IN  /\ usage' = LeftAfter(list)
      /\ task_states' = Set(task_states, last, "tearing down")
      /\ inv' = Set(inv, Cancelled(last), "cancelled")
      /\ task_invocation_tasks' = Set(task_invocation_tasks, last, {})
      /\ \/ /\ list = Uses[u] /\ last # {}
            /\ lock' = u
            /\ batch' = last /\ pending' = last /\ errors' = {}
            /\ GotoUnuse(u, "tearing") /\ UNCHANGED appVars
         \/ /\ ~(list = Uses[u] /\ last # {})
            /\ AfterUnuse(u, list = Uses[u])
            /\ UNCHANGED <<lock, calls>>

DeclareNotUsed(u) ==
  /\ unuse[u] = "queued" /\ lock = Nobody
  /\ \E list \in Served(Uses[u]) : Unused(u, list)
  /\ UNCHANGED <<use, names, snapshot, rmVars>>

(* The entries of the tasks that are down are deleted. *)
AllTornDown ==
  LET down == batch \ errors
  IN  /\ lock # Nobody /\ unuse[lock] = "tearing" /\ pending = {}
      /\ task_states' = Set(task_states, down, "absent")
      /\ usage' = Set(usage, down, 0)
      /\ names' = Set(names, down, Nobody)
      /\ lock' = Nobody /\ batch' = {} /\ errors' = {}
      /\ AfterUnuse(lock, errors = {})
      /\ UNCHANGED <<use, snapshot, pending, rmVars, invVars>>

-----------------------------------------------------------------------------
(* AppManager.invoke_app, or a request of a session, and invoke_tasks.      *)

Invoke(i) ==
  /\ inv[i] = "idle"
  /\ \/ By[i] \in Apps /\ app_states[By[i]] = "ready" /\ By[i] \in apps
     \/ By[i] \in holding
  /\ inv' = [inv EXCEPT ![i] = "checking"]
  /\ UNCHANGED <<appVars, use, unuse, lock, table, snapshot, calls, rmVars, task_invocation_tasks>>

(* Under the lock, and until the dispatch is awaited. *)
Dispatch(i) ==
  /\ inv[i] = "checking" /\ lock = Nobody
  /\ \/ /\ \A t \in In(Needs[i]) : task_states[t] = "ready"
        /\ inv' = [inv EXCEPT ![i] = "running"]
        /\ task_invocation_tasks' =
             [t \in Tasks |-> task_invocation_tasks[t] \cup (IF t \in In(Needs[i]) THEN {i} ELSE {})]
     \/ /\ \E t \in In(Needs[i]) : task_states[t] # "ready"
        /\ inv' = [inv EXCEPT ![i] = "refused"]
        /\ UNCHANGED task_invocation_tasks
  /\ UNCHANGED <<appVars, use, unuse, lock, table, snapshot, calls, rmVars>>

(* The Task Dispatcher has answered, well or not. *)
Answered(i) ==
  /\ inv[i] = "running"
  /\ inv' = [inv EXCEPT ![i] = "answered"]
  /\ UNCHANGED <<appVars, use, unuse, lock, table, snapshot, calls, rmVars, task_invocation_tasks>>

(* The finally: a list that no longer has the invocation raises, and the    *)
(* lists after it are left as they are.                                     *)
Cleared(i) ==
  { Needs[i][k] : k \in { n \in DOMAIN Needs[i] :
                            \A j \in 1 .. n : i \in task_invocation_tasks[Needs[i][j]] } }

Resume(i) ==
  /\ inv[i] \in {"answered", "cancelled"}
  /\ inv' = [inv EXCEPT ![i] = "ended"]
  /\ task_invocation_tasks' =
       [t \in Tasks |-> task_invocation_tasks[t] \ (IF t \in Cleared(i) THEN {i} ELSE {})]
  /\ UNCHANGED <<appVars, use, unuse, lock, table, snapshot, calls, rmVars>>

-----------------------------------------------------------------------------
Requests ==
  \/ \E a \in Apps : RegisterApp(a) \/ UnregisterApp(a)
  \/ \E s \in Sessions : RequestUse(s) \/ RequestNotUse(s) \/ Destroy(s)
  \/ \E i \in Invocations : Invoke(i)

Progress ==
  \/ \E a \in Apps : DeployApp(a)
  \/ \E u \in Users : DeclareUsed(u) \/ DeclareNotUsed(u)
  \/ \E t \in Tasks : Deployed(t) \/ TornDown(t) \/ \E u \in Users : DeployedLate(t, u)
  \/ AllDeployed \/ RolledBack \/ AllTornDown
  \/ \E i \in Invocations : Dispatch(i) \/ Answered(i) \/ Resume(i)

Quiet ==
  /\ \A u \in Users : use[u] \in {"idle", "held", "failed"} /\ unuse[u] \in {"idle", "released", "failed"}
  /\ \A i \in Invocations : inv[i] \in {"idle", "refused", "ended"}
Stop == Quiet /\ UNCHANGED vars

Next == Requests \/ Progress \/ Stop

Spec == Init /\ [][Next]_vars

(* The event loop goes on and the servers answer; nobody need ask anything. *)
(* A request takes a bounded number of steps.                               *)
FairSpec == Spec /\ WF_vars(Progress)

-----------------------------------------------------------------------------
States == {"absent", "deploying", "ready", "tearing down"}
TablesOK(x) ==
  /\ x.states \in [Tasks -> States] /\ x.usage \in [Tasks -> Nat]
  /\ x.names \in [Tasks -> Users \cup {Nobody}]

TypeOK ==
  /\ apps \subseteq Apps /\ app_states \in [Apps -> {"absent", "not ready", "ready"}]
  /\ holding \subseteq Sessions /\ closed \subseteq Sessions
  /\ use \in [Users -> UseStates] /\ unuse \in [Users -> UnuseStates]
  /\ lock \in Users \cup {Nobody}
  /\ TablesOK(Tables) /\ TablesOK(snapshot)
  /\ batch \subseteq Tasks /\ pending \subseteq batch /\ errors \subseteq batch
  /\ running \in [Tasks -> SUBSET Users] /\ flight \subseteq Tasks \X Users /\ unsure \subseteq Tasks
  /\ inv \in [Invocations -> InvStates]
  /\ task_invocation_tasks \in [Tasks -> SUBSET Invocations]

(* Whose use is counted: it has declared it, and not yet that it is over.   *)
Counted(u) == use[u] \in {"deploying", "undoing", "held"} /\ unuse[u] \in {"idle", "queued"}

(* Users that give back exactly what they got: neither hasty, nor a session *)
(* that gives back a second time after a Teardown that failed, because the  *)
(* task is flaky or was left in flight before another that could not be     *)
(* created.  One that is not disturbs those that share a task with it, and  *)
(* through them others: trusted are the users of groups that share nothing  *)
(* with the rest.                                                           *)
Loose ==
  { t \in Tasks : \E u \in Users : \E j, k \in DOMAIN Uses[u] :
                   j < k /\ Uses[u][j] = t /\ Uses[u][k] # t }
Careful(u) == u \notin Hasty /\ (u \in Sessions => In(Uses[u]) \cap (Flaky \cup Loose) = {})
Shared(u, v) == In(Uses[u]) \cap In(Uses[v]) # {}
Apart(group) == \A u \in group, v \in Users : Shared(u, v) => v \in group
Trusted ==
  { u \in Users : \E group \in SUBSET Users :
      u \in group /\ Apart(group) /\ \A v \in group : Careful(v) }
Sound == { t \in Tasks : \A u \in Users : t \in In(Uses[u]) => u \in Trusted }

(* The counter of a task is the number of uses that are declared and not    *)
(* given back, through concurrent users, failed deployments and rollbacks   *)
(* (task_manager.py:126, 242).  Not so for tasks that they share with one   *)
(* that is not trusted: the snapshot of a rollback and a declare_not_used   *)
(* for uses that were never declared take away what others have declared.   *)
Declared(t) == UNION { {u} \X Places(Uses[u], t) : u \in { v \in Users : Counted(v) } }
UsageIsCounted == \A t \in Sound : usage[t] = Cardinality(Declared(t))

(* The Resource Manager runs a task that is ready, once and under the name  *)
(* that the gateway has for it, and none that the gateway has not: the      *)
(* rollback of a declare_used takes back also what a Deploy did that ended  *)
(* in an error (task_manager.py:186-198).  It is claimed of a task, however *)
(* it is shared, until a Teardown of it fails, whose answer a rollback      *)
(* drops and after which the next user finds the task in the table and      *)
(* takes it for ready (task_manager.py:100-104, 213-216), or a Deploy of it *)
(* is left in flight by the rollback after another instance could not be    *)
(* created: it may come up after its Teardown (task_manager.py:140-154).    *)
Settled(t) == lock = Nobody \/ task_states[t] = "ready"
RunningIsKnown ==
  /\ TypeOK
  /\ \A t \in Sound \ unsure :
       Settled(t) => running[t] = IF task_states[t] = "ready" THEN {names[t]} ELSE {}

(* An invocation that goes on has all its tasks, and is in their lists, so  *)
(* that the end of any of them will cancel it (task_manager.py:344-347).    *)
InvokedAreReady ==
  \A i \in Invocations : inv[i] = "running" =>
    \A t \in In(Needs[i]) : task_states[t] = "ready" /\ i \in task_invocation_tasks[t]

(* Every request is answered and every invocation ends.                     *)
EveryRequestEnds == []<>Quiet

(* Leases: the users that hold their tasks, and the tasks that are ready in *)
(* the table of the gateway; whether they run is RunningIsKnown.            *)
Holders == { u \in Trusted : use[u] = "held" /\ unuse[u] \in {"idle", "queued"} }
Up == { t \in Sound : task_states[t] = "ready" }
Lease == INSTANCE TaskLease WITH Tasks <- Sound, Users <- Trusted, holders <- Holders, up <- Up
ImplementsLease == Lease!Spec

=============================================================================
