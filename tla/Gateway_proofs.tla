--------------------------- MODULE Gateway_proofs ---------------------------
(***************************************************************************)
(* An invocation that goes on has all its tasks, whatever the users of     *)
(* these do: applications that are unregistered at any time, sessions that *)
(* give back twice, and deployments and teardowns that fail.  Tasks whose  *)
(* users are trusted are counted right and leased (TaskLease), and run as  *)
(* the gateway knows them until a Teardown of them fails or a Deploy of    *)
(* them is left in flight.                                                 *)
(***************************************************************************)
EXTENDS Gateway, FiniteSetTheorems, TLAPS

USE GatewayAssumption DEF rmVars

-----------------------------------------------------------------------------
(* Who has the lock, and what it keeps from changing.                       *)
Declaring(u) == use[u] \in {"deploying", "undoing"}
Tearing(u) == unuse[u] = "tearing"

(* Only the one that has the lock is inside, and in one call.               *)
Locked ==
  \A u \in Users : /\ Declaring(u) \/ Tearing(u) => lock = u
                   /\ ~(Declaring(u) /\ Tearing(u))

(* A rollback takes nothing away that is ready, and what is torn down is    *)
(* marked so, that nothing be dispatched to it.                             *)
Rollable ==
  lock # Nobody /\ Declaring(lock) =>
    \A t \in Tasks : task_states[t] = "ready" => snapshot.states[t] = "ready"
Marked ==
  lock # Nobody /\ Tearing(lock) => \A t \in batch : task_states[t] = "tearing down"

GatewayInv == TypeOK /\ Locked /\ Rollable /\ Marked /\ InvokedAreReady

LEMMA InTasks ==
  ASSUME NEW seq \in Seq(Tasks)
  PROVE  In(seq) \subseteq Tasks
BY DEF In

LEMMA TimesFacts ==
  ASSUME NEW seq \in Seq(Tasks), NEW t
  PROVE  /\ IsFiniteSet(Places(seq, t)) /\ Times(seq, t) \in Nat
         /\ Times(seq, t) = 0 <=> t \notin In(seq)
         /\ Places(seq, t) = {} <=> t \notin In(seq)
<1>1. Len(seq) \in Nat /\ DOMAIN seq = 1 .. Len(seq)
  OBVIOUS
<1>2. IsFiniteSet(1 .. Len(seq))
  BY <1>1, FS_Interval
<1>3. Places(seq, t) \in SUBSET (1 .. Len(seq))
  BY <1>1 DEF Places
<1>4. IsFiniteSet(Places(seq, t))
  BY <1>2, <1>3, FS_Subset
<1>5. Places(seq, t) = {} <=> t \notin In(seq)
  BY DEF Places, In
<1> QED  BY <1>4, <1>5, FS_CardinalityType, FS_EmptySet DEF Times

LEMMA UsersFacts ==
  /\ Nobody \notin Users /\ Apps \subseteq Users /\ Sessions \subseteq Users
  /\ \A u \in Users : Uses[u] \in Seq(Tasks) /\ In(Uses[u]) \subseteq Tasks
  /\ \A i \in Invocations : Needs[i] \in Seq(Tasks) /\ In(Needs[i]) \subseteq Tasks
BY InTasks DEF Users

LEMMA TableFacts ==
  TypeOK <=>
    /\ apps \subseteq Apps /\ app_states \in [Apps -> {"absent", "not ready", "ready"}]
    /\ holding \subseteq Sessions /\ closed \subseteq Sessions
    /\ use \in [Users -> UseStates] /\ unuse \in [Users -> UnuseStates]
    /\ lock \in Users \cup {Nobody}
    /\ task_states \in [Tasks -> States] /\ usage \in [Tasks -> Nat]
    /\ names \in [Tasks -> Users \cup {Nobody}]
    /\ TablesOK(snapshot)
    /\ batch \subseteq Tasks /\ pending \subseteq batch /\ errors \subseteq batch
    /\ running \in [Tasks -> SUBSET Users] /\ flight \subseteq Tasks \X Users /\ unsure \subseteq Tasks
    /\ inv \in [Invocations -> InvStates]
    /\ task_invocation_tasks \in [Tasks -> SUBSET Invocations]
BY DEF TypeOK, TablesOK, Tables

-----------------------------------------------------------------------------
LEMMA GatewayInit == Init => GatewayInv
<1> SUFFICES ASSUME Init PROVE GatewayInv
  OBVIOUS
<1> USE DEF Init
<1>1. TypeOK
  BY DEF TypeOK, TablesOK, Tables, UseStates, UnuseStates, InvStates, States
<1>2. Locked /\ Rollable /\ Marked /\ InvokedAreReady
  <2>1. \A u \in Users : use[u] \in {"idle", "failed"} /\ unuse[u] = "idle"
    OBVIOUS
  <2> QED  BY <2>1 DEF Locked, Rollable, Marked, InvokedAreReady, Declaring, Tearing
<1> QED  BY <1>1, <1>2 DEF GatewayInv

(* Steps outside the lock: what it protects stays, and nobody gets in.      *)
LEMMA Aside ==
  ASSUME GatewayInv, TypeOK', UNCHANGED <<lock, task_states, snapshot, batch>>, UNCHANGED invVars,
         \A u \in Users : (Declaring(u)' => Declaring(u)) /\ (Tearing(u)' => Tearing(u))
  PROVE  GatewayInv'
<1>1. lock \in Users \cup {Nobody}
  BY DEF GatewayInv, TypeOK
<1>2. Locked'
  BY DEF GatewayInv, Locked
<1>3. Rollable' /\ Marked'
  BY <1>1 DEF GatewayInv, Rollable, Marked
<1>4. InvokedAreReady'
  BY DEF GatewayInv, InvokedAreReady, invVars
<1> QED  BY <1>2, <1>3, <1>4 DEF GatewayInv

LEMMA RegisterAppInv == ASSUME GatewayInv, NEW a \in Apps, RegisterApp(a) PROVE GatewayInv'
<1> USE DEF RegisterApp, GotoUse, table
<1>1. TypeOK'
  BY UsersFacts DEF GatewayInv, TypeOK, UseStates, calls, invVars, Tables
<1>2. \A u \in Users : (Declaring(u)' => Declaring(u)) /\ (Tearing(u)' => Tearing(u))
  BY DEF GatewayInv, TypeOK, Declaring, Tearing
<1> QED  BY <1>1, <1>2, Aside DEF calls

LEMMA DeployAppInv == ASSUME GatewayInv, NEW a \in Apps, DeployApp(a) PROVE GatewayInv'
<1> USE DEF DeployApp, GotoUse, table
<1>1. PICK pc \in {"queued", "failed"} : use' = [use EXCEPT ![a] = pc]
  OBVIOUS
<1>2. \/ app_states' = app_states
      \/ app_states' = [app_states EXCEPT ![a] = "absent"]
  OBVIOUS
<1>3. TypeOK /\ a \in Users /\ use[a] = "listed"
  BY UsersFacts DEF GatewayInv
<1>4. app_states' \in [Apps -> {"absent", "not ready", "ready"}] /\ use' \in [Users -> UseStates]
  BY <1>1, <1>2, <1>3 DEF TypeOK, UseStates
<1>5. TypeOK'
  BY <1>3, <1>4 DEF TypeOK, calls, invVars, Tables
<1>6. \A u \in Users : (Declaring(u)' => Declaring(u)) /\ (Tearing(u)' => Tearing(u))
  BY <1>1, <1>3 DEF TypeOK, Declaring, Tearing
<1> QED  BY <1>5, <1>6, Aside DEF calls

LEMMA UnregisterAppInv == ASSUME GatewayInv, NEW a \in Apps, UnregisterApp(a) PROVE GatewayInv'
<1> USE DEF UnregisterApp, GotoUnuse, table
<1>1. TypeOK'
  BY UsersFacts DEF GatewayInv, TypeOK, UnuseStates, calls, invVars, Tables
<1>2. \A u \in Users : (Declaring(u)' => Declaring(u)) /\ (Tearing(u)' => Tearing(u))
  BY DEF GatewayInv, TypeOK, Declaring, Tearing
<1> QED  BY <1>1, <1>2, Aside DEF calls

LEMMA RequestInv ==
  ASSUME GatewayInv, NEW s \in Sessions, RequestUse(s) \/ RequestNotUse(s) \/ Destroy(s)
  PROVE  GatewayInv'
<1> USE DEF RequestUse, RequestNotUse, Destroy, GotoUse, GotoUnuse, table, appVars
<1>1. TypeOK'
  <2>1. s \in Users /\ TypeOK
    BY UsersFacts DEF GatewayInv
  <2>2. CASE RequestUse(s)
    BY <2>1, <2>2 DEF TypeOK, UseStates, calls, invVars, Tables
  <2>3. CASE RequestNotUse(s)
    BY <2>1, <2>3 DEF TypeOK, UnuseStates, calls, invVars, Tables
  <2>4. CASE Destroy(s)
    BY <2>1, <2>4 DEF TypeOK, UnuseStates, calls, invVars, Tables
  <2> QED  BY <2>2, <2>3, <2>4
<1>2. \A u \in Users : (Declaring(u)' => Declaring(u)) /\ (Tearing(u)' => Tearing(u))
  BY ZenonT(40) DEF GatewayInv, TypeOK, Declaring, Tearing
<1> QED  BY <1>1, <1>2, Aside DEF calls

(* A task that starts has one instance more, or none more.                  *)
LEMMA StartedType ==
  ASSUME running \in [Tasks -> SUBSET Users], NEW t \in Tasks, NEW u \in Users
  PROVE  Started(t, u) \subseteq [Tasks -> SUBSET Users]
<1> DEFINE up == [running EXCEPT ![t] = @ \cup {u}]
<1>1. up \in [Tasks -> SUBSET Users]
  <2>1. running[t] \cup {u} \in SUBSET Users
    OBVIOUS
  <2> QED  BY <2>1
<1>2. Started(t, u) \subseteq {running, up}
  BY DEF Started
<1> HIDE DEF up
<1> QED  BY <1>1, <1>2

LEMMA StartedElsewhere ==
  ASSUME NEW t \in Tasks, NEW u \in Users, NEW f \in Started(t, u), NEW k \in Tasks, k # t,
         running \in [Tasks -> SUBSET Users]
  PROVE  f[k] = running[k]
BY DEF Started

LEMMA StartedOnce ==
  ASSUME NEW t \in Tasks \ unsure, NEW u \in Users, NEW f \in Started(t, u),
         running \in [Tasks -> SUBSET Users]
  PROVE  f[t] = IF running[t] = {} THEN {u} ELSE running[t]
BY DEF Started

LEMMA ServerInv ==
  ASSUME GatewayInv, NEW t \in Tasks, Deployed(t) \/ TornDown(t)
  PROVE  GatewayInv'
<1> USE DEF Deployed, TornDown, table, appVars
<1>1. /\ lock \in Users /\ UNCHANGED <<use, unuse, lock, task_states, snapshot, batch>> /\ UNCHANGED invVars
      /\ UNCHANGED <<apps, app_states, holding, closed, usage, names>>
  BY DEF GatewayInv, TypeOK
<1>2. /\ running \in [Tasks -> SUBSET Users] /\ lock \in Users /\ t \in batch /\ batch \subseteq Tasks
      /\ pending \subseteq batch /\ errors \subseteq batch /\ unsure \subseteq Tasks
      /\ names \in [Tasks -> Users \cup {Nobody}]
  BY <1>1, TableFacts DEF GatewayInv
<1>3. pending' = pending \ {t} /\ errors' \in {errors, errors \cup {t}}
      /\ unsure' \in {unsure, unsure \cup {t}} /\ flight' = flight
  OBVIOUS
<1>4. running' \in [Tasks -> SUBSET Users]
  <2>1. ASSUME Deployed(t)
        PROVE  running' \in {running} \cup Started(t, lock)
    BY <2>1
  <2>2. ASSUME TornDown(t)
        PROVE  running' = running \/ \E n : running' = Without(t, n)
    BY <2>2
  <2>3. Started(t, lock) \subseteq [Tasks -> SUBSET Users]
    BY <1>2, StartedType
  <2>4. \A n : Without(t, n) \in [Tasks -> SUBSET Users]
    BY <1>2 DEF Without
  <2> QED  BY <1>2, <2>1, <2>2, <2>3, <2>4
<1> HIDE DEF Deployed, TornDown
<1>5. pending' \subseteq batch /\ errors' \subseteq batch /\ unsure' \subseteq Tasks
  BY <1>2, <1>3
<1>6. TypeOK'
  BY <1>1, <1>3, <1>4, <1>5 DEF GatewayInv, TypeOK, Tables, invVars
<1>7. \A u \in Users : (Declaring(u)' => Declaring(u)) /\ (Tearing(u)' => Tearing(u))
  BY <1>1 DEF Declaring, Tearing
<1> QED  BY <1>1, <1>6, <1>7, Aside

LEMMA LateInv ==
  ASSUME GatewayInv, NEW t \in Tasks, NEW u \in Users, DeployedLate(t, u)
  PROVE  GatewayInv'
<1>1. /\ UNCHANGED <<use, unuse, lock, task_states, snapshot, batch>> /\ UNCHANGED invVars
      /\ flight' \subseteq flight /\ running' \in {running} \cup Started(t, u)
      /\ UNCHANGED <<apps, app_states, holding, closed, usage, names, pending, errors, unsure>>
  BY DEF DeployedLate, appVars, table, calls
<1>2. running \in [Tasks -> SUBSET Users]
  BY TableFacts DEF GatewayInv
<1>3. running' \in [Tasks -> SUBSET Users]
  BY <1>1, <1>2, StartedType
<1>4. TypeOK'
  BY <1>1, <1>3 DEF GatewayInv, TypeOK, Tables, invVars
<1>5. \A v \in Users : (Declaring(v)' => Declaring(v)) /\ (Tearing(v)' => Tearing(v))
  BY <1>1 DEF Declaring, Tearing
<1> QED  BY <1>1, <1>4, <1>5, Aside

-----------------------------------------------------------------------------
(* What the callers do afterwards keeps its type. *)
LEMMA AfterUseType ==
  ASSUME TypeOK, NEW u \in Users, NEW ok \in BOOLEAN, AfterUse(u, ok)
  PROVE  /\ apps' \subseteq Apps /\ app_states' \in [Apps -> {"absent", "not ready", "ready"}]
         /\ holding' \subseteq Sessions /\ closed' \subseteq Sessions
         /\ use' \in [Users -> UseStates] /\ use'[u] \in {"held", "failed"}
         /\ \A v \in Users : v # u => use'[v] = use[v]
BY DEF TypeOK, AfterUse, GotoUse, UseStates

LEMMA AfterUnuseType ==
  ASSUME TypeOK, NEW u \in Users, NEW ok \in BOOLEAN, AfterUnuse(u, ok)
  PROVE  /\ apps' \subseteq Apps /\ app_states' \in [Apps -> {"absent", "not ready", "ready"}]
         /\ holding' \subseteq Sessions /\ closed' \subseteq Sessions
         /\ unuse' \in [Users -> UnuseStates] /\ unuse'[u] \in {"released", "failed"}
         /\ \A v \in Users : v # u => unuse'[v] = unuse[v]
BY DEF TypeOK, AfterUnuse, GotoUnuse, UnuseStates

(* The lock is given back by the one that has it.                           *)
LEMMA Unlocked ==
  ASSUME GatewayInv, NEW u \in Users, lock = u, lock' = Nobody,
         \A v \in Users : v # u => use'[v] = use[v] /\ unuse'[v] = unuse[v],
         use'[u] \notin {"deploying", "undoing"}, unuse'[u] # "tearing"
  PROVE  Locked' /\ Rollable' /\ Marked'
<1>1. \A v \in Users : v # u => ~Declaring(v) /\ ~Tearing(v)
  BY UsersFacts DEF GatewayInv, Locked
<1>2. \A v \in Users : ~Declaring(v)' /\ ~Tearing(v)'
  BY <1>1 DEF Declaring, Tearing
<1> QED  BY <1>2 DEF Locked, Rollable, Marked

LEMMA DeclareUsedInv ==
  ASSUME GatewayInv, NEW u \in Users, DeclareUsed(u)
  PROVE  GatewayInv'
<1> DEFINE want == In(Uses[u])
           new  == { t \in want : task_states[t] = "absent" }
<1>1. /\ use[u] = "queued" /\ lock = Nobody /\ TypeOK
      /\ want \subseteq Tasks /\ new \subseteq Tasks
      /\ snapshot' = Tables /\ usage' = [t \in Tasks |-> usage[t] + Times(Uses[u], t)]
      /\ UNCHANGED <<unuse, running, inv, task_invocation_tasks>>
  BY UsersFacts DEF DeclareUsed, GatewayInv, invVars
<1>0. flight' \subseteq Tasks \X Users /\ unsure' \subseteq Tasks
  <2>1. flight \subseteq Tasks \X Users /\ unsure \subseteq Tasks
    BY <1>1, TableFacts
  <2>2. \E made \in SUBSET new : /\ flight' \in {flight, flight \cup made \X {u}}
                               /\ unsure' \in {unsure, unsure \cup made}
    BY DEF DeclareUsed
  <2> QED  BY <1>1, <2>1, <2>2
<1>2. \A v \in Users : ~Declaring(v) /\ ~Tearing(v)
  BY <1>1, UsersFacts DEF GatewayInv, Locked
<1>3. usage' \in [Tasks -> Nat] /\ TablesOK(snapshot')
  <2>1. \A t \in Tasks : Times(Uses[u], t) \in Nat
    BY TimesFacts, UsersFacts
  <2>2. usage \in [Tasks -> Nat] /\ TablesOK(Tables)
    BY <1>1, TableFacts DEF TypeOK
  <2> QED  BY <1>1, <2>1, <2>2
<1>4. CASE new # {}
  <2>1. /\ lock' = u /\ task_states' = Set(task_states, new, "deploying")
        /\ batch' \subseteq new /\ pending' = batch' /\ errors' = {}
        /\ \E made \in SUBSET new : names' = Set(names, made, u)
        /\ \E pc \in {"deploying", "undoing"} : use' = [use EXCEPT ![u] = pc]
        /\ UNCHANGED <<apps, app_states, holding, closed>>
    BY <1>4 DEF DeclareUsed, GotoUse, appVars
  <2>2. /\ task_states' \in [Tasks -> States]
        /\ \A t \in Tasks : task_states'[t] = IF t \in new THEN "deploying" ELSE task_states[t]
    <3>1. task_states \in [Tasks -> States]
      BY <1>1, TableFacts
    <3>2. {"deploying", "ready", "tearing down", "absent"} \subseteq States
      BY DEF States
    <3> QED  BY <2>1, <3>1, <3>2 DEF Set
  <2>3. names' \in [Tasks -> Users \cup {Nobody}]
    <3>1. names \in [Tasks -> Users \cup {Nobody}] /\ u \in Users \cup {Nobody}
      BY <1>1, TableFacts
    <3>2. PICK made \in SUBSET new : names' = Set(names, made, u)
      BY <2>1
    <3> QED  BY <3>1, <3>2 DEF Set
  <2>4. use' \in [Users -> UseStates] /\ \A v \in Users : v # u => use'[v] = use[v]
    BY <1>1, <2>1 DEF TypeOK, UseStates
  <2>5. TypeOK'
    BY <1>0, <1>1, <1>3, <2>1, <2>2, <2>3, <2>4 DEF TypeOK, TablesOK, Tables
  <2>6. Locked'
    BY <1>1, <1>2, <2>1, <2>4 DEF Locked, Declaring, Tearing
  <2>7. \A t \in Tasks : task_states'[t] = "ready" => task_states[t] = "ready" /\ snapshot'.states[t] = "ready"
    BY <1>1, <2>2 DEF Tables
  <2>8. Rollable'
    BY <2>7 DEF Rollable
  <2>9. Marked'
    BY <1>1, <1>2, <2>1 DEF Marked, Tearing
  <2>10. \A t \in Tasks : task_states[t] = "ready" => task_states'[t] = "ready"
    BY <2>2
  <2>11. InvokedAreReady'
    BY <1>1, <2>10, UsersFacts DEF GatewayInv, InvokedAreReady
  <2> QED  BY <2>5, <2>6, <2>8, <2>9, <2>11 DEF GatewayInv
<1>5. CASE new = {}
  <2>1. /\ task_states' = Set(task_states, want, "ready") /\ AfterUse(u, TRUE)
        /\ UNCHANGED <<lock, names, batch, pending, errors>>
    BY <1>5 DEF DeclareUsed, calls
  <2>2. /\ task_states' \in [Tasks -> States]
        /\ \A t \in Tasks : task_states'[t] = IF t \in want THEN "ready" ELSE task_states[t]
    <3>1. task_states \in [Tasks -> States]
      BY <1>1, TableFacts
    <3>2. {"deploying", "ready", "tearing down", "absent"} \subseteq States
      BY DEF States
    <3> QED  BY <2>1, <3>1, <3>2 DEF Set
  <2>3. /\ apps' \subseteq Apps /\ app_states' \in [Apps -> {"absent", "not ready", "ready"}]
        /\ holding' \subseteq Sessions /\ closed' \subseteq Sessions
        /\ use' \in [Users -> UseStates] /\ use'[u] \in {"held", "failed"}
        /\ \A v \in Users : v # u => use'[v] = use[v]
    BY <1>1, <2>1, AfterUseType
  <2>4. TypeOK'
    BY <1>0, <1>1, <1>3, <2>1, <2>2, <2>3 DEF TypeOK, TablesOK, Tables
  <2>5. \A v \in Users : ~Declaring(v)' /\ ~Tearing(v)'
    BY <1>1, <1>2, <2>3 DEF Declaring, Tearing
  <2>6. Locked' /\ Rollable' /\ Marked'
    BY <1>1, <2>1, <2>5 DEF Locked, Rollable, Marked
  <2>7. \A t \in Tasks : task_states[t] = "ready" => task_states'[t] = "ready"
    BY <2>2
  <2>8. InvokedAreReady'
    BY <1>1, <2>7, UsersFacts DEF GatewayInv, InvokedAreReady
  <2> QED  BY <2>4, <2>6, <2>8 DEF GatewayInv
<1> QED  BY <1>4, <1>5

LEMMA AllDeployedInv ==
  ASSUME GatewayInv, AllDeployed
  PROVE  GatewayInv'
<1> DEFINE u == lock
<1>1. /\ lock \in Users /\ use[lock] = "deploying" /\ pending = {} /\ TypeOK
      /\ UNCHANGED <<unuse, usage, names, snapshot, running, flight, unsure, inv, task_invocation_tasks>>
  BY DEF AllDeployed, GatewayInv, TypeOK, invVars
<1>2. ~Tearing(lock) /\ Declaring(lock)
  BY <1>1 DEF GatewayInv, Locked, Declaring
<1>3. CASE errors = {}
  <2>1. /\ task_states' = Set(task_states, In(Uses[lock]), "ready")
        /\ lock' = Nobody /\ batch' = {} /\ AfterUse(lock, TRUE) /\ UNCHANGED <<pending, errors>>
    BY <1>3 DEF AllDeployed
  <2>2. /\ task_states' \in [Tasks -> States]
        /\ \A t \in Tasks : task_states[t] = "ready" => task_states'[t] = "ready"
    <3>1. task_states \in [Tasks -> States]
      BY <1>1, TableFacts
    <3>2. {"deploying", "ready", "tearing down", "absent"} \subseteq States
      BY DEF States
    <3> QED  BY <2>1, <3>1, <3>2 DEF Set
  <2>3. /\ apps' \subseteq Apps /\ app_states' \in [Apps -> {"absent", "not ready", "ready"}]
        /\ holding' \subseteq Sessions /\ closed' \subseteq Sessions
        /\ use' \in [Users -> UseStates] /\ use'[lock] \in {"held", "failed"}
        /\ \A v \in Users : v # lock => use'[v] = use[v]
    BY <1>1, <2>1, AfterUseType
  <2>4. TypeOK'
    BY <1>1, <1>3, <2>1, <2>2, <2>3 DEF TypeOK, TablesOK, Tables
  <2>5. Locked' /\ Rollable' /\ Marked'
    BY <1>1, <1>2, <2>1, <2>3, Unlocked DEF Tearing
  <2>6. InvokedAreReady'
    BY <1>1, <2>2, UsersFacts DEF GatewayInv, InvokedAreReady
  <2> QED  BY <2>4, <2>5, <2>6 DEF GatewayInv
<1>4. CASE errors # {}
  <2>1. /\ pending' = batch /\ errors' = {} /\ use' = [use EXCEPT ![lock] = "undoing"]
        /\ UNCHANGED <<task_states, lock, batch, apps, app_states, holding, closed>>
    BY <1>4 DEF AllDeployed, ToUndo, GotoUse, appVars
  <2>2. TypeOK'
    BY <1>1, <2>1 DEF TypeOK, TablesOK, Tables, UseStates
  <2>3. \A v \in Users : (Declaring(v)' => Declaring(v)) /\ (Tearing(v)' => Tearing(v))
    BY <1>1, <1>2, <2>1 DEF TypeOK, Declaring, Tearing
  <2> QED  BY <1>1, <2>1, <2>2, <2>3, Aside DEF invVars
<1> QED  BY <1>3, <1>4

LEMMA RolledBackInv ==
  ASSUME GatewayInv, RolledBack
  PROVE  GatewayInv'
<1>1. /\ lock \in Users /\ use[lock] = "undoing" /\ pending = {} /\ TypeOK
      /\ task_states' = snapshot.states /\ usage' = snapshot.usage /\ names' = snapshot.names
      /\ lock' = Nobody /\ batch' = {} /\ errors' = {} /\ AfterUse(lock, FALSE)
      /\ UNCHANGED <<unuse, snapshot, pending, running, flight, unsure, inv, task_invocation_tasks>>
  BY DEF RolledBack, Restore, GatewayInv, TypeOK, invVars
<1>2. ~Tearing(lock) /\ Declaring(lock)
  BY <1>1 DEF GatewayInv, Locked, Declaring
<1>3. /\ apps' \subseteq Apps /\ app_states' \in [Apps -> {"absent", "not ready", "ready"}]
      /\ holding' \subseteq Sessions /\ closed' \subseteq Sessions
      /\ use' \in [Users -> UseStates] /\ use'[lock] \in {"held", "failed"}
      /\ \A v \in Users : v # lock => use'[v] = use[v]
  BY <1>1, AfterUseType
<1>4. TypeOK'
  BY <1>1, <1>3 DEF TypeOK, TablesOK, Tables
<1>5. Locked' /\ Rollable' /\ Marked'
  BY <1>1, <1>2, <1>3, Unlocked DEF Tearing
<1>6. \A t \in Tasks : task_states[t] = "ready" => task_states'[t] = "ready"
  BY <1>1, <1>2, UsersFacts DEF GatewayInv, Rollable
<1>7. InvokedAreReady'
  BY <1>1, <1>6, UsersFacts DEF GatewayInv, InvokedAreReady
<1> QED  BY <1>4, <1>5, <1>7 DEF GatewayInv

LEMMA DeclareNotUsedInv ==
  ASSUME GatewayInv, NEW u \in Users, DeclareNotUsed(u)
  PROVE  GatewayInv'
<1>1. PICK list \in Seq(Tasks) : Fits(list) /\ Unused(u, list)
  <2>1. PICK list \in Served(Uses[u]) : Unused(u, list)
    BY DEF DeclareNotUsed
  <2>2. list \in Seq(Tasks) /\ Fits(list)
    <3>1. PICK k \in 0 .. Len(Uses[u]) : list = SubSeq(Uses[u], 1, k) /\ Fits(SubSeq(Uses[u], 1, k))
      BY <2>1 DEF Served
    <3>2. Uses[u] \in Seq(Tasks)
      BY UsersFacts
    <3> QED  BY <3>1, <3>2
  <2> QED  BY <2>1, <2>2
<1> DEFINE last == LastUsed(list)
<1>2. /\ unuse[u] = "queued" /\ lock = Nobody /\ TypeOK
      /\ UNCHANGED <<use, names, snapshot, running, flight, unsure>>
      /\ usage' = LeftAfter(list) /\ task_states' = Set(task_states, last, "tearing down")
      /\ inv' = Set(inv, Cancelled(last), "cancelled")
      /\ task_invocation_tasks' = Set(task_invocation_tasks, last, {})
      /\ last \subseteq Tasks
  BY <1>1, InTasks DEF DeclareNotUsed, GatewayInv, Unused, LastUsed
<1>3. \A v \in Users : ~Declaring(v) /\ ~Tearing(v)
  BY <1>2, UsersFacts DEF GatewayInv, Locked
<1>4. usage' \in [Tasks -> Nat]
  <2>1. ASSUME NEW t \in Tasks, Present(t)
        PROVE  usage[t] - Times(list, t) \in Nat
    <3>1. usage[t] \in Nat /\ Times(list, t) \in Nat
      BY <1>1, <1>2, TimesFacts DEF TypeOK, TablesOK, Tables
    <3>2. CASE t \in In(list)
      BY <1>1, <2>1, <3>1, <3>2 DEF Fits
    <3>3. CASE t \notin In(list)
      <4>1. Times(list, t) = 0
        BY <1>1, <3>3, TimesFacts
      <4> QED  BY <3>1, <4>1
    <3> QED  BY <3>2, <3>3
  <2> QED  BY <1>2, <2>1 DEF LeftAfter, TypeOK, TablesOK, Tables
<1>5. /\ task_states' \in [Tasks -> States]
      /\ \A t \in Tasks : task_states'[t] = IF t \in last THEN "tearing down" ELSE task_states[t]
  <2>1. task_states \in [Tasks -> States]
    BY <1>2, TableFacts
  <2>2. "tearing down" \in States
    BY DEF States
  <2> QED  BY <1>2, <2>1, <2>2 DEF Set
<1>6. /\ inv' \in [Invocations -> InvStates]
      /\ \A i \in Invocations : inv'[i] = IF i \in Cancelled(last) THEN "cancelled" ELSE inv[i]
  <2>1. inv \in [Invocations -> InvStates] /\ "cancelled" \in InvStates
    BY <1>2, TableFacts DEF InvStates
  <2> QED  BY <1>2, <2>1 DEF Set
<1>7. /\ task_invocation_tasks' \in [Tasks -> SUBSET Invocations]
      /\ \A t \in Tasks : task_invocation_tasks'[t] = IF t \in last THEN {} ELSE task_invocation_tasks[t]
  <2>1. task_invocation_tasks \in [Tasks -> SUBSET Invocations] /\ {} \in SUBSET Invocations
    BY <1>2, TableFacts
  <2> QED  BY <1>2, <2>1 DEF Set
(* An invocation that is not cancelled has no task that goes.               *)
<1>8. ASSUME NEW i \in Invocations, inv'[i] = "running", NEW t \in In(Needs[i])
      PROVE  task_states'[t] = "ready" /\ i \in task_invocation_tasks'[t]
  <2>1. inv[i] = "running" /\ i \notin Cancelled(last) /\ t \in Tasks
    BY <1>6, <1>8, UsersFacts
  <2>2. task_states[t] = "ready" /\ i \in task_invocation_tasks[t]
    BY <2>1 DEF GatewayInv, InvokedAreReady
  <2>3. t \notin last
    BY <2>1, <2>2 DEF Cancelled
  <2> QED  BY <1>5, <1>7, <2>1, <2>2, <2>3
<1>9. InvokedAreReady'
  BY <1>8 DEF InvokedAreReady
<1> HIDE DEF last
<1>10. CASE list = Uses[u] /\ last # {}
  <2>1. /\ lock' = u /\ batch' = last /\ pending' = last /\ errors' = {}
        /\ unuse' = [unuse EXCEPT ![u] = "tearing"] /\ UNCHANGED <<apps, app_states, holding, closed>>
    BY <1>1, <1>10 DEF Unused, GotoUnuse, appVars, last
  <2>2. TypeOK'
    BY <1>2, <1>4, <1>5, <1>6, <1>7, <2>1 DEF TypeOK, TablesOK, Tables, UnuseStates
  <2>3. unuse'[u] = "tearing" /\ \A v \in Users : v # u => unuse'[v] = unuse[v]
    BY <1>2, <2>1 DEF TypeOK
  <2>4. Locked' /\ Rollable'
    BY <1>2, <1>3, <2>1, <2>3 DEF Locked, Rollable, Declaring, Tearing
  <2>5. Marked'
    BY <1>2, <1>5, <2>1 DEF Marked
  <2> QED  BY <1>9, <2>2, <2>4, <2>5 DEF GatewayInv
<1>11. CASE ~(list = Uses[u] /\ last # {})
  <2>1. AfterUnuse(u, list = Uses[u]) /\ UNCHANGED <<lock, batch, pending, errors>>
    BY <1>1, <1>11 DEF Unused, calls, last
  <2>2. /\ apps' \subseteq Apps /\ app_states' \in [Apps -> {"absent", "not ready", "ready"}]
        /\ holding' \subseteq Sessions /\ closed' \subseteq Sessions
        /\ unuse' \in [Users -> UnuseStates] /\ unuse'[u] \in {"released", "failed"}
        /\ \A v \in Users : v # u => unuse'[v] = unuse[v]
    BY <1>2, <2>1, AfterUnuseType
  <2>3. TypeOK'
    BY <1>2, <1>4, <1>5, <1>6, <1>7, <2>1, <2>2 DEF TypeOK, TablesOK, Tables
  <2>4. \A v \in Users : ~Declaring(v)' /\ ~Tearing(v)'
    BY <1>2, <1>3, <2>2 DEF Declaring, Tearing
  <2>5. Locked' /\ Rollable' /\ Marked'
    BY <1>2, <2>1, <2>4 DEF Locked, Rollable, Marked
  <2> QED  BY <1>9, <2>3, <2>5 DEF GatewayInv
<1> QED  BY <1>10, <1>11

LEMMA AllTornDownInv ==
  ASSUME GatewayInv, AllTornDown
  PROVE  GatewayInv'
<1> DEFINE down == batch \ errors
<1>1. /\ lock \in Users /\ unuse[lock] = "tearing" /\ pending = {} /\ TypeOK
      /\ task_states' = Set(task_states, down, "absent")
      /\ usage' = Set(usage, down, 0) /\ names' = Set(names, down, Nobody)
      /\ lock' = Nobody /\ batch' = {} /\ errors' = {} /\ AfterUnuse(lock, errors = {})
      /\ UNCHANGED <<use, snapshot, pending, running, flight, unsure, inv, task_invocation_tasks>>
  BY DEF AllTornDown, GatewayInv, TypeOK, invVars
<1>2. Tearing(lock) /\ ~Declaring(lock)
  BY <1>1 DEF GatewayInv, Locked, Tearing
<1>3. /\ apps' \subseteq Apps /\ app_states' \in [Apps -> {"absent", "not ready", "ready"}]
      /\ holding' \subseteq Sessions /\ closed' \subseteq Sessions
      /\ unuse' \in [Users -> UnuseStates] /\ unuse'[lock] \in {"released", "failed"}
      /\ \A v \in Users : v # lock => unuse'[v] = unuse[v]
  BY <1>1, AfterUnuseType
<1>4. /\ task_states' \in [Tasks -> States] /\ usage' \in [Tasks -> Nat]
      /\ names' \in [Tasks -> Users \cup {Nobody}]
      /\ \A t \in Tasks : task_states'[t] = IF t \in down THEN "absent" ELSE task_states[t]
  <2>1. /\ task_states \in [Tasks -> States] /\ usage \in [Tasks -> Nat]
        /\ names \in [Tasks -> Users \cup {Nobody}]
    BY <1>1, TableFacts
  <2>2. "absent" \in States
    BY DEF States
  <2>3. usage' \in [Tasks -> Nat]
    BY <1>1, <2>1 DEF Set
  <2>4. names' \in [Tasks -> Users \cup {Nobody}]
    BY <1>1, <2>1 DEF Set
  <2>5. /\ task_states' \in [Tasks -> States]
        /\ \A t \in Tasks : task_states'[t] = IF t \in down THEN "absent" ELSE task_states[t]
    BY <1>1, <2>1, <2>2 DEF Set
  <2> QED  BY <2>3, <2>4, <2>5
<1>5. TypeOK'
  BY <1>1, <1>3, <1>4 DEF TypeOK, TablesOK, Tables
<1>6. Locked' /\ Rollable' /\ Marked'
  BY <1>1, <1>2, <1>3, Unlocked DEF Declaring
<1>7. \A t \in Tasks : task_states[t] = "ready" => task_states'[t] = "ready"
  BY <1>1, <1>2, <1>4, UsersFacts DEF GatewayInv, Marked
<1>8. InvokedAreReady'
  BY <1>1, <1>7, UsersFacts DEF GatewayInv, InvokedAreReady
<1> QED  BY <1>5, <1>6, <1>8 DEF GatewayInv

-----------------------------------------------------------------------------
(* The invocations.                                                         *)
LEMMA InvocationInv ==
  ASSUME GatewayInv, NEW i \in Invocations, Invoke(i) \/ Dispatch(i) \/ Answered(i) \/ Resume(i)
  PROVE  GatewayInv'
<1>1. /\ TypeOK
      /\ UNCHANGED <<apps, app_states, holding, closed, use, unuse, lock, task_states, usage, names>>
      /\ UNCHANGED <<snapshot, batch, pending, errors, running, flight, unsure>>
  BY DEF GatewayInv, Invoke, Dispatch, Answered, Resume, appVars, table, calls
<1>2. \A k \in Invocations : k # i => inv'[k] = inv[k]
  BY <1>1 DEF Invoke, Dispatch, Answered, Resume, TypeOK
<1>3. /\ inv' \in [Invocations -> InvStates]
      /\ task_invocation_tasks' \in [Tasks -> SUBSET Invocations]
      /\ \A k \in Invocations, t \in Tasks :
           k # i /\ k \in task_invocation_tasks[t] => k \in task_invocation_tasks'[t]
  <2>1. inv \in [Invocations -> InvStates] /\ task_invocation_tasks \in [Tasks -> SUBSET Invocations]
    BY <1>1, TableFacts
  <2>2. CASE Invoke(i) \/ Answered(i)
    BY <2>1, <2>2 DEF Invoke, Answered, InvStates
  <2>3. CASE Dispatch(i)
    <3>1. inv' \in [Invocations -> InvStates]
      BY <2>1, <2>3 DEF Dispatch, InvStates
    <3>2. \/ task_invocation_tasks' = task_invocation_tasks
          \/ task_invocation_tasks' =
               [t \in Tasks |-> task_invocation_tasks[t] \cup (IF t \in In(Needs[i]) THEN {i} ELSE {})]
      BY <2>3 DEF Dispatch
    <3>3. CASE task_invocation_tasks' = task_invocation_tasks
      BY <2>1, <3>1, <3>3
    <3>4. CASE task_invocation_tasks' =
                 [t \in Tasks |-> task_invocation_tasks[t] \cup (IF t \in In(Needs[i]) THEN {i} ELSE {})]
      BY <2>1, <3>1, <3>4
    <3> QED  BY <3>2, <3>3, <3>4
  <2>4. CASE Resume(i)
    BY <2>1, <2>4 DEF Resume, InvStates
  <2> QED  BY <2>2, <2>3, <2>4
<1>4. TypeOK'
  BY <1>1, <1>3 DEF TypeOK, Tables
<1>5. Locked' /\ Rollable' /\ Marked'
  BY <1>1 DEF GatewayInv, Locked, Rollable, Marked, Declaring, Tearing
<1>6. ASSUME inv'[i] = "running", NEW t \in In(Needs[i])
      PROVE  task_states[t] = "ready" /\ i \in task_invocation_tasks'[t]
  <2>1. t \in Tasks
    BY UsersFacts
  <2>2. Dispatch(i) /\ inv'[i] = "running"
    BY <1>1, <1>6 DEF Invoke, Answered, Resume, TypeOK
  <2>3. \A k \in In(Needs[i]) : task_states[k] = "ready"
    BY <1>1, <2>2 DEF Dispatch, TypeOK
  <2>4. task_invocation_tasks' =
             [k \in Tasks |-> task_invocation_tasks[k] \cup (IF k \in In(Needs[i]) THEN {i} ELSE {})]
    BY <1>1, <2>2 DEF Dispatch, TypeOK
  <2> QED  BY <2>1, <2>3, <2>4
<1>7. ASSUME NEW k \in Invocations, inv'[k] = "running", NEW t \in In(Needs[k])
      PROVE  task_states'[t] = "ready" /\ k \in task_invocation_tasks'[t]
  <2>1. CASE k = i
    BY <1>1, <1>6, <1>7, <2>1
  <2>2. CASE k # i
    <3>1. inv[k] = "running" /\ t \in Tasks
      BY <1>2, <1>7, <2>2, UsersFacts
    <3>2. task_states[t] = "ready" /\ k \in task_invocation_tasks[t]
      BY <1>7, <3>1 DEF GatewayInv, InvokedAreReady
    <3> QED  BY <1>1, <1>3, <2>2, <3>1, <3>2
  <2> QED  BY <2>1, <2>2
<1>8. InvokedAreReady'
  BY <1>7 DEF InvokedAreReady
<1> QED  BY <1>4, <1>5, <1>8 DEF GatewayInv

-----------------------------------------------------------------------------
LEMMA GatewayNext ==
  ASSUME GatewayInv, [Next]_vars
  PROVE  GatewayInv'
<1>1. CASE UNCHANGED vars
  <2>1. /\ UNCHANGED <<apps, app_states, holding, closed, use, unuse, lock, task_states, usage, names>>
        /\ UNCHANGED <<snapshot, batch, pending, errors, running, flight, unsure, inv, task_invocation_tasks>>
    BY <1>1 DEF vars, appVars, table, calls, invVars
  <2>2. TypeOK'
    BY <2>1 DEF GatewayInv, TypeOK, Tables
  <2>3. \A v \in Users : (Declaring(v)' => Declaring(v)) /\ (Tearing(v)' => Tearing(v))
    BY <2>1 DEF Declaring, Tearing
  <2> QED  BY <2>1, <2>2, <2>3, Aside DEF invVars
<1>2. CASE Requests
  BY <1>2, RegisterAppInv, UnregisterAppInv, RequestInv, InvocationInv DEF Requests
<1>3. CASE Progress
  <2>1. CASE \E a \in Apps : DeployApp(a)
    BY <2>1, DeployAppInv
  <2>2. CASE \E u \in Users : DeclareUsed(u) \/ DeclareNotUsed(u)
    BY <2>2, DeclareUsedInv, DeclareNotUsedInv
  <2>3. CASE \E t \in Tasks : Deployed(t) \/ TornDown(t) \/ \E u \in Users : DeployedLate(t, u)
    BY <2>3, ServerInv, LateInv
  <2>4. CASE AllDeployed \/ RolledBack \/ AllTornDown
    BY <2>4, AllDeployedInv, RolledBackInv, AllTornDownInv
  <2>5. CASE \E i \in Invocations : Dispatch(i) \/ Answered(i) \/ Resume(i)
    BY <2>5, InvocationInv
  <2> QED  BY <1>3, <2>1, <2>2, <2>3, <2>4, <2>5 DEF Progress
<1>4. CASE Stop
  BY <1>1, <1>4 DEF Stop
<1> QED  BY <1>1, <1>2, <1>3, <1>4 DEF Next

THEOREM GatewayInvariant == Spec => []GatewayInv
<1>1. Init => GatewayInv
  BY GatewayInit
<1>2. GatewayInv /\ [Next]_vars => GatewayInv'
  BY GatewayNext
<1> QED  BY <1>1, <1>2, PTL DEF Spec

(* An invocation that goes on has all its tasks and will be told of the end *)
(* of any of them (invoke_tasks, declare_not_used and the rollback in       *)
(* services/gateway/task_manager.py).                                       *)
THEOREM InvocationsHaveTheirTasks == Spec => []InvokedAreReady
<1>1. GatewayInv => InvokedAreReady
  BY DEF GatewayInv
<1> QED  BY <1>1, GatewayInvariant, PTL

(* The tables of the gateway keep their types; no counter gets negative.    *)
THEOREM GatewayTypes == Spec => []TypeOK
<1>1. GatewayInv => TypeOK
  BY DEF GatewayInv
<1> QED  BY <1>1, GatewayInvariant, PTL

-----------------------------------------------------------------------------
(* The uses that are counted.  What follows is about the tasks whose users  *)
(* are trusted: of the others the counter may be anything.                  *)

(* An application gives back at most once, who has been told that its tasks *)
(* are ready has them, and of the trusted only such a one gives back, once. *)
UsersKept ==
  /\ \A a \in Apps : app_states[a] = "ready" => use[a] = "held"
  /\ \A a \in Apps : use[a] = "idle" => unuse[a] = "idle"
  /\ \A a \in apps : use[a] # "idle" /\ unuse[a] = "idle"
  /\ \A s \in holding : use[s] = "held"
  /\ \A u \in Trusted : /\ unuse[u] # "idle" => use[u] = "held"
                        /\ u \in holding => unuse[u] \notin {"released", "failed"}

(* A task that is absent has no uses, and one that is ready has some: in    *)
(* the tables, and in those that a rollback goes back to.                   *)
Kept(x) ==
  \A t \in Tasks : /\ x.states[t] = "absent" => x.usage[t] = 0
                   /\ x.states[t] = "ready" => x.usage[t] # 0
TablesKept == Kept(Tables) /\ (lock # Nobody /\ Declaring(lock) => Kept(snapshot))

(* What a declare_used has made of the tables it found: it has counted its  *)
(* uses, and marked those that were absent.                                 *)
FromSnapshot(t) ==
  /\ usage[t] = snapshot.usage[t] + Times(Uses[lock], t)
  /\ \/ t \in In(Uses[lock]) /\ snapshot.states[t] = "absent" /\ task_states[t] = "deploying"
     \/ /\ ~(t \in In(Uses[lock]) /\ snapshot.states[t] = "absent")
        /\ task_states[t] = snapshot.states[t] /\ t \notin batch
  /\ t \notin batch => names[t] = snapshot.names[t]
Snapped == lock # Nobody /\ Declaring(lock) => \A t \in Tasks : FromSnapshot(t)

(* What a declare_not_used tears down is its own and has no use left.       *)
Emptied == lock # Nobody /\ Tearing(lock) => \A t \in batch : t \in In(Uses[lock]) /\ usage[t] = 0

Counts == \A t \in Sound : IsFiniteSet(Declared(t)) /\ usage[t] = Cardinality(Declared(t))

(* What the Resource Manager runs of a task: at rest, while it is deployed  *)
(* and rolled back, and while it is torn down.                              *)
AtRest(t) ==
  /\ t \notin batch
  /\ \/ task_states[t] = "ready" /\ running[t] = {names[t]}
     \/ task_states[t] = "absent" /\ running[t] = {} /\ names[t] = Nobody
Starting(t) ==
  /\ lock # Nobody /\ use[lock] = "deploying"
  /\ task_states[t] = "deploying" /\ snapshot.states[t] = "absent" /\ snapshot.names[t] = Nobody
  /\ t \in batch /\ names[t] = lock /\ running[t] \in {{}, {lock}}
  /\ t \notin pending \cup errors => running[t] = {lock}
Undone(t) ==
  /\ lock # Nobody /\ use[lock] = "undoing"
  /\ task_states[t] = "deploying" /\ snapshot.states[t] = "absent" /\ snapshot.names[t] = Nobody
  /\ t \in batch => names[t] = lock
  /\ running[t] \in {{}, {lock}}
  /\ t \notin pending => running[t] = {}
Ending(t) ==
  /\ lock # Nobody /\ Tearing(lock)
  /\ task_states[t] = "tearing down" /\ t \in batch \ errors
  /\ running[t] = IF t \in pending THEN {names[t]} ELSE {}
Known == \A t \in Sound \ unsure : AtRest(t) \/ Starting(t) \/ Undone(t) \/ Ending(t)

(* What may put a task in doubt: its Teardown, or a call left in flight.    *)
Doubted ==
  /\ Sound \cap unsure \subseteq Flaky \cup Loose
  /\ \A t \in Tasks, u \in Users : <<t, u>> \in flight => t \in unsure

LeaseInv == /\ GatewayInv /\ UsersKept /\ TablesKept /\ Snapped
            /\ Emptied /\ Counts /\ Known /\ Doubted
-----------------------------------------------------------------------------
(* Lists and places. *)
LEMMA PrefixTimes ==
  ASSUME NEW seq \in Seq(Tasks), NEW k \in 0 .. Len(seq), NEW t
  PROVE  /\ SubSeq(seq, 1, k) \in Seq(Tasks)
         /\ In(SubSeq(seq, 1, k)) \subseteq In(seq)
         /\ Times(SubSeq(seq, 1, k), t) <= Times(seq, t)
<1> DEFINE head == SubSeq(seq, 1, k)
<1>1. head \in Seq(Tasks) /\ DOMAIN head = 1 .. k /\ \A j \in 1 .. k : head[j] = seq[j]
  OBVIOUS
<1>2. DOMAIN seq = 1 .. Len(seq) /\ 1 .. k \subseteq 1 .. Len(seq)
  OBVIOUS
<1>3. Places(head, t) \in SUBSET Places(seq, t)
  BY <1>1, <1>2 DEF Places
<1>4. In(head) \subseteq In(seq)
  BY <1>1, <1>2 DEF In
<1> QED  BY <1>1, <1>3, <1>4, TimesFacts, FS_Subset DEF Times

(* A list that fits is served to the end.                                   *)
LEMMA ServedWhole ==
  ASSUME TypeOK, NEW seq \in Seq(Tasks), Fits(seq), NEW list \in Served(seq)
  PROVE  list = seq
<1>1. PICK n \in 0 .. Len(seq) : /\ list = SubSeq(seq, 1, n)
                                 /\ n = Len(seq) \/ ~Fits(SubSeq(seq, 1, n + 1))
  BY DEF Served
<1>2. CASE n = Len(seq)
  BY <1>1, <1>2
<1>3. CASE n # Len(seq)
  <2>1. n + 1 \in 0 .. Len(seq)
    BY <1>1, <1>3
  <2>2. ASSUME NEW t \in In(SubSeq(seq, 1, n + 1)), Present(t)
        PROVE  Times(SubSeq(seq, 1, n + 1), t) <= usage[t]
    <3>1. t \in In(seq) /\ Times(SubSeq(seq, 1, n + 1), t) <= Times(seq, t)
      BY <2>1, <2>2, PrefixTimes
    <3>2. Times(seq, t) <= usage[t] /\ t \in Tasks
      BY <2>2, <3>1, InTasks DEF Fits
    <3>3. usage[t] \in Nat
      BY <3>2, TableFacts
    <3>4. SubSeq(seq, 1, n + 1) \in Seq(Tasks)
      BY <2>1, PrefixTimes
    <3>5. Times(seq, t) \in Nat /\ Times(SubSeq(seq, 1, n + 1), t) \in Nat
      BY <3>4, TimesFacts
    <3> QED  BY <3>1, <3>2, <3>3, <3>5
  <2>3. Fits(SubSeq(seq, 1, n + 1))
    BY <2>2 DEF Fits
  <2> QED  BY <1>1, <1>3, <2>3
<1> QED  BY <1>2, <1>3

LEMMA TrustFacts ==
  /\ Trusted \subseteq Users /\ Sound \subseteq Tasks
  /\ \A u \in Trusted : Careful(u) /\ \A t \in In(Uses[u]) : t \in Sound
  /\ \A t \in Sound, u \in Users : t \in In(Uses[u]) => u \in Trusted
<1>1. Trusted \subseteq Users /\ Sound \subseteq Tasks /\ \A u \in Trusted : Careful(u)
  BY DEF Trusted, Sound
<1>2. ASSUME NEW u \in Trusted, NEW t \in In(Uses[u])
      PROVE  t \in Sound
  <2>1. PICK group \in SUBSET Users : u \in group /\ Apart(group) /\ \A v \in group : Careful(v)
    BY DEF Trusted
  <2>2. ASSUME NEW v \in Users, t \in In(Uses[v])
        PROVE  v \in Trusted
    <3>1. Shared(u, v)
      BY <1>2, <2>2 DEF Shared
    <3>2. v \in group
      BY <2>1, <3>1 DEF Apart
    <3> QED  BY <2>1, <3>2 DEF Trusted
  <2>3. t \in Tasks
    BY <1>1, UsersFacts
  <2> QED  BY <2>2, <2>3 DEF Sound
<1>3. \A t \in Sound, u \in Users : t \in In(Uses[u]) => u \in Trusted
  BY DEF Sound
<1> QED  BY <1>1, <1>2, <1>3

-----------------------------------------------------------------------------
(* The uses that are counted change with the calls of trusted users only.   *)
LEMMA DeclaredSame ==
  ASSUME NEW t \in Sound, \A u \in Trusted : Counted(u)' <=> Counted(u)
  PROVE  Declared(t)' = Declared(t)
<1>1. \A u \in Users : u \in Trusted \/ Places(Uses[u], t) = {}
  BY TrustFacts, TimesFacts, UsersFacts
<1> QED  BY <1>1 DEF Declared

(* The uses of one user: as many as its list names the task.                *)
UsesOf(u, t) == {u} \X Places(Uses[u], t)
LEMMA UsesOfCount ==
  ASSUME NEW u \in Users, NEW t
  PROVE  IsFiniteSet(UsesOf(u, t)) /\ Cardinality(UsesOf(u, t)) = Times(Uses[u], t)
<1>1. IsFiniteSet({u}) /\ Cardinality({u}) = 1
  BY FS_Singleton
<1>2. IsFiniteSet(Places(Uses[u], t)) /\ Times(Uses[u], t) \in Nat
  BY TimesFacts, UsersFacts
<1>3. /\ IsFiniteSet({u} \X Places(Uses[u], t))
      /\ Cardinality({u} \X Places(Uses[u], t)) = 1 * Cardinality(Places(Uses[u], t))
  BY <1>1, <1>2, FS_Product
<1> QED  BY <1>2, <1>3 DEF UsesOf, Times

LEMMA DisjointCount ==
  ASSUME NEW S, NEW T, IsFiniteSet(S), IsFiniteSet(T), S \cap T = {}
  PROVE  /\ IsFiniteSet(S \cup T) /\ Cardinality(S) \in Nat
         /\ Cardinality(S \cup T) = Cardinality(S) + Cardinality(T)
<1>1. Cardinality(S) \in Nat /\ Cardinality(T) \in Nat
  BY FS_CardinalityType
<1>2. Cardinality(S \cap T) = 0
  BY FS_EmptySet, Zenon
<1>3. IsFiniteSet(S \cup T)
  BY FS_Union
<1>4. Cardinality(S \cup T) = Cardinality(S) + Cardinality(T) - Cardinality(S \cap T)
  BY FS_Union
<1> QED  BY <1>1, <1>2, <1>3, <1>4

(* One user's are counted, or are not any more.                             *)
LEMMA CountJoins ==
  ASSUME NEW t \in Sound, NEW u \in Users, IsFiniteSet(Declared(t)),
         ~Counted(u), Counted(u)', \A v \in Users : v # u => (Counted(v)' <=> Counted(v))
  PROVE  /\ IsFiniteSet(Declared(t)')
         /\ Cardinality(Declared(t)') = Cardinality(Declared(t)) + Times(Uses[u], t)
<1>1. Declared(t)' = Declared(t) \cup UsesOf(u, t)
  BY DEF Declared, UsesOf
<1>2. Declared(t) \cap UsesOf(u, t) = {}
  BY DEF Declared, UsesOf
<1>3. IsFiniteSet(UsesOf(u, t)) /\ Cardinality(UsesOf(u, t)) = Times(Uses[u], t)
  BY UsesOfCount
<1>4. /\ IsFiniteSet(Declared(t) \cup UsesOf(u, t))
      /\ Cardinality(Declared(t) \cup UsesOf(u, t)) = Cardinality(Declared(t)) + Cardinality(UsesOf(u, t))
  BY <1>2, <1>3, DisjointCount
<1> QED  BY <1>1, <1>3, <1>4, Zenon

LEMMA CountLeaves ==
  ASSUME NEW t \in Sound, NEW u \in Users, IsFiniteSet(Declared(t)),
         Counted(u), ~Counted(u)', \A v \in Users : v # u => (Counted(v)' <=> Counted(v))
  PROVE  /\ IsFiniteSet(Declared(t)')
         /\ Cardinality(Declared(t)') \in Nat
         /\ Cardinality(Declared(t)) = Cardinality(Declared(t)') + Times(Uses[u], t)
<1>1. Declared(t) = Declared(t)' \cup UsesOf(u, t)
  BY DEF Declared, UsesOf
<1>2. Declared(t)' \cap UsesOf(u, t) = {}
  BY DEF Declared, UsesOf
<1>3. IsFiniteSet(UsesOf(u, t)) /\ Cardinality(UsesOf(u, t)) = Times(Uses[u], t)
  BY UsesOfCount
<1>4. IsFiniteSet(Declared(t)')
  BY <1>1, FS_Subset
<1>5. /\ Cardinality(Declared(t)') \in Nat
      /\ Cardinality(Declared(t)' \cup UsesOf(u, t)) = Cardinality(Declared(t)') + Cardinality(UsesOf(u, t))
  BY <1>2, <1>3, <1>4, DisjointCount
<1> QED  BY <1>1, <1>3, <1>4, <1>5, Zenon

(* A counted use is a user of the task that is counted.                     *)
LEMMA CountedUses ==
  ASSUME NEW t, NEW group \in SUBSET Users, NEW all,
         all = UNION { {u} \X Places(Uses[u], t) : u \in group }, IsFiniteSet(all)
  PROVE  /\ \A u \in group : Times(Uses[u], t) <= Cardinality(all)
         /\ Cardinality(all) # 0 <=> \E u \in group : t \in In(Uses[u])
<1>1. ASSUME NEW u \in group
      PROVE  Times(Uses[u], t) <= Cardinality(all)
  <2>1. UsesOf(u, t) \in SUBSET all
    BY DEF UsesOf
  <2> QED  BY <2>1, FS_Subset, UsesOfCount
<1>2. all # {} <=> \E u \in group : t \in In(Uses[u])
  <2>1. ASSUME NEW u \in group, NEW k \in Places(Uses[u], t)
        PROVE  <<u, k>> \in all
    OBVIOUS
  <2>2. ASSUME NEW e \in all
        PROVE  \E u \in group : Places(Uses[u], t) # {}
    <3>1. PICK u \in group : e \in {u} \X Places(Uses[u], t)
      OBVIOUS
    <3> QED  BY <3>1
  <2>3. all # {} <=> \E u \in group : Places(Uses[u], t) # {}
    BY <2>1, <2>2
  <2> QED  BY <2>3, TimesFacts, UsersFacts
<1> QED  BY <1>1, <1>2, FS_EmptySet

-----------------------------------------------------------------------------
LEMMA LeaseInit == Init => LeaseInv /\ Lease!Init
<1> SUFFICES ASSUME Init PROVE LeaseInv /\ Lease!Init
  OBVIOUS
<1>1. GatewayInv
  BY GatewayInit
<1>2. \A u \in Users : use[u] \in {"idle", "failed"} /\ unuse[u] = "idle"
  BY DEF Init
<1>3. UsersKept
  BY <1>2, TrustFacts, UsersFacts DEF Init, UsersKept
<1>4. TablesKept /\ Snapped /\ Emptied
  BY DEF Init, TablesKept, Kept, Tables, Snapped, Emptied
<1>5. Counts
  <2> SUFFICES ASSUME NEW t \in Sound
               PROVE  IsFiniteSet(Declared(t)) /\ usage[t] = Cardinality(Declared(t))
    BY DEF Counts
  <2>1. Declared(t) = {}
    BY <1>2, ZenonT(40) DEF Declared, Counted
  <2>2. usage[t] = 0
    BY TrustFacts DEF Init
  <2> QED  BY <2>1, <2>2, FS_EmptySet, Zenon
<1>6. Known
  BY TrustFacts DEF Init, Known, AtRest
<1>7. Doubted
  BY DEF Init, Doubted
<1>8. Holders = {} /\ Up = {}
  BY <1>2, TrustFacts DEF Init, Holders, Up
<1> QED  BY <1>1, <1>3, <1>4, <1>5, <1>6, <1>7, <1>8 DEF LeaseInv, Lease!Init

(* Steps outside the lock and the calls of the trusted users.               *)
Outside ==
  /\ UNCHANGED <<lock, task_states, usage, names, snapshot, batch, pending, errors, unsure>>
  /\ flight' \subseteq flight /\ \A t \in Tasks \ unsure : running'[t] = running[t]
  /\ \A u \in Users : /\ Declaring(u) \/ Declaring(u)' => use'[u] = use[u]
                      /\ Tearing(u)' <=> Tearing(u)
  /\ \A u \in Trusted : Counted(u)' <=> Counted(u)

LEMMA OutsideInv ==
  ASSUME LeaseInv, GatewayInv', UsersKept', Outside
  PROVE  LeaseInv' /\ UNCHANGED <<Holders, Up>>
<1>1. /\ UNCHANGED <<lock, task_states, usage, names, snapshot, batch, pending, errors, unsure>>
      /\ flight' \subseteq flight /\ \A t \in Tasks \ unsure : running'[t] = running[t]
  BY DEF Outside
<1>2. /\ lock \in Users \cup {Nobody}
      /\ lock # Nobody => (Declaring(lock)' <=> Declaring(lock)) /\ (Tearing(lock)' <=> Tearing(lock))
      /\ lock # Nobody /\ Declaring(lock) => use'[lock] = use[lock]
  BY DEF LeaseInv, GatewayInv, TypeOK, Outside, Declaring
<1>3. Tables' = Tables
  BY <1>1 DEF Tables
<1>4. TablesKept'
  BY <1>1, <1>2, <1>3 DEF LeaseInv, TablesKept
<1>5. Snapped'
  BY <1>1, <1>2 DEF LeaseInv, Snapped, FromSnapshot
<1>6. Emptied'
  BY <1>1, <1>2 DEF LeaseInv, Emptied
<1>7. Counts'
  BY <1>1, DeclaredSame DEF LeaseInv, Counts, Outside
<1>8. Known'
  <2> SUFFICES ASSUME NEW t \in Sound \ unsure
               PROVE  (AtRest(t) \/ Starting(t) \/ Undone(t) \/ Ending(t))'
    BY <1>1 DEF Known
  <2>0. running'[t] = running[t]
    BY <1>1, TrustFacts
  <2>1. AtRest(t) \/ Starting(t) \/ Undone(t) \/ Ending(t)
    BY DEF LeaseInv, Known
  <2>2. CASE AtRest(t)
    BY <1>1, <2>0, <2>2 DEF AtRest
  <2>3. CASE Starting(t)
    BY <1>1, <1>2, <2>0, <2>3 DEF Starting, Declaring
  <2>4. CASE Undone(t)
    BY <1>1, <1>2, <2>0, <2>4 DEF Undone, Declaring
  <2>5. CASE Ending(t)
    BY <1>1, <1>2, <2>0, <2>5 DEF Ending
  <2> QED  BY <2>1, <2>2, <2>3, <2>4, <2>5
<1>9. UNCHANGED <<Holders, Up>>
  <2>1. ASSUME NEW u \in Trusted
        PROVE  /\ use[u] = "held" /\ unuse[u] \in {"idle", "queued"} <=> Counted(u) /\ ~Declaring(u)
               /\ (use[u] = "held" /\ unuse[u] \in {"idle", "queued"} <=> Counted(u) /\ ~Declaring(u))'
    BY DEF Counted, Declaring
  <2>2. \A u \in Trusted : Declaring(u)' <=> Declaring(u)
    BY TrustFacts DEF Outside, Declaring
  <2> QED  BY <1>1, <2>1, <2>2 DEF Outside, Holders, Up
<1>10. Doubted'
  BY <1>1 DEF LeaseInv, Doubted
<1> QED  BY <1>4, <1>5, <1>6, <1>7, <1>8, <1>9, <1>10 DEF LeaseInv

(* Applications that come and go, and the requests of sessions.             *)
LEMMA RequestsLease ==
  ASSUME LeaseInv, Requests \/ \E a \in Apps : DeployApp(a)
  PROVE  LeaseInv' /\ UNCHANGED <<Holders, Up>>
<1>1. /\ GatewayInv /\ UsersKept /\ use \in [Users -> UseStates] /\ unuse \in [Users -> UnuseStates]
      /\ app_states \in [Apps -> {"absent", "not ready", "ready"}]
      /\ apps \subseteq Apps /\ holding \subseteq Sessions
  BY DEF LeaseInv, GatewayInv, TypeOK
<1>2. GatewayInv'
  BY <1>1, RegisterAppInv, DeployAppInv, UnregisterAppInv, RequestInv, InvocationInv DEF Requests
<1>3. ASSUME UsersKept', Outside
      PROVE  LeaseInv' /\ UNCHANGED <<Holders, Up>>
  BY <1>2, <1>3, OutsideInv
<1> USE DEF table, calls
<1>4. ASSUME NEW a \in Apps, RegisterApp(a)
      PROVE  UsersKept' /\ Outside
  <2>1. /\ use[a] = "idle" /\ use' = [use EXCEPT ![a] = "listed"] /\ apps' = apps \cup {a}
        /\ app_states' = [app_states EXCEPT ![a] = "not ready"] /\ UNCHANGED <<unuse, holding>>
        /\ a \in Users /\ a \notin Sessions
    BY <1>4, UsersFacts DEF RegisterApp, GotoUse
  <2>3. use'[a] = "listed" /\ \A u \in Users : u # a => use'[u] = use[u]
    BY <1>1, <2>1
  <2>2. UsersKept'
    BY <1>1, <2>1, <2>3, TrustFacts, UsersFacts, ZenonT(40) DEF UsersKept
  <2> QED  BY <1>1, <1>4, <2>1, <2>2, <2>3, TrustFacts DEF Outside, RegisterApp, Declaring, Tearing, Counted
<1>5. ASSUME NEW a \in Apps, DeployApp(a)
      PROVE  UsersKept' /\ Outside
  <2>1. PICK pc \in {"queued", "failed"} : use' = [use EXCEPT ![a] = pc]
    BY <1>5 DEF DeployApp, GotoUse
  <2>2. /\ use[a] = "listed" /\ UNCHANGED <<unuse, holding, apps>> /\ a \in Users /\ a \notin Sessions
        /\ app_states' \in {app_states, [app_states EXCEPT ![a] = "absent"]}
    BY <1>5, UsersFacts DEF DeployApp
  <2>4. use'[a] \in {"queued", "failed"} /\ \A u \in Users : u # a => use'[u] = use[u]
    BY <1>1, <2>1, <2>2
  <2>5. \A b \in Apps : app_states'[b] = "ready" => app_states[b] = "ready" /\ use[b] = "held"
    BY <1>1, <2>2 DEF UsersKept
  <2>3. UsersKept'
    BY <1>1, <2>1, <2>2, <2>4, <2>5, TrustFacts, UsersFacts, ZenonT(40) DEF UsersKept
  <2> QED  BY <1>1, <1>5, <2>1, <2>2, <2>3, <2>4, TrustFacts DEF Outside, DeployApp, Declaring, Tearing, Counted
<1>6. ASSUME NEW a \in Apps, UnregisterApp(a)
      PROVE  UsersKept' /\ Outside
  <2>1. /\ a \in apps /\ apps' = apps \ {a} /\ app_states' = [app_states EXCEPT ![a] = "absent"]
        /\ unuse' = [unuse EXCEPT ![a] = "queued"] /\ UNCHANGED <<use, holding>>
        /\ a \in Hasty \/ app_states[a] = "ready"
        /\ a \in Users /\ a \notin Sessions
    BY <1>6, UsersFacts DEF UnregisterApp, GotoUnuse
  <2>2. /\ a \in Trusted => use[a] = "held"
        /\ use[a] # "idle" /\ unuse[a] = "idle"
    BY <1>1, <2>1, TrustFacts DEF UsersKept, Careful
  <2>4. unuse'[a] = "queued" /\ \A u \in Users : u # a => unuse'[u] = unuse[u]
    BY <1>1, <2>1
  <2>5. \A b \in Apps : app_states'[b] = "ready" => app_states[b] = "ready"
    BY <1>1, <2>1
  <2>3. UsersKept'
    <3>1. \A b \in Apps : app_states'[b] = "ready" => use'[b] = "held"
      BY <1>1, <2>1, <2>5 DEF UsersKept
    <3>2. \A b \in Apps : use'[b] = "idle" => unuse'[b] = "idle"
      BY <1>1, <2>1, <2>2, <2>4, UsersFacts DEF UsersKept
    <3>3. \A b \in apps' : use'[b] # "idle" /\ unuse'[b] = "idle"
      BY <1>1, <2>1, <2>4, UsersFacts DEF UsersKept
    <3>4. \A s \in holding' : use'[s] = "held"
      BY <1>1, <2>1 DEF UsersKept
    <3>5. ASSUME NEW u \in Trusted
          PROVE  /\ unuse'[u] # "idle" => use'[u] = "held"
                 /\ u \in holding' => unuse'[u] \notin {"released", "failed"}
      <4>1. CASE u = a
        BY <1>1, <2>1, <2>2, <2>4, <3>5, <4>1
      <4>2. CASE u # a
        BY <1>1, <2>1, <2>4, <3>5, <4>2, TrustFacts DEF UsersKept
      <4> QED  BY <4>1, <4>2
    <3> QED  BY <3>1, <3>2, <3>3, <3>4, <3>5 DEF UsersKept
  <2> QED  BY <1>1, <1>6, <2>1, <2>2, <2>3, <2>4, TrustFacts DEF Outside, UnregisterApp, Declaring, Tearing, Counted
<1>7. ASSUME NEW s \in Sessions, RequestUse(s) \/ RequestNotUse(s) \/ Destroy(s)
      PROVE  UsersKept' /\ Outside
  <2>1. s \in Users /\ s \notin Apps /\ SessionsIdle
    BY <1>7, UsersFacts DEF RequestUse, RequestNotUse, Destroy
  <2>2. CASE RequestUse(s)
    <3>1. /\ use[s] = "idle" /\ use' = [use EXCEPT ![s] = "queued"]
          /\ UNCHANGED <<apps, app_states, holding, unuse>>
      BY <2>2 DEF RequestUse, GotoUse, appVars
    <3>2. use'[s] = "queued" /\ \A u \in Users : u # s => use'[u] = use[u]
      BY <1>1, <2>1, <3>1
    <3>3. UsersKept'
      <4>1. \A u \in Users : use'[u] = use[u] \/ (use[u] = "idle" /\ use'[u] = "queued")
        BY <3>1, <3>2
      <4>2. \A u \in Users : use'[u] = "idle" => use[u] = "idle"
        BY <3>1, <3>2
      <4>3. \A u \in Users : use[u] = "held" => use'[u] = "held"
        BY <3>1, <3>2
      <4>4. holding \subseteq Users /\ apps \subseteq Users
        BY <1>1, UsersFacts
      <4> QED  BY <1>1, <3>1, <4>2, <4>3, <4>4, TrustFacts, UsersFacts, ZenonT(40) DEF UsersKept
    <3> QED  BY <1>1, <2>1, <2>2, <3>1, <3>2, <3>3, TrustFacts DEF Outside, RequestUse, Declaring, Tearing, Counted
  <2>3. CASE RequestNotUse(s) \/ (Destroy(s) /\ s \in holding)
    <3>1. /\ s \in holding /\ unuse' = [unuse EXCEPT ![s] = "queued"] /\ unuse[s] \notin {"queued", "tearing"}
          /\ UNCHANGED <<apps, app_states, holding, use>>
      BY <2>1, <2>3 DEF RequestNotUse, Destroy, GotoUnuse, appVars, SessionsIdle
    <3>2. unuse'[s] = "queued" /\ \A u \in Users : u # s => unuse'[u] = unuse[u]
      BY <1>1, <2>1, <3>1
    <3>3. use[s] = "held" /\ (s \in Trusted => unuse[s] = "idle")
      BY <1>1, <2>1, <3>1 DEF UsersKept, UnuseStates
    <3>4. UsersKept'
      <4>1. \A a \in Apps : unuse'[a] = unuse[a]
        BY <2>1, <3>2, UsersFacts
      <4>2. /\ \A a \in Apps : app_states[a] = "ready" => use[a] = "held"
            /\ \A a \in Apps : use[a] = "idle" => unuse'[a] = "idle"
            /\ \A a \in apps : use[a] # "idle" /\ unuse'[a] = "idle"
            /\ \A u \in holding : use[u] = "held"
        BY <1>1, <4>1 DEF UsersKept
      <4>3. \A u \in Trusted : /\ unuse'[u] # "idle" => use[u] = "held"
                               /\ u \in holding => unuse'[u] \notin {"released", "failed"}
        BY <1>1, <3>2, <3>3, TrustFacts DEF UsersKept
      <4> QED  BY <3>1, <4>2, <4>3 DEF UsersKept
    <3> QED  BY <1>1, <2>1, <2>3, <3>1, <3>2, <3>3, <3>4, TrustFacts
             DEF Outside, RequestNotUse, Destroy, Declaring, Tearing, Counted
  <2>4. CASE Destroy(s) /\ s \notin holding
    <3>1. UNCHANGED <<apps, app_states, holding, use, unuse>>
      BY <2>4 DEF Destroy
    <3>2. UsersKept'
      BY <1>1, <3>1 DEF UsersKept
    <3> QED  BY <2>4, <3>1, <3>2 DEF Outside, Destroy, Declaring, Tearing, Counted
  <2> QED  BY <1>7, <2>2, <2>3, <2>4
<1>8. ASSUME NEW i \in Invocations, Invoke(i)
      PROVE  UsersKept' /\ Outside
  <2>1. UNCHANGED <<apps, app_states, holding, use, unuse>>
    BY <1>8 DEF Invoke, appVars
  <2> QED  BY <1>1, <1>8, <2>1 DEF UsersKept, Outside, Invoke, Declaring, Tearing, Counted
<1> QED  BY <1>3, <1>4, <1>5, <1>6, <1>7, <1>8 DEF Requests

LEMMA InvocationLease ==
  ASSUME LeaseInv, NEW i \in Invocations, Dispatch(i) \/ Answered(i) \/ Resume(i)
  PROVE  LeaseInv' /\ UNCHANGED <<Holders, Up>>
<1>1. GatewayInv'
  BY InvocationInv DEF LeaseInv
<1>2. /\ UNCHANGED <<apps, app_states, holding, use, unuse>>
      /\ UNCHANGED <<lock, task_states, usage, names, snapshot, batch, pending, errors, running, flight, unsure>>
  BY DEF Dispatch, Answered, Resume, appVars, table, calls
<1>3. UsersKept'
  BY <1>2 DEF LeaseInv, UsersKept
<1>4. Outside
  BY <1>2 DEF Outside, Declaring, Tearing, Counted
<1> QED  BY <1>1, <1>3, <1>4, OutsideInv

LEMMA IdleLease ==
  ASSUME LeaseInv, UNCHANGED vars
  PROVE  LeaseInv' /\ UNCHANGED <<Holders, Up>>
<1>1. GatewayInv'
  BY GatewayNext DEF LeaseInv
<1>2. /\ UNCHANGED <<apps, app_states, holding, use, unuse>>
      /\ UNCHANGED <<lock, task_states, usage, names, snapshot, batch, pending, errors, running, flight, unsure>>
  BY DEF vars, appVars, table, calls
<1>3. UsersKept'
  BY <1>2 DEF LeaseInv, UsersKept
<1>4. Outside
  BY <1>2 DEF Outside, Declaring, Tearing, Counted
<1> QED  BY <1>1, <1>3, <1>4, OutsideInv

(* A Deploy left in flight takes effect: its task is in doubt.              *)
LEMMA LateLease ==
  ASSUME LeaseInv, NEW t \in Tasks, NEW u \in Users, DeployedLate(t, u)
  PROVE  LeaseInv' /\ UNCHANGED <<Holders, Up>>
<1>1. GatewayInv'
  BY LateInv DEF LeaseInv
<1>2. /\ UNCHANGED <<apps, app_states, holding, use, unuse>>
      /\ UNCHANGED <<lock, task_states, usage, names, snapshot, batch, pending, errors, unsure>>
      /\ flight' \subseteq flight /\ running' \in {running} \cup Started(t, u)
      /\ <<t, u>> \in flight
  BY DEF DeployedLate, appVars, table, calls
<1>3. t \in unsure
  BY <1>2 DEF LeaseInv, Doubted
<1>4. \A k \in Tasks \ unsure : running'[k] = running[k]
  <2>1. running \in [Tasks -> SUBSET Users]
    BY TableFacts DEF LeaseInv, GatewayInv
  <2>2. \A f \in Started(t, u) : \A k \in Tasks : k # t => f[k] = running[k]
    BY <2>1, StartedElsewhere
  <2> QED  BY <1>2, <1>3, <2>2
<1>5. UsersKept'
  BY <1>2 DEF LeaseInv, UsersKept
<1>6. Outside
  BY <1>2, <1>4 DEF Outside, Declaring, Tearing, Counted
<1> QED  BY <1>1, <1>5, <1>6, OutsideInv

-----------------------------------------------------------------------------
(* The answers of the Resource Manager. *)
LEMMA ServerLease ==
  ASSUME LeaseInv, NEW s \in Tasks, Deployed(s) \/ TornDown(s)
  PROVE  LeaseInv' /\ UNCHANGED <<Holders, Up>>
<1>1. GatewayInv /\ GatewayInv'
  BY ServerInv DEF LeaseInv
<1>2. /\ lock \in Users /\ lock # Nobody /\ s \in pending /\ s \in batch
      /\ UNCHANGED <<apps, app_states, holding, use, unuse, lock, task_states, usage, names, snapshot, batch>>
      /\ pending' = pending \ {s}
      /\ running \in [Tasks -> SUBSET Users] /\ running' \in [Tasks -> SUBSET Users]
      /\ flight' = flight /\ unsure' \in {unsure, unsure \cup {s}}
      /\ names \in [Tasks -> Users \cup {Nobody}]
  BY <1>1, TableFacts DEF GatewayInv, TypeOK, Deployed, TornDown, appVars, table
<1>3. \A t \in Tasks : t # s => running'[t] = running[t] /\ (t \in errors' <=> t \in errors)
  <2>1. CASE Deployed(s)
    <3>1. running' \in {running} \cup Started(s, lock) /\ errors' \in {errors, errors \cup {s}}
      BY <2>1 DEF Deployed
    <3>2. \A f \in Started(s, lock) : \A k \in Tasks : k # s => f[k] = running[k]
      BY <1>2, StartedElsewhere
    <3> QED  BY <1>2, <3>1, <3>2
  <2>2. CASE TornDown(s)
    BY <1>2, <2>2 DEF TornDown, Without
  <2> QED  BY <2>1, <2>2
<1>4. UsersKept' /\ TablesKept' /\ Snapped' /\ Emptied'
  <2>1. UsersKept'
    BY <1>2 DEF LeaseInv, UsersKept
  <2>2. TablesKept'
    BY <1>2 DEF LeaseInv, TablesKept, Kept, Tables, Declaring
  <2>3. Snapped'
    BY <1>2 DEF LeaseInv, Snapped, FromSnapshot, Declaring
  <2>4. Emptied'
    BY <1>2 DEF LeaseInv, Emptied, Tearing
  <2> QED  BY <2>1, <2>2, <2>3, <2>4
<1>5. Counts'
  <2>1. \A u \in Trusted : Counted(u)' <=> Counted(u)
    BY <1>2 DEF Counted
  <2> QED  BY <1>2, <2>1, DeclaredSame DEF LeaseInv, Counts
<1>6. Known'
  <2> SUFFICES ASSUME NEW t \in Sound \ unsure'
               PROVE  (AtRest(t) \/ Starting(t) \/ Undone(t) \/ Ending(t))'
    BY DEF Known
  <2>1. AtRest(t) \/ Starting(t) \/ Undone(t) \/ Ending(t)
    BY <1>2 DEF LeaseInv, Known
  <2>2. CASE t # s
    <3>1. /\ running'[t] = running[t] /\ (t \in errors' <=> t \in errors)
          /\ (t \in pending' <=> t \in pending)
      BY <1>2, <1>3, <2>2, TrustFacts
    <3>2. AtRest(t) => AtRest(t)'
      BY <1>2, <3>1 DEF AtRest
    <3>3. Starting(t) => Starting(t)'
      BY <1>2, <3>1 DEF Starting
    <3>4. Undone(t) => Undone(t)'
      BY <1>2, <3>1 DEF Undone
    <3>5. Ending(t) => Ending(t)'
      BY <1>2, <3>1 DEF Ending, Tearing
    <3> QED  BY <2>1, <3>2, <3>3, <3>4, <3>5
  <2>3. CASE t = s
    <3>1. t \in Tasks /\ t \notin unsure' /\ t \notin unsure /\ t \notin pending' /\ ~AtRest(t)
      BY <1>2, <2>3, TrustFacts DEF AtRest
    <3>2. ~(Declaring(lock) /\ Tearing(lock))
      BY <1>1, <1>2 DEF GatewayInv, Locked
    <3>3. CASE Deployed(t)
      <4>1. use[lock] = "deploying" /\ Starting(t)
        BY <2>1, <3>1, <3>2, <3>3 DEF Deployed, Undone, Ending, Declaring
      <4>4. \A f \in Started(t, lock) : f[t] = IF running[t] = {} THEN {lock} ELSE running[t]
        BY <1>2, <3>1, StartedOnce
      <4>5. running[t] \in {{}, {lock}}
        BY <4>1 DEF Starting
      <4>2. \A f \in Started(t, lock) : f[t] = {lock}
        BY <4>4, <4>5
      <4>3. /\ running'[t] \in {{}, {lock}}
            /\ t \notin errors' => running'[t] = {lock}
        BY <1>2, <3>1, <3>3, <4>1, <4>2 DEF Deployed, Starting
      <4> QED  BY <1>2, <4>1, <4>3 DEF Starting
    <3>4. CASE TornDown(t)
      <4>1. ~Starting(t)
        BY <3>2, <3>4 DEF TornDown, Starting, Declaring, Tearing
      <4>2. running[t] \in {{}, {names[t]}}
        BY <1>2, <2>1, <2>3, <3>1, <4>1 DEF Undone, Ending
      <4>3. running' = Without(t, names[t]) /\ errors' = errors
        BY <1>2, <3>1, <3>4, <4>2 DEF TornDown
      <4>6. running'[t] = {}
        BY <1>2, <3>1, <4>2, <4>3 DEF Without
      <4>4. Undone(t) => Undone(t)'
        BY <1>2, <4>6 DEF Undone
      <4>5. Ending(t) => Ending(t)'
        BY <1>2, <3>1, <4>3, <4>6 DEF Ending, Tearing
      <4> QED  BY <2>1, <3>1, <4>1, <4>4, <4>5
    <3> QED  BY <2>3, <3>3, <3>4
  <2> QED  BY <2>2, <2>3
(* Only a task that is flaky or in doubt already comes into doubt.          *)
<1>7. Doubted'
  <2>1. ASSUME s \in Sound, s \notin unsure, s \in unsure'
        PROVE  s \in Flaky
    <3>1. TornDown(s)
      BY <2>1 DEF Deployed
    <3>2. Starting(s) \/ Undone(s) \/ Ending(s)
      BY <1>2, <2>1 DEF LeaseInv, Known, AtRest
    <3>3. ~Starting(s)
      BY <1>1, <1>2, <3>1 DEF GatewayInv, Locked, TornDown, Starting, Declaring, Tearing
    <3>4. running[s] \in {{}, {names[s]}}
      BY <1>2, <3>2, <3>3 DEF Undone, Ending
    <3> QED  BY <2>1, <3>1, <3>4 DEF TornDown
  <2> QED  BY <1>2, <2>1 DEF LeaseInv, Doubted
<1>8. UNCHANGED <<Holders, Up>>
  BY <1>2 DEF Holders, Up
<1> QED  BY <1>1, <1>4, <1>5, <1>6, <1>7, <1>8 DEF LeaseInv

-----------------------------------------------------------------------------
(* What the callers do afterwards. *)
LEMMA AfterUseKept ==
  ASSUME TypeOK, UsersKept, NEW u \in Users, NEW ok \in BOOLEAN, AfterUse(u, ok), UNCHANGED unuse,
         use[u] \in {"queued", "deploying", "undoing"}
  PROVE  UsersKept'
<1>1. /\ use'[u] = (IF ok THEN "held" ELSE "failed") /\ \A v \in Users : v # u => use'[v] = use[v]
      /\ apps' \subseteq apps /\ apps \subseteq Apps
      /\ holding' = IF ok THEN holding \cup ({u} \cap Sessions) ELSE holding
      /\ holding \subseteq Sessions
      /\ \A a \in Apps : app_states'[a] = "ready" => (a = u /\ ok) \/ (a # u /\ app_states[a] = "ready")
  BY DEF TypeOK, AfterUse, GotoUse
<1>2. u \notin holding /\ (u \in Trusted => unuse[u] = "idle")
  BY DEF UsersKept
<1>3. /\ \A a \in Apps : app_states'[a] = "ready" => use'[a] = "held"
      /\ \A a \in Apps : use'[a] = "idle" => unuse[a] = "idle"
  BY <1>1, UsersFacts DEF UsersKept
<1>4. \A a \in apps' : use'[a] # "idle" /\ unuse[a] = "idle"
  BY <1>1, UsersFacts DEF UsersKept
<1>5. \A s \in holding' : use'[s] = "held"
  BY <1>1, <1>2, UsersFacts DEF UsersKept
<1>6. ASSUME NEW v \in Trusted
      PROVE  /\ unuse[v] # "idle" => use'[v] = "held"
             /\ v \in holding' => unuse[v] \notin {"released", "failed"}
  BY <1>1, <1>2, TrustFacts DEF UsersKept
<1> QED  BY <1>3, <1>4, <1>5, <1>6 DEF UsersKept

LEMMA AfterUnuseKept ==
  ASSUME TypeOK, UsersKept, NEW u \in Users, NEW ok \in BOOLEAN, AfterUnuse(u, ok), UNCHANGED use,
         unuse[u] \in {"queued", "tearing"}, u \in Trusted \cap Sessions => ok
  PROVE  UsersKept'
<1>1. /\ unuse'[u] = (IF ok THEN "released" ELSE "failed")
      /\ \A v \in Users : v # u => unuse'[v] = unuse[v]
      /\ apps' = apps /\ app_states' = app_states /\ apps \subseteq Apps
      /\ holding' = IF ok THEN holding \ {u} ELSE holding
      /\ holding \subseteq Sessions
  BY DEF TypeOK, AfterUnuse, GotoUnuse
<1>2. u \notin apps
  BY DEF UsersKept
<1>3. \A a \in Apps : use[a] = "idle" => unuse'[a] = "idle"
  BY <1>1, UsersFacts DEF UsersKept
<1>4. \A a \in apps : use[a] # "idle" /\ unuse'[a] = "idle"
  BY <1>1, <1>2, UsersFacts DEF UsersKept
<1>5. \A s \in holding' : use[s] = "held"
  BY <1>1 DEF UsersKept
<1>6. ASSUME NEW v \in Trusted
      PROVE  /\ unuse'[v] # "idle" => use[v] = "held"
             /\ v \in holding' => unuse'[v] \notin {"released", "failed"}
  <2>1. v \in Users /\ (unuse[v] # "idle" => use[v] = "held")
    BY TrustFacts DEF UsersKept
  <2>2. CASE v = u
    <3>1. v \notin holding'
      BY <1>1, <1>6, <2>2
    <3> QED  BY <2>1, <2>2, <3>1
  <2>3. CASE v # u
    BY <1>1, <1>6, <2>1, <2>3 DEF UsersKept
  <2> QED  BY <2>2, <2>3
<1>7. \A a \in Apps : app_states[a] = "ready" => use[a] = "held"
  BY DEF UsersKept
<1> QED  BY <1>1, <1>3, <1>4, <1>5, <1>6, <1>7 DEF UsersKept

(* A call that goes on inside the lock leaves the users as they were.       *)
LEMMA InsideKept ==
  ASSUME TypeOK, UsersKept, NEW u \in Users, UNCHANGED <<apps, app_states, holding>>,
         \/ /\ use[u] \in {"queued", "deploying"} /\ unuse' = unuse
            /\ \E pc \in {"deploying", "undoing"} : use' = [use EXCEPT ![u] = pc]
         \/ unuse[u] = "queued" /\ use' = use /\ unuse' = [unuse EXCEPT ![u] = "tearing"]
  PROVE  UsersKept'
<1>0. /\ use \in [Users -> UseStates] /\ unuse \in [Users -> UnuseStates] /\ apps \subseteq Apps
      /\ Apps \subseteq Users /\ Trusted \subseteq Users /\ holding \subseteq Users
  BY UsersFacts, TrustFacts DEF TypeOK
<1>1. CASE /\ use[u] \in {"queued", "deploying"} /\ unuse' = unuse
           /\ \E pc \in {"deploying", "undoing"} : use' = [use EXCEPT ![u] = pc]
  <2>1. use'[u] \in {"deploying", "undoing"} /\ \A v \in Users : v # u => use'[v] = use[v]
    BY <1>0, <1>1
  <2>2. \A v \in Users : /\ use[v] = "held" => use'[v] = "held"
                         /\ use'[v] = "idle" <=> use[v] = "idle"
    BY <1>0, <1>1, <2>1
  <2> QED  BY <1>0, <1>1, <2>2 DEF UsersKept
<1>2. CASE unuse[u] = "queued" /\ use' = use /\ unuse' = [unuse EXCEPT ![u] = "tearing"]
  <2>1. unuse'[u] = "tearing" /\ \A v \in Users : v # u => unuse'[v] = unuse[v]
    BY <1>0, <1>2
  <2>2. \A v \in Users : /\ unuse'[v] = "idle" <=> unuse[v] = "idle"
                         /\ unuse'[v] \in {"released", "failed"} => unuse[v] \in {"released", "failed"}
    BY <1>0, <1>2, <2>1
  <2> QED  BY <1>0, <1>2, <2>2 DEF UsersKept
<1> QED  BY <1>1, <1>2

(* The steps of the abstract leases, in terms of the gateway.               *)
LEMMA Acquires ==
  ASSUME NEW u \in Users, use[u] # "held", use'[u] = "held", UNCHANGED unuse,
         \A v \in Users : v # u => use'[v] = use[v],
         u \in Trusted => unuse[u] = "idle",
         \A t \in Tasks : task_states'[t] = IF t \in In(Uses[u]) THEN "ready" ELSE task_states[t]
  PROVE  [Lease!Next]_<<Holders, Up>>
<1>1. CASE u \in Trusted
  <2>1. u \notin Holders /\ Holders' = Holders \cup {u}
    BY <1>1, TrustFacts DEF Holders
  <2>2. Up' = Up \cup In(Uses[u])
    BY <1>1, TrustFacts DEF Up
  <2>3. Lease!Acquire(u)
    BY <2>1, <2>2 DEF Lease!Acquire, Lease!Wanted, In
  <2> QED  BY <1>1, <2>3 DEF Lease!Next
<1>2. CASE u \notin Trusted
  <2>1. Holders' = Holders
    BY <1>2, TrustFacts DEF Holders
  <2>2. Up' = Up
    BY <1>2, TrustFacts DEF Up
  <2> QED  BY <2>1, <2>2
<1> QED  BY <1>1, <1>2

LEMMA AllDeployedLease ==
  ASSUME LeaseInv, AllDeployed
  PROVE  LeaseInv' /\ [Lease!Next]_<<Holders, Up>>
<1>1. /\ lock \in Users /\ lock # Nobody /\ use[lock] = "deploying" /\ pending = {}
      /\ GatewayInv /\ GatewayInv' /\ TypeOK
      /\ UNCHANGED <<unuse, usage, names, snapshot, running, flight, unsure>>
  BY AllDeployedInv, UsersFacts DEF AllDeployed, LeaseInv, GatewayInv, TypeOK
<1>0. Doubted'
  BY <1>1 DEF LeaseInv, Doubted
<1>2. ~Tearing(lock) /\ Declaring(lock) /\ (lock \in Trusted => unuse[lock] = "idle")
  BY <1>1, UsersFacts DEF LeaseInv, UsersKept, GatewayInv, Locked, Declaring
<1>3. \A t \in Tasks : FromSnapshot(t)
  BY <1>1, <1>2 DEF LeaseInv, Snapped
<1>4. ASSUME NEW t \in Sound \ unsure
      PROVE  AtRest(t) \/ Starting(t)
  BY <1>1, <1>2 DEF LeaseInv, Known, Undone, Ending
<1>5. task_states \in [Tasks -> States] /\ usage \in [Tasks -> Nat] /\ snapshot.usage \in [Tasks -> Nat]
  BY <1>1, TableFacts DEF TablesOK
<1>6. CASE errors = {}
  <2>1. /\ task_states' = Set(task_states, In(Uses[lock]), "ready")
        /\ lock' = Nobody /\ batch' = {} /\ AfterUse(lock, TRUE) /\ UNCHANGED <<pending, errors>>
    BY <1>6 DEF AllDeployed
  <2>2. \A t \in Tasks : task_states'[t] = IF t \in In(Uses[lock]) THEN "ready" ELSE task_states[t]
    BY <1>5, <2>1 DEF Set
  <2>3. use'[lock] = "held" /\ \A v \in Users : v # lock => use'[v] = use[v]
    BY <1>1, <2>1 DEF AfterUse, GotoUse, TypeOK
  <2>4. UsersKept'
    BY <1>1, <2>1, AfterUseKept DEF LeaseInv
  <2>5. TablesKept'
    <3> SUFFICES ASSUME NEW t \in Tasks
                 PROVE  /\ task_states'[t] = "absent" => usage[t] = 0
                        /\ task_states'[t] = "ready" => usage[t] # 0
      BY <1>1, <2>1 DEF TablesKept, Kept, Tables
    <3>1. /\ task_states[t] = "absent" => usage[t] = 0
          /\ task_states[t] = "ready" => usage[t] # 0
      BY DEF LeaseInv, TablesKept, Kept, Tables
    <3>2. t \in In(Uses[lock]) => usage[t] # 0
      <4>1. /\ Times(Uses[lock], t) \in Nat /\ (Times(Uses[lock], t) = 0 <=> t \notin In(Uses[lock]))
        BY <1>1, TimesFacts, UsersFacts
      <4>2. usage[t] = snapshot.usage[t] + Times(Uses[lock], t)
        BY <1>3 DEF FromSnapshot
      <4> QED  BY <1>5, <4>1, <4>2
    <3> QED  BY <2>2, <3>1, <3>2
  <2>6. Snapped' /\ Emptied'
    BY <2>1 DEF Snapped, Emptied
  <2>7. Counts'
    <3>1. \A u \in Trusted : Counted(u)' <=> Counted(u)
      BY <1>1, <2>3, TrustFacts DEF Counted
    <3> QED  BY <1>1, <3>1, DeclaredSame DEF LeaseInv, Counts
  <2>8. Known'
    <3> SUFFICES ASSUME NEW t \in Sound \ unsure
                 PROVE  AtRest(t)'
      BY <1>1 DEF Known
    <3>1. t \in Tasks /\ FromSnapshot(t)
      BY <1>3, TrustFacts
    <3>2. CASE AtRest(t)
      BY <1>1, <2>1, <2>2, <3>1, <3>2 DEF AtRest, FromSnapshot
    <3>3. CASE Starting(t)
      <4>1. t \in In(Uses[lock]) /\ running[t] = {names[t]}
        BY <1>1, <1>6, <3>1, <3>3 DEF Starting, FromSnapshot
      <4> QED  BY <1>1, <2>1, <2>2, <3>1, <4>1 DEF AtRest
    <3> QED  BY <1>4, <3>2, <3>3
  <2>9. [Lease!Next]_<<Holders, Up>>
    BY <1>1, <1>2, <2>2, <2>3, Acquires
  <2> QED  BY <1>1, <2>4, <2>5, <2>6, <2>7, <2>8, <2>9, <1>0 DEF LeaseInv
<1>7. CASE errors # {}
  <2>1. /\ pending' = batch /\ errors' = {} /\ use' = [use EXCEPT ![lock] = "undoing"]
        /\ UNCHANGED <<task_states, lock, batch, apps, app_states, holding>>
    BY <1>7 DEF AllDeployed, ToUndo, GotoUse, appVars
  <2>2. use'[lock] = "undoing" /\ \A v \in Users : v # lock => use'[v] = use[v]
    BY <1>1, <2>1 DEF TypeOK
  <2>3. UsersKept'
    BY <1>1, <2>1, InsideKept DEF LeaseInv
  <2>4. TablesKept'
    BY <1>1, <1>2, <2>1 DEF LeaseInv, TablesKept, Tables, Kept
  <2>5. Snapped' /\ Emptied'
    BY <1>1, <1>2, <1>3, <2>1 DEF Snapped, FromSnapshot, Emptied, Tearing
  <2>6. Counts'
    <3>1. \A u \in Trusted : Counted(u)' <=> Counted(u)
      BY <1>1, <2>2, TrustFacts DEF Counted
    <3> QED  BY <1>1, <3>1, DeclaredSame DEF LeaseInv, Counts
  <2>7. Known'
    <3> SUFFICES ASSUME NEW t \in Sound \ unsure
                 PROVE  AtRest(t)' \/ Undone(t)'
      BY <1>1 DEF Known
    <3>1. CASE AtRest(t)
      BY <1>1, <2>1, <3>1 DEF AtRest
    <3>2. CASE Starting(t)
      BY <1>1, <2>1, <2>2, <3>2 DEF Starting, Undone
    <3> QED  BY <1>4, <3>1, <3>2
  <2>8. UNCHANGED <<Holders, Up>>
    BY <1>1, <2>1, <2>2, TrustFacts DEF Holders, Up
  <2> QED  BY <1>1, <2>3, <2>4, <2>5, <2>6, <2>7, <2>8, <1>0 DEF LeaseInv
<1> QED  BY <1>6, <1>7

LEMMA RolledBackLease ==
  ASSUME LeaseInv, RolledBack
  PROVE  LeaseInv' /\ UNCHANGED <<Holders, Up>>
<1>1. /\ lock \in Users /\ lock # Nobody /\ use[lock] = "undoing" /\ pending = {}
      /\ GatewayInv /\ GatewayInv' /\ TypeOK
      /\ task_states' = snapshot.states /\ usage' = snapshot.usage /\ names' = snapshot.names
      /\ lock' = Nobody /\ batch' = {} /\ errors' = {} /\ AfterUse(lock, FALSE)
      /\ UNCHANGED <<unuse, snapshot, pending, running, flight, unsure>>
  BY RolledBackInv, UsersFacts DEF RolledBack, Restore, LeaseInv, GatewayInv, TypeOK
<1>0. Doubted'
  BY <1>1 DEF LeaseInv, Doubted
<1>2. ~Tearing(lock) /\ Declaring(lock) /\ (lock \in Trusted => unuse[lock] = "idle")
  BY <1>1, UsersFacts DEF LeaseInv, UsersKept, GatewayInv, Locked, Declaring
<1>3. \A t \in Tasks : FromSnapshot(t)
  BY <1>1, <1>2 DEF LeaseInv, Snapped
<1>4. ASSUME NEW t \in Sound \ unsure
      PROVE  AtRest(t) \/ Undone(t)
  BY <1>1, <1>2 DEF LeaseInv, Known, Starting, Ending
<1>5. usage \in [Tasks -> Nat] /\ snapshot.usage \in [Tasks -> Nat]
  BY <1>1, TableFacts DEF TablesOK
<1>6. use'[lock] = "failed" /\ \A v \in Users : v # lock => use'[v] = use[v]
  BY <1>1 DEF AfterUse, GotoUse, TypeOK
<1>7. UsersKept'
  BY <1>1, AfterUseKept DEF LeaseInv
<1>8. TablesKept'
  BY <1>1, <1>2 DEF LeaseInv, TablesKept, Kept, Tables
<1>9. Snapped' /\ Emptied'
  BY <1>1 DEF Snapped, Emptied
<1>10. Counts'
  <2> SUFFICES ASSUME NEW t \in Sound
               PROVE  IsFiniteSet(Declared(t)') /\ snapshot.usage[t] = Cardinality(Declared(t)')
    BY <1>1 DEF Counts
  <2>1. /\ t \in Tasks /\ usage[t] = snapshot.usage[t] + Times(Uses[lock], t)
        /\ IsFiniteSet(Declared(t)) /\ usage[t] = Cardinality(Declared(t))
        /\ snapshot.usage[t] \in Nat /\ usage[t] \in Nat
    BY <1>3, <1>5, TrustFacts DEF LeaseInv, Counts, FromSnapshot
  <2>2. Times(Uses[lock], t) \in Nat /\ (Times(Uses[lock], t) = 0 <=> t \notin In(Uses[lock]))
    BY <1>1, TimesFacts, UsersFacts
  <2>3. CASE lock \in Trusted
    <3>1. PICK u \in Users : u = lock
      BY <1>1
    <3>2. /\ Counted(u) /\ ~Counted(u)'
          /\ \A v \in Users : v # u => (Counted(v)' <=> Counted(v))
      BY <1>1, <1>2, <1>6, <2>3, <3>1 DEF Counted
    <3>3. /\ IsFiniteSet(Declared(t)') /\ Cardinality(Declared(t)') \in Nat
          /\ Cardinality(Declared(t)) = Cardinality(Declared(t)') + Times(Uses[u], t)
      BY <2>1, <3>2, CountLeaves
    <3> QED  BY <2>1, <2>2, <3>1, <3>3
  <2>4. CASE lock \notin Trusted
    <3>1. \A u \in Trusted : Counted(u)' <=> Counted(u)
      BY <1>1, <1>6, <2>4, TrustFacts DEF Counted
    <3>2. Declared(t)' = Declared(t)
      BY <3>1, DeclaredSame
    <3>3. Times(Uses[lock], t) = 0
      BY <1>1, <2>2, <2>4, TrustFacts
    <3> QED  BY <2>1, <3>2, <3>3
  <2> QED  BY <2>3, <2>4
<1>11. Known'
  <2> SUFFICES ASSUME NEW t \in Sound \ unsure
               PROVE  AtRest(t)'
    BY <1>1 DEF Known
  <2>1. t \in Tasks /\ FromSnapshot(t)
    BY <1>3, TrustFacts
  <2>2. CASE AtRest(t)
    BY <1>1, <2>1, <2>2 DEF AtRest, FromSnapshot
  <2>3. CASE Undone(t)
    BY <1>1, <2>3 DEF AtRest, Undone
  <2> QED  BY <1>4, <2>2, <2>3
<1>12. UNCHANGED <<Holders, Up>>
  <2>1. Holders' = Holders
    BY <1>1, <1>6, TrustFacts DEF Holders
  <2>2. \A t \in Tasks : task_states'[t] = "ready" <=> task_states[t] = "ready"
    BY <1>1, <1>3 DEF FromSnapshot
  <2> QED  BY <2>1, <2>2, TrustFacts DEF Up
<1> QED  BY <1>1, <1>7, <1>8, <1>9, <1>10, <1>11, <1>12, <1>0 DEF LeaseInv

LEMMA AllTornDownLease ==
  ASSUME LeaseInv, AllTornDown
  PROVE  LeaseInv' /\ UNCHANGED <<Holders, Up>>
<1> DEFINE down == batch \ errors
<1>1. /\ lock \in Users /\ lock # Nobody /\ unuse[lock] = "tearing" /\ pending = {}
      /\ GatewayInv /\ GatewayInv' /\ TypeOK
      /\ task_states' = Set(task_states, down, "absent")
      /\ usage' = Set(usage, down, 0) /\ names' = Set(names, down, Nobody)
      /\ lock' = Nobody /\ batch' = {} /\ errors' = {} /\ AfterUnuse(lock, errors = {})
      /\ UNCHANGED <<use, snapshot, pending, running, flight, unsure>>
  BY AllTornDownInv, UsersFacts DEF AllTornDown, LeaseInv, GatewayInv, TypeOK
<1>0. Doubted'
  BY <1>1 DEF LeaseInv, Doubted
<1>2. Tearing(lock) /\ ~Declaring(lock)
  BY <1>1 DEF GatewayInv, Locked, Tearing
<1>3. \A t \in batch : t \in In(Uses[lock]) /\ usage[t] = 0 /\ task_states[t] = "tearing down"
  BY <1>1, <1>2 DEF LeaseInv, Emptied, GatewayInv, Marked
<1>4. ASSUME NEW t \in Sound \ unsure
      PROVE  AtRest(t) \/ Ending(t)
  BY <1>1, <1>2 DEF LeaseInv, Known, Starting, Undone, Declaring
<1>5. /\ batch \subseteq Tasks /\ errors \subseteq batch
      /\ \A t \in Tasks : /\ task_states'[t] = IF t \in down THEN "absent" ELSE task_states[t]
                          /\ usage'[t] = IF t \in down THEN 0 ELSE usage[t]
                          /\ names'[t] = IF t \in down THEN Nobody ELSE names[t]
  BY <1>1, TableFacts DEF Set
<1>6. unuse'[lock] \in {"released", "failed"} /\ \A v \in Users : v # lock => unuse'[v] = unuse[v]
  BY <1>1 DEF AfterUnuse, GotoUnuse, TypeOK
<1>7. UsersKept'
  <2>1. ASSUME lock \in Trusted \cap Sessions
        PROVE  errors = {}
    <3> SUFFICES ASSUME NEW t \in errors PROVE FALSE
      OBVIOUS
    <3>1. t \in batch /\ t \in In(Uses[lock])
      BY <1>3, <1>5
    <3>2. t \in Sound \ unsure
      BY <2>1, <3>1, TrustFacts DEF Careful, LeaseInv, Doubted
    <3> QED  BY <1>4, <3>1, <3>2 DEF AtRest, Ending
  <2> QED  BY <1>1, <2>1, AfterUnuseKept DEF LeaseInv
<1>8. TablesKept'
  BY <1>1, <1>5 DEF LeaseInv, TablesKept, Kept, Tables
<1>9. Snapped' /\ Emptied'
  BY <1>1 DEF Snapped, Emptied
<1>10. Counts'
  <2>1. \A u \in Trusted : Counted(u)' <=> Counted(u)
    BY <1>1, <1>6, TrustFacts DEF Counted
  <2>2. \A t \in Tasks : usage'[t] = usage[t]
    BY <1>3, <1>5
  <2> QED  BY <2>1, <2>2, DeclaredSame, TrustFacts DEF LeaseInv, Counts
<1>11. Known'
  <2> SUFFICES ASSUME NEW t \in Sound \ unsure
               PROVE  AtRest(t)'
    BY <1>1 DEF Known
  <2>1. t \in Tasks
    BY TrustFacts
  <2>2. CASE AtRest(t)
    BY <1>1, <1>5, <2>1, <2>2 DEF AtRest
  <2>3. CASE Ending(t)
    BY <1>1, <1>5, <2>1, <2>3 DEF AtRest, Ending
  <2> QED  BY <1>4, <2>2, <2>3
<1>12. UNCHANGED <<Holders, Up>>
  <2>1. Holders' = Holders
    BY <1>1, <1>6, TrustFacts DEF Holders
  <2>2. \A t \in Tasks : task_states'[t] = "ready" <=> task_states[t] = "ready"
    BY <1>3, <1>5
  <2> QED  BY <2>1, <2>2, TrustFacts DEF Up
<1> QED  BY <1>1, <1>7, <1>8, <1>9, <1>10, <1>11, <1>12, <1>0 DEF LeaseInv

LEMMA DeclareUsedLease ==
  ASSUME LeaseInv, NEW u \in Users, DeclareUsed(u)
  PROVE  LeaseInv' /\ [Lease!Next]_<<Holders, Up>>
<1> DEFINE want == In(Uses[u])
           new  == { t \in want : task_states[t] = "absent" }
<1>1. /\ use[u] = "queued" /\ lock = Nobody /\ GatewayInv /\ GatewayInv' /\ TypeOK
      /\ snapshot' = Tables /\ usage' = [t \in Tasks |-> usage[t] + Times(Uses[u], t)]
      /\ UNCHANGED <<unuse, running>>
  BY DeclareUsedInv DEF DeclareUsed, LeaseInv, GatewayInv
<1>0. unsure \subseteq unsure' /\ Doubted'
  <2>1. CASE UNCHANGED <<flight, unsure>>
    BY <2>1 DEF LeaseInv, Doubted
  <2>2. CASE ~UNCHANGED <<flight, unsure>>
    <3>1. PICK k \in 0 .. Len(Uses[u]) :
            LET made == new \cap FirstOf(Uses[u], k)
            IN  /\ made # new /\ flight' = flight \cup made \X {u} /\ unsure' = unsure \cup made
      BY <2>2 DEF DeclareUsed
    <3> DEFINE made == new \cap FirstOf(Uses[u], k)
    <3>2. made \subseteq Loose
      <4> SUFFICES ASSUME NEW t \in made
                   PROVE  \E j, m \in DOMAIN Uses[u] : j < m /\ Uses[u][j] = t /\ Uses[u][m] # t
        BY <1>1, UsersFacts DEF Loose
      <4>1. Uses[u] \in Seq(Tasks)
        BY UsersFacts
      <4>2. PICK j \in 1 .. k : Uses[u][j] = t /\ j \in DOMAIN Uses[u]
        BY <3>1, <4>1 DEF FirstOf, In
      <4>3. PICK x \in new : x \notin FirstOf(Uses[u], k)
        BY <3>1
      <4>4. PICK m \in DOMAIN Uses[u] : Uses[u][m] = x
        BY <4>3 DEF In
      <4>5. m \notin 1 .. k
        BY <3>1, <4>1, <4>3, <4>4 DEF FirstOf, In
      <4>6. j < m /\ x # t
        BY <3>1, <4>1, <4>2, <4>3, <4>4, <4>5
      <4> QED  BY <4>2, <4>4, <4>6
    <3> HIDE DEF made
    <3>3. flight' = flight \cup made \X {u} /\ unsure' = unsure \cup made
      BY <3>1 DEF made
    <3> QED  BY <3>2, <3>3 DEF LeaseInv, Doubted
  <2> QED  BY <2>1, <2>2
<1>2. \A v \in Users : ~Declaring(v) /\ ~Tearing(v)
  BY <1>1, UsersFacts DEF GatewayInv, Locked
<1>3. /\ want \subseteq Tasks /\ new \subseteq Tasks /\ u # Nobody
      /\ u \in Trusted => unuse[u] = "idle"
  BY <1>1, UsersFacts DEF LeaseInv, UsersKept
<1>4. ASSUME NEW t \in Tasks
      PROVE  /\ usage[t] \in Nat /\ Times(Uses[u], t) \in Nat
             /\ usage'[t] = usage[t] + Times(Uses[u], t)
             /\ Times(Uses[u], t) = 0 <=> t \notin want
             /\ task_states[t] = "absent" => usage[t] = 0
             /\ task_states[t] = "ready" => usage[t] # 0
  <2>1. Times(Uses[u], t) \in Nat /\ (Times(Uses[u], t) = 0 <=> t \notin want)
    BY TimesFacts, UsersFacts
  <2>2. /\ task_states[t] = "absent" => usage[t] = 0
        /\ task_states[t] = "ready" => usage[t] # 0
    BY DEF LeaseInv, TablesKept, Kept, Tables
  <2> QED  BY <1>1, <2>1, <2>2, TableFacts
<1>5. ASSUME NEW t \in Sound \ unsure
      PROVE  AtRest(t)
  BY <1>1 DEF LeaseInv, Known, Starting, Undone, Ending
(* Whichever way it goes on, its uses are counted from here. *)
<1>6. ASSUME use'[u] \in {"deploying", "undoing", "held"}, \A v \in Users : v # u => use'[v] = use[v]
      PROVE  Counts'
  <2> SUFFICES ASSUME NEW t \in Sound
               PROVE  IsFiniteSet(Declared(t)') /\ usage'[t] = Cardinality(Declared(t)')
    BY DEF Counts
  <2>1. /\ t \in Tasks /\ IsFiniteSet(Declared(t)) /\ usage[t] = Cardinality(Declared(t))
    BY TrustFacts DEF LeaseInv, Counts
  <2>2. CASE u \in Trusted
    <3>1. /\ ~Counted(u) /\ Counted(u)'
          /\ \A v \in Users : v # u => (Counted(v)' <=> Counted(v))
      BY <1>1, <1>3, <1>6, <2>2 DEF Counted
    <3> QED  BY <1>4, <2>1, <3>1, CountJoins
  <2>3. CASE u \notin Trusted
    <3>1. \A v \in Trusted : Counted(v)' <=> Counted(v)
      BY <1>1, <1>6, <2>3, TrustFacts DEF Counted
    <3>2. Declared(t)' = Declared(t)
      BY <3>1, DeclaredSame
    <3>3. Times(Uses[u], t) = 0
      BY <1>4, <2>1, <2>3, TrustFacts
    <3> QED  BY <1>4, <2>1, <3>2, <3>3
  <2> QED  BY <2>2, <2>3
<1>7. CASE new # {}
  <2>1. /\ lock' = u /\ task_states' = Set(task_states, new, "deploying")
        /\ pending' = batch' /\ errors' = {} /\ UNCHANGED <<apps, app_states, holding>>
        /\ \E made \in SUBSET new :
             /\ names' = Set(names, made, u) /\ batch' = made
             /\ \/ made = new /\ use' = [use EXCEPT ![u] = "deploying"]
                \/ use' = [use EXCEPT ![u] = "undoing"] /\ unsure' = unsure \cup made
    BY <1>7 DEF DeclareUsed, GotoUse, appVars
  <2>2. PICK made \in SUBSET new :
             /\ names' = Set(names, made, u) /\ batch' = made
             /\ \/ made = new /\ use' = [use EXCEPT ![u] = "deploying"]
                \/ use' = [use EXCEPT ![u] = "undoing"] /\ unsure' = unsure \cup made
    BY <2>1
  <2>3. \A t \in Tasks : /\ task_states'[t] = IF t \in new THEN "deploying" ELSE task_states[t]
                         /\ names'[t] = IF t \in made THEN u ELSE names[t]
    BY <1>1, <2>1, <2>2, TableFacts DEF Set
  <2>4. /\ use'[u] \in {"deploying", "undoing"} /\ (use'[u] = "deploying" => made = new)
        /\ use'[u] = "undoing" => made \subseteq unsure'
        /\ \A v \in Users : v # u => use'[v] = use[v]
    BY <1>1, <2>2 DEF TypeOK
  <2>5. UsersKept'
    BY <1>1, <2>1, <2>2, InsideKept DEF LeaseInv
  <2>6. TablesKept'
    <3>1. Kept(snapshot')
      BY <1>1 DEF LeaseInv, TablesKept
    <3> HIDE DEF new, want
    <3>2. \A t \in Tasks : t \notin new /\ task_states[t] = "absent" => t \notin want
      BY DEF new
    <3>3. ASSUME NEW t \in Tasks
          PROVE  /\ task_states'[t] = "absent" => usage'[t] = 0
                 /\ task_states'[t] = "ready" => usage'[t] # 0
      <4>1. /\ usage[t] \in Nat /\ Times(Uses[u], t) \in Nat
            /\ usage'[t] = usage[t] + Times(Uses[u], t)
            /\ Times(Uses[u], t) = 0 <=> t \notin want
            /\ task_states[t] = "absent" => usage[t] = 0
            /\ task_states[t] = "ready" => usage[t] # 0
        BY <1>4
      <4>2. CASE t \in new
        BY <2>3, <4>2
      <4>3. CASE t \notin new
        BY <2>3, <3>2, <4>1, <4>3
      <4> QED  BY <4>2, <4>3
    <3> QED  BY <3>1, <3>3 DEF TablesKept, Kept, Tables
  <2>7. Snapped'
    <3> SUFFICES ASSUME NEW t \in Tasks PROVE FromSnapshot(t)'
      BY DEF Snapped
    <3>1. /\ usage'[t] = snapshot'.usage[t] + Times(Uses[lock'], t)
          /\ t \notin batch' => names'[t] = snapshot'.names[t]
      BY <1>1, <1>4, <2>1, <2>2, <2>3 DEF Tables
    <3>2. snapshot'.states[t] = task_states[t]
      BY <1>1 DEF Tables
    <3>3. CASE t \in new
      BY <2>1, <2>3, <3>1, <3>2, <3>3 DEF FromSnapshot
    <3>4. CASE t \notin new
      BY <2>1, <2>2, <2>3, <3>1, <3>2, <3>4 DEF FromSnapshot
    <3> QED  BY <3>3, <3>4
  <2>8. Emptied'
    BY <1>1, <1>2, <2>1 DEF Emptied, Tearing
  <2>9. Counts'
    BY <1>6, <2>4
  <2>10. Known'
    <3> SUFFICES ASSUME NEW t \in Sound \ unsure'
                 PROVE  AtRest(t)' \/ Starting(t)' \/ Undone(t)'
      BY DEF Known
    <3>1. t \in Tasks /\ AtRest(t)
      BY <1>0, <1>5, TrustFacts
    <3>2. CASE t \notin new
      BY <1>1, <2>2, <2>3, <3>1, <3>2 DEF AtRest
    <3>3. CASE t \in new
      <4>1. /\ task_states[t] = "absent" /\ running'[t] = {} /\ names[t] = Nobody
            /\ task_states'[t] = "deploying"
            /\ snapshot'.states[t] = "absent" /\ snapshot'.names[t] = Nobody
            /\ t \in batch' => names'[t] = u
        BY <1>1, <2>2, <2>3, <3>1, <3>3 DEF AtRest, Tables
      <4>2. CASE use'[u] = "deploying"
        BY <1>3, <2>1, <2>2, <2>4, <3>3, <4>1, <4>2 DEF Starting
      <4>3. CASE use'[u] = "undoing"
        BY <1>3, <2>1, <2>2, <2>4, <4>1, <4>3 DEF Undone
      <4> QED  BY <2>4, <4>2, <4>3
    <3> QED  BY <3>2, <3>3
  <2>11. UNCHANGED <<Holders, Up>>
    <3>1. Holders' = Holders
      BY <1>1, <2>4, TrustFacts DEF Holders
    <3>2. \A t \in Tasks : task_states'[t] = "ready" <=> task_states[t] = "ready"
      BY <2>3
    <3> QED  BY <3>1, <3>2, TrustFacts DEF Up
  <2> QED  BY <1>1, <2>5, <2>6, <2>7, <2>8, <2>9, <2>10, <2>11, <1>0 DEF LeaseInv
<1>8. CASE new = {}
  <2>1. /\ task_states' = Set(task_states, want, "ready") /\ AfterUse(u, TRUE)
        /\ UNCHANGED <<lock, names, batch, pending, errors>>
    BY <1>8 DEF DeclareUsed, calls
  <2>2. \A t \in Tasks : task_states'[t] = IF t \in want THEN "ready" ELSE task_states[t]
    BY <1>1, <2>1, TableFacts DEF Set
  <2>3. use'[u] = "held" /\ \A v \in Users : v # u => use'[v] = use[v]
    BY <1>1, <2>1 DEF AfterUse, GotoUse, TypeOK
  <2>4. UsersKept'
    BY <1>1, <2>1, AfterUseKept DEF LeaseInv
  <2>5. TablesKept'
    <3>1. ASSUME NEW t \in Tasks
          PROVE  /\ task_states'[t] = "absent" => usage'[t] = 0
                 /\ task_states'[t] = "ready" => usage'[t] # 0
      <4>1. /\ usage[t] \in Nat /\ Times(Uses[u], t) \in Nat
            /\ usage'[t] = usage[t] + Times(Uses[u], t)
            /\ Times(Uses[u], t) = 0 <=> t \notin want
            /\ task_states[t] = "absent" => usage[t] = 0
            /\ task_states[t] = "ready" => usage[t] # 0
        BY <1>4
      <4> HIDE DEF want
      <4>2. CASE t \in want
        BY <2>2, <4>1, <4>2
      <4>3. CASE t \notin want
        BY <2>2, <4>1, <4>3
      <4> QED  BY <4>2, <4>3
    <3> QED  BY <1>1, <2>1, <3>1 DEF TablesKept, Kept, Tables
  <2>6. Snapped' /\ Emptied'
    BY <1>1, <2>1 DEF Snapped, Emptied
  <2>7. Counts'
    BY <1>6, <2>3
  <2>8. Known'
    <3> SUFFICES ASSUME NEW t \in Sound \ unsure
                 PROVE  AtRest(t)'
      BY <1>0 DEF Known
    <3>1. t \in Tasks /\ AtRest(t) /\ (t \in want => task_states[t] # "absent")
      BY <1>5, <1>8, TrustFacts
    <3> QED  BY <1>1, <2>1, <2>2, <3>1 DEF AtRest
  <2>9. [Lease!Next]_<<Holders, Up>>
    BY <1>1, <1>3, <2>2, <2>3, Acquires
  <2> QED  BY <1>1, <2>4, <2>5, <2>6, <2>7, <2>8, <2>9, <1>0 DEF LeaseInv
<1> QED  BY <1>7, <1>8

LEMMA DeclareNotUsedLease ==
  ASSUME LeaseInv, NEW u \in Users, DeclareNotUsed(u)
  PROVE  LeaseInv' /\ [Lease!Next]_<<Holders, Up>>
<1>1. /\ unuse[u] = "queued" /\ lock = Nobody /\ GatewayInv /\ GatewayInv' /\ TypeOK
      /\ UNCHANGED <<use, names, snapshot, running, flight, unsure>>
      /\ Uses[u] \in Seq(Tasks) /\ u # Nobody
  BY DeclareNotUsedInv, UsersFacts DEF DeclareNotUsed, LeaseInv, GatewayInv
<1>0. Doubted'
  BY <1>1 DEF LeaseInv, Doubted
<1>2. \A v \in Users : ~Declaring(v) /\ ~Tearing(v)
  BY <1>1, UsersFacts DEF GatewayInv, Locked
<1>3. ASSUME NEW t \in Sound \ unsure
      PROVE  AtRest(t)
  BY <1>1 DEF LeaseInv, Known, Starting, Undone, Ending
<1>4. ASSUME NEW t \in Tasks
      PROVE  /\ usage[t] \in Nat
             /\ task_states[t] = "absent" => usage[t] = 0
             /\ task_states[t] = "ready" => usage[t] # 0
  BY <1>1, TableFacts DEF LeaseInv, TablesKept, Kept, Tables
<1>5. ASSUME NEW t \in Sound
      PROVE  /\ IsFiniteSet(Declared(t)) /\ usage[t] = Cardinality(Declared(t))
             /\ Counted(u) => Times(Uses[u], t) <= usage[t]
  <2>1. IsFiniteSet(Declared(t)) /\ usage[t] = Cardinality(Declared(t))
    BY DEF LeaseInv, Counts
  <2>2. \A v \in { w \in Users : Counted(w) } : Times(Uses[v], t) <= Cardinality(Declared(t))
    BY <2>1, CountedUses DEF Declared
  <2> QED  BY <2>1, <2>2
(* A trusted user is served to the end of its list. *)
<1>6. PICK list \in Seq(Tasks) : /\ Unused(u, list) /\ In(list) \subseteq In(Uses[u])
                                 /\ u \in Trusted => list = Uses[u]
  <2>1. PICK list \in Served(Uses[u]) : Unused(u, list)
    BY DEF DeclareNotUsed
  <2>2. PICK k \in 0 .. Len(Uses[u]) : list = SubSeq(Uses[u], 1, k)
    BY <2>1 DEF Served
  <2>3. list \in Seq(Tasks) /\ In(list) \subseteq In(Uses[u])
    BY <1>1, <2>2, PrefixTimes
  <2>4. ASSUME u \in Trusted
        PROVE  list = Uses[u]
    <3>1. Counted(u)
      BY <1>1, <2>4 DEF LeaseInv, UsersKept, Counted
    <3>2. Fits(Uses[u])
      BY <1>5, <2>4, <3>1, TrustFacts DEF Fits
    <3> QED  BY <1>1, <2>1, <3>2, ServedWhole
  <2> QED  BY <2>1, <2>3, <2>4
<1> DEFINE last == LastUsed(list)
<1>7. /\ usage' = LeftAfter(list) /\ task_states' = Set(task_states, last, "tearing down")
      /\ last \subseteq In(list) /\ last \subseteq Tasks
  BY <1>6, InTasks DEF Unused, LastUsed
<1>8. ASSUME NEW t \in Tasks
      PROVE  /\ task_states'[t] = IF t \in last THEN "tearing down" ELSE task_states[t]
             /\ Times(list, t) \in Nat /\ (Times(list, t) = 0 <=> t \notin In(list))
             /\ usage'[t] = IF Present(t) THEN usage[t] - Times(list, t) ELSE usage[t]
             /\ usage'[t] \in Nat /\ (t \notin In(list) => usage'[t] = usage[t])
             /\ t \in last <=> t \in In(list) /\ Present(t) /\ usage'[t] = 0
  <2>1. task_states'[t] = IF t \in last THEN "tearing down" ELSE task_states[t]
    BY <1>1, <1>7, TableFacts DEF Set
  <2>2. Times(list, t) \in Nat /\ (Times(list, t) = 0 <=> t \notin In(list))
    BY <1>6, TimesFacts
  <2>3. usage'[t] = IF Present(t) THEN usage[t] - Times(list, t) ELSE usage[t]
    BY <1>7 DEF LeftAfter
  <2>4. usage'[t] \in Nat
    BY <1>1, TableFacts DEF GatewayInv, TypeOK, TablesOK, Tables
  <2>5. t \in last <=> t \in In(list) /\ Present(t) /\ usage'[t] = 0
    BY <1>4, <2>2, <2>3 DEF LastUsed
  <2>6. ASSUME t \notin In(list)
        PROVE  usage'[t] = usage[t]
    <3>1. usage[t] \in Nat /\ Times(list, t) = 0
      BY <1>4, <2>2, <2>6
    <3> QED  BY <2>3, <3>1
  <2> QED  BY <2>1, <2>2, <2>3, <2>4, <2>5, <2>6
<1> HIDE DEF last
<1>9. \A t \in Sound : u \notin Trusted => t \notin In(list) /\ t \notin last
  BY <1>6, <1>7, TrustFacts
<1>10. ASSUME NEW t \in Tasks
       PROVE  /\ task_states'[t] = "absent" => usage'[t] = 0
              /\ task_states'[t] = "ready" => usage'[t] # 0
  <2>1. CASE t \in last
    BY <1>8, <2>1
  <2>2. CASE t \notin last
    <3>1. task_states'[t] = task_states[t]
      BY <1>8, <2>2
    <3>2. CASE t \in In(list)
      <4>1. Present(t) => usage'[t] # 0
        BY <1>8, <2>2, <3>2
      <4>2. ~Present(t) => usage'[t] = usage[t]
        BY <1>8
      <4> QED  BY <1>4, <3>1, <4>1, <4>2 DEF Present
    <3>3. CASE t \notin In(list)
      <4>1. usage'[t] = usage[t]
        BY <1>8, <3>3
      <4> QED  BY <1>4, <3>1, <4>1
    <3> QED  BY <3>2, <3>3
  <2> QED  BY <2>1, <2>2
<1>11. /\ \/ /\ list = Uses[u] /\ last # {} /\ lock' = u
             /\ batch' = last /\ pending' = last /\ errors' = {}
             /\ unuse' = [unuse EXCEPT ![u] = "tearing"] /\ UNCHANGED <<apps, app_states, holding>>
          \/ /\ ~(list = Uses[u] /\ last # {})
             /\ AfterUnuse(u, list = Uses[u]) /\ UNCHANGED <<lock, batch, pending, errors>>
       /\ unuse'[u] \in {"tearing", "released", "failed"}
       /\ \A v \in Users : v # u => unuse'[v] = unuse[v]
  <2>1. CASE list = Uses[u] /\ last # {}
    BY <1>1, <1>6, <2>1 DEF Unused, GotoUnuse, appVars, last, TypeOK
  <2>2. CASE ~(list = Uses[u] /\ last # {})
    BY <1>1, <1>6, <2>2, ZenonT(40) DEF Unused, AfterUnuse, GotoUnuse, calls, last, TypeOK
  <2> QED  BY <2>1, <2>2
<1>12. UsersKept'
  <2>1. CASE lock' = u
    BY <1>1, <1>11, <2>1, InsideKept DEF LeaseInv
  <2>2. CASE lock' # u
    BY <1>1, <1>6, <1>11, <2>2, AfterUnuseKept DEF LeaseInv
  <2> QED  BY <2>1, <2>2
<1>13. lock' \in {u, Nobody} /\ use' = use /\ use[u] \notin {"deploying", "undoing"}
  BY <1>1, <1>2, <1>11 DEF Declaring
<1>14. TablesKept' /\ Snapped'
  BY <1>10, <1>13 DEF TablesKept, Snapped, Kept, Tables, Declaring
<1>15. Emptied'
  BY <1>1, <1>7, <1>8, <1>11 DEF Emptied
<1>16. Counts'
  <2> SUFFICES ASSUME NEW t \in Sound
               PROVE  IsFiniteSet(Declared(t)') /\ usage'[t] = Cardinality(Declared(t)')
    BY DEF Counts
  <2>1. t \in Tasks
    BY TrustFacts
  <2>2. CASE u \in Trusted
    <3>1. Counted(u)
      BY <1>1, <2>2 DEF LeaseInv, UsersKept, Counted
    <3>2. ~Counted(u)' /\ \A v \in Users : v # u => (Counted(v)' <=> Counted(v))
      BY <1>1, <1>11, <2>2 DEF Counted
    <3>3. /\ IsFiniteSet(Declared(t)') /\ Cardinality(Declared(t)') \in Nat
          /\ Cardinality(Declared(t)) = Cardinality(Declared(t)') + Times(Uses[u], t)
      BY <1>5, <3>1, <3>2, CountLeaves
    <3>4. usage'[t] = usage[t] - Times(Uses[u], t)
      <4>1. /\ Times(Uses[u], t) \in Nat /\ usage[t] \in Nat /\ Times(Uses[u], t) <= usage[t]
            /\ Times(list, t) = Times(Uses[u], t)
        BY <1>4, <1>5, <1>6, <1>8, <2>1, <2>2, <3>1
      <4>2. CASE Present(t)
        BY <1>8, <2>1, <4>1, <4>2
      <4>3. CASE ~Present(t)
        <5>1. usage[t] = 0 /\ usage'[t] = usage[t]
          BY <1>4, <1>8, <2>1, <4>3 DEF Present
        <5> QED  BY <4>1, <5>1
      <4> QED  BY <4>2, <4>3
    <3>5. Times(Uses[u], t) \in Nat /\ usage[t] = Cardinality(Declared(t))
      BY <1>5, <1>6, <1>8, <2>1, <2>2
    <3> QED  BY <3>3, <3>4, <3>5
  <2>3. CASE u \notin Trusted
    <3>1. \A v \in Trusted : Counted(v)' <=> Counted(v)
      BY <1>1, <1>11, <2>3, TrustFacts DEF Counted
    <3>2. Declared(t)' = Declared(t)
      BY <3>1, DeclaredSame
    <3>3. usage'[t] = usage[t]
      BY <1>8, <1>9, <2>1, <2>3
    <3> QED  BY <1>5, <3>2, <3>3
  <2> QED  BY <2>2, <2>3
<1>17. Known'
  <2> SUFFICES ASSUME NEW t \in Sound \ unsure
               PROVE  AtRest(t)' \/ Ending(t)'
    BY <1>1 DEF Known
  <2>1. t \in Tasks /\ AtRest(t)
    BY <1>3, TrustFacts
  <2>2. CASE t \notin last
    BY <1>1, <1>8, <1>11, <2>1, <2>2 DEF AtRest
  <2>3. CASE t \in last
    <3>1. u \in Trusted /\ list = Uses[u] /\ last # {}
      BY <1>6, <1>9, <2>3
    <3>2. running[t] = {names[t]} /\ task_states'[t] = "tearing down"
      BY <1>8, <2>1, <2>3 DEF AtRest, Present
    <3>3. lock' = u /\ batch' = last /\ pending' = last /\ errors' = {} /\ unuse'[u] = "tearing"
      BY <1>1, <1>11, <3>1, ZenonT(40) DEF TypeOK
    <3> QED  BY <1>1, <2>3, <3>2, <3>3 DEF Ending, Tearing
  <2> QED  BY <2>2, <2>3
(* The tasks that nobody holds any more are those that are torn down. *)
<1>18. [Lease!Next]_<<Holders, Up>>
  <2>1. CASE u \in Trusted
    <3>1. u \in Holders /\ Holders' = Holders \ {u}
      BY <1>1, <1>11, <2>1, TrustFacts DEF Holders, LeaseInv, UsersKept
    <3>2. \A v \in Users : Counted(v)' /\ v \in Trusted <=> v \in Holders'
      BY <1>1, <1>2, TrustFacts DEF Holders, Counted, Declaring
    <3>3. ASSUME NEW t \in Up
          PROVE  t \in Up' <=> \E v \in Holders' : t \in In(Uses[v])
      <4>1. t \in Tasks /\ t \in Sound /\ task_states[t] = "ready"
        BY TrustFacts DEF Up
      <4>2. t \in Up' <=> usage'[t] # 0
        <5>1. t \in Up' <=> t \notin last
          BY <1>8, <4>1 DEF Up
        <5>2. t \notin In(list) => usage'[t] # 0
          BY <1>4, <1>8, <4>1
        <5>3. t \in last <=> t \in In(list) /\ usage'[t] = 0
          BY <1>8, <4>1 DEF Present
        <5> QED  BY <5>1, <5>2, <5>3
      <4>3. IsFiniteSet(Declared(t)') /\ usage'[t] = Cardinality(Declared(t)')
        BY <1>16, <4>1 DEF Counts
      <4>4. Cardinality(Declared(t)') # 0 <=> \E v \in { w \in Users : Counted(w)' } : t \in In(Uses[v])
        BY <4>3, CountedUses DEF Declared
      <4>5. \A v \in Users : t \in In(Uses[v]) => v \in Trusted
        BY <4>1, TrustFacts
      <4>6. Holders' \subseteq Users
        BY TrustFacts DEF Holders
      <4> QED  BY <3>2, <4>2, <4>3, <4>4, <4>5, <4>6
    <3>4. Up' \subseteq Up
      BY <1>8, TrustFacts DEF Up
    <3>5. Up' = { t \in Up : \E v \in Holders' : t \in Lease!Wanted(v) }
      BY <3>3, <3>4 DEF Lease!Wanted, In
    <3> QED  BY <2>1, <3>1, <3>5 DEF Lease!Next, Lease!Release
  <2>2. CASE u \notin Trusted
    <3>1. Holders' = Holders
      BY <1>1, <1>11, <2>2, TrustFacts, SMTT(30) DEF Holders
    <3>2. Up' = Up
      BY <1>8, <1>9, <2>2, TrustFacts DEF Up
    <3> QED  BY <3>1, <3>2
  <2> QED  BY <2>1, <2>2
<1> QED  BY <1>1, <1>12, <1>14, <1>15, <1>16, <1>17, <1>18, <1>0 DEF LeaseInv

-----------------------------------------------------------------------------
LEMMA LeaseNext ==
  ASSUME LeaseInv, [Next]_vars
  PROVE  LeaseInv' /\ [Lease!Next]_<<Holders, Up>>
<1>1. CASE UNCHANGED vars
  BY <1>1, IdleLease
<1>2. CASE Requests
  BY <1>2, RequestsLease
<1>3. CASE Progress
  <2>1. CASE \E a \in Apps : DeployApp(a)
    BY <2>1, RequestsLease
  <2>2. CASE \E u \in Users : DeclareUsed(u) \/ DeclareNotUsed(u)
    BY <2>2, DeclareUsedLease, DeclareNotUsedLease
  <2>3. CASE \E t \in Tasks : Deployed(t) \/ TornDown(t) \/ \E u \in Users : DeployedLate(t, u)
    BY <2>3, ServerLease, LateLease
  <2>4. CASE AllDeployed \/ RolledBack \/ AllTornDown
    BY <2>4, AllDeployedLease, RolledBackLease, AllTornDownLease
  <2>5. CASE \E i \in Invocations : Dispatch(i) \/ Answered(i) \/ Resume(i)
    BY <2>5, InvocationLease
  <2> QED  BY <1>3, <2>1, <2>2, <2>3, <2>4, <2>5 DEF Progress
<1>4. CASE Stop
  BY <1>1, <1>4 DEF Stop
<1> QED  BY <1>1, <1>2, <1>3, <1>4 DEF Next

THEOREM LeaseInvariant == Spec => []LeaseInv
<1>1. Init => LeaseInv
  BY LeaseInit
<1>2. LeaseInv /\ [Next]_vars => LeaseInv'
  BY LeaseNext
<1> QED  BY <1>1, <1>2, PTL DEF Spec

(* The counter of a task whose users are trusted is the number of its uses: *)
(* declare_used, its rollback and declare_not_used in                       *)
(* services/gateway/task_manager.py neither lose nor invent one.  It says   *)
(* nothing of tasks that are shared, also through others, with an           *)
(* application that is unregistered before it is ready or a session that    *)
(* may give back twice.                                                     *)
THEOREM UsesAreCounted == Spec => []UsageIsCounted
<1>1. LeaseInv => UsageIsCounted
  BY DEF LeaseInv, Counts, UsageIsCounted
<1> QED  BY <1>1, LeaseInvariant, PTL

(* The Resource Manager runs what the gateway has as ready, under the name  *)
(* the gateway has for it, and at rest nothing else: of the tasks whose     *)
(* users are trusted, and only until a Teardown of the task has failed or a *)
(* Deploy of it was left in flight (`unsure`), after which neither holds.   *)
THEOREM NothingRunsUnknown == Spec => []RunningIsKnown
<1>1. LeaseInv => RunningIsKnown
  <2> SUFFICES ASSUME LeaseInv PROVE RunningIsKnown
    OBVIOUS
  <2>1. ASSUME NEW t \in Sound \ unsure, Settled(t)
        PROVE  running[t] = IF task_states[t] = "ready" THEN {names[t]} ELSE {}
    <3>1. AtRest(t) \/ Starting(t) \/ Undone(t) \/ Ending(t)
      BY DEF LeaseInv, Known
    <3> QED  BY <2>1, <3>1 DEF Settled, AtRest, Starting, Undone, Ending
  <2> QED  BY <2>1 DEF RunningIsKnown, LeaseInv, GatewayInv
<1> QED  BY <1>1, LeaseInvariant, PTL

(* The gateway implements the leases: a trusted user gets all of its tasks  *)
(* or none in one step, and a task is ready in the gateway's table exactly  *)
(* while somebody has it.                                                   *)
THEOREM TasksAreLeased == Spec => ImplementsLease
<1>1. Init => Lease!Init
  BY LeaseInit
<1>2. LeaseInv /\ [Next]_vars => [Lease!Next]_<<Holders, Up>>
  BY LeaseNext
<1> QED  BY <1>1, <1>2, LeaseInvariant, PTL DEF Spec, ImplementsLease, Lease!Spec
=============================================================================
