------------------------ MODULE TaskDispatcher_proofs -----------------------
(***************************************************************************)
(* For any number of GPUs, nodes, replicas and deployments: the executors  *)
(* of a Task Manager divide its GPUs, no GPU is in two pods, what it       *)
(* answers as free is free, and a ready task is found at every replica.    *)
(***************************************************************************)
EXTENDS TaskDispatcher, ClusterGPUs_proofs

-----------------------------------------------------------------------------
(* The dicts of the model. *)
(* What the dict of the deployments is without one of its keys.             *)
LEMMA PopIs ==
  ASSUME NEW S, NEW s \in Seq(S), OneToOne(s, Len(s)), NEW e
  PROVE  /\ Pop(s, e) \in Seq(S) /\ OneToOne(Pop(s, e), Len(Pop(s, e)))
         /\ Range(Pop(s, e)) = Range(s) \ {e}
<1>1. CASE e \notin Range(s)
  BY <1>1 DEF Pop
<1>2. CASE e \in Range(s)
  <2> DEFINE i == CHOOSE k \in DOMAIN s : s[k] = e
             t == RemoveAt(s, i)
  <2>1. i \in 1 .. Len(s) /\ s[i] = e
    BY <1>2 DEF Range
  <2> HIDE DEF i
  <2>2. Pop(s, e) = t
    BY <1>2 DEF Pop, i
  <2>3. /\ t \in Seq(S) /\ Len(t) = Len(s) - 1
        /\ \A k \in 1 .. Len(s) - 1 : t[k] = IF k < i THEN s[k] ELSE s[k + 1]
    <3> DEFINE a == SubSeq(s, 1, i - 1)
               b == SubSeq(s, i + 1, Len(s))
    <3>1. a \in Seq(S) /\ Len(a) = i - 1 /\ \A k \in 1 .. i - 1 : a[k] = s[k]
      BY <2>1
    <3>2. b \in Seq(S) /\ Len(b) = Len(s) - i /\ \A k \in 1 .. Len(s) - i : b[k] = s[i + k]
      BY <2>1
    <3>3. t = a \o b
      BY DEF RemoveAt
    <3>4. Len(s) \in Nat
      OBVIOUS
    <3> HIDE DEF a, b, t
    <3>5. t \in Seq(S) /\ Len(t) = Len(a) + Len(b)
      BY <3>1, <3>2, <3>3
    <3>6. ASSUME NEW k \in 1 .. Len(s) - 1 PROVE t[k] = IF k < i THEN s[k] ELSE s[k + 1]
      <4>1. CASE k < i
        <5>1. t[k] = a[k] /\ k \in 1 .. i - 1
          BY <2>1, <3>1, <3>2, <3>3, <4>1
        <5> QED  BY <3>1, <4>1, <5>1
      <4>2. CASE ~(k < i)
        <5>1. t[k] = b[k - (i - 1)] /\ k - (i - 1) \in 1 .. Len(s) - i
          BY <2>1, <3>1, <3>2, <3>3, <3>4, <4>2
        <5>2. i + (k - (i - 1)) = k + 1
          BY <2>1
        <5> QED  BY <3>2, <4>2, <5>1, <5>2
      <4> QED  BY <4>1, <4>2
    <3>7. Len(t) = Len(s) - 1
      BY <2>1, <3>1, <3>2, <3>4, <3>5
    <3> QED  BY <3>5, <3>6, <3>7
  <2> HIDE DEF t
  <2>4. OneToOne(t, Len(t))
    BY <2>1, <2>3 DEF OneToOne
  <2>5. Range(t) = Range(s) \ {e}
    <3>1. ASSUME NEW k \in 1 .. Len(t) PROVE t[k] \in Range(s) /\ t[k] # e
      BY <2>1, <2>3 DEF OneToOne, Range
    <3>2. ASSUME NEW k \in 1 .. Len(s), s[k] # e PROVE s[k] \in Range(t)
      <4>1. CASE k < i
        <5>1. k \in 1 .. Len(t) /\ t[k] = s[k]
          BY <2>1, <2>3, <4>1
        <5> QED  BY <2>3, <5>1 DEF Range
      <4>2. CASE k > i
        <5>1. k - 1 \in 1 .. Len(t) /\ t[k - 1] = s[k]
          BY <2>1, <2>3, <4>2
        <5> QED  BY <2>3, <5>1 DEF Range
      <4> QED  BY <2>1, <3>2, <4>1, <4>2
    <3>3. DOMAIN t = 1 .. Len(t) /\ DOMAIN s = 1 .. Len(s)
      BY <2>3
    <3> QED  BY <3>1, <3>2, <3>3 DEF Range
  <2> QED  BY <2>2, <2>3, <2>4, <2>5
<1> QED  BY <1>1, <1>2

(* A dict with one more key.                                                *)
LEMMA AppendIs ==
  ASSUME NEW S, NEW s \in Seq(S), OneToOne(s, Len(s)), NEW e \in S, e \notin Range(s)
  PROVE  /\ Append(s, e) \in Seq(S) /\ OneToOne(Append(s, e), Len(Append(s, e)))
         /\ Range(Append(s, e)) = Range(s) \cup {e}
<1> DEFINE t == Append(s, e)
<1>1. /\ t \in Seq(S) /\ Len(t) = Len(s) + 1 /\ Len(s) \in Nat
      /\ \A k \in 1 .. Len(s) : t[k] = s[k]
      /\ t[Len(s) + 1] = e
  OBVIOUS
<1> HIDE DEF t
<1>2. DOMAIN t = 1 .. Len(t) /\ DOMAIN s = 1 .. Len(s)
  BY <1>1
<1>3. \A k \in 1 .. Len(s) : s[k] # e
  BY <1>2 DEF Range
<1>4. OneToOne(t, Len(t))
  BY <1>1, <1>3 DEF OneToOne
<1>5. Range(t) = Range(s) \cup {e}
  <2>1. \A k \in DOMAIN t : t[k] \in Range(s) \cup {e}
    <3>1. ASSUME NEW k \in 1 .. Len(t) PROVE t[k] \in Range(s) \cup {e}
      <4>1. CASE k \in 1 .. Len(s)
        BY <1>1, <1>2, <4>1 DEF Range
      <4>2. CASE k = Len(s) + 1
        BY <1>1, <4>2
      <4> QED  BY <1>1, <4>1, <4>2
    <3> QED  BY <1>2, <3>1
  <2>2. \A k \in DOMAIN s : k \in DOMAIN t /\ t[k] = s[k]
    BY <1>1, <1>2
  <2>3. Len(s) + 1 \in DOMAIN t
    BY <1>1, <1>2
  <2> QED  BY <1>1, <2>1, <2>2, <2>3 DEF Range
<1> QED  BY <1>1, <1>4, <1>5 DEF t

-----------------------------------------------------------------------------
(* The calls of the Task Manager that a step of the system is made of.      *)
Forgotten ==
  /\ doing = "stopped" /\ doing' = "off"
  /\ UNCHANGED <<trouble, books, rr_counter, phase, failed, updates, pods>>

Moves ==
  \/ Register \/ Regroup \/ Finish \/ Shutdown \/ Routed \/ Forgotten
  \/ \E add, remove \in SUBSET GPUs : Update(add, remove)
  \/ \E e \in Executors : Spawn(e) \/ Healthy(e) \/ Kill(e) \/ Killed(e)
  \/ \E e \in Executors : PodUp(e) \/ PodDies(e) \/ PodEnds(e)
  \/ UNCHANGED tmVars

LEMMA StepMoves == [Next]_vars => Moves
<1> SUFFICES ASSUME [Next]_vars PROVE Moves
  OBVIOUS
<1>1. CASE Progress
  <2>1. CASE Spawned
    BY <2>1, Zenon DEF Spawned, Moves, Forgotten
  <2>2. CASE Told \/ \E r \in Replicas : Notify(r)
    BY <2>2 DEF Told, Notify, Moves
  <2>3. CASE Stop
    BY <2>3 DEF Stop, Moves
  <2>4. CASE Stopped
    BY <2>4 DEF Stopped, Moves, Forgotten
  <2>5. CASE \E v \in Invocations : GetRoute(v) \/ Post(v)
    BY <2>5 DEF GetRoute, Post, Moves
  <2>6. CASE (Regroup \/ Finish) /\ UNCHANGED Others
    BY <2>6 DEF Moves
  <2> QED  BY <1>1, <2>1, <2>2, <2>3, <2>4, <2>5, <2>6 DEF Progress
<1>2. CASE Kubernetes
  BY <1>2 DEF Kubernetes, Moves
<1>3. CASE Free
  <2>1. CASE Deploy
    BY <2>1 DEF Deploy, Moves
  <2>2. CASE Teardown
    BY <2>2 DEF Teardown, Moves
  <2>3. CASE Scale
    <3>1. PICK add \in Additions \cup {{}}, remove \in Removals \cup {{}} : Update(add, remove)
      BY <2>3 DEF Scale
    <3>2. add \in SUBSET GPUs /\ remove \in SUBSET GPUs
      BY TaskDispatcherAssumption DEF TaskDispatcherAssumption
    <3> QED  BY <3>1, <3>2 DEF Moves
  <2>4. CASE \E v \in Invocations, r \in Replicas : Invoke(v, r)
    BY <2>4 DEF Invoke, Moves
  <2>5. CASE \E v \in Invocations : ChannelClosed(v)
    BY <2>5 DEF ChannelClosed, Moves
  <2>6. CASE \E e \in Executors : PodDies(e) /\ UNCHANGED Others
    BY <2>6 DEF Moves
  <2> QED  BY <1>3, <2>1, <2>2, <2>3, <2>4, <2>5, <2>6 DEF Free
<1>4. CASE Rest
  BY <1>4 DEF Rest, vars, Moves
<1>5. CASE \E e \in Executors : Work(e) /\ UNCHANGED Others
  BY <1>5 DEF Work, Moves
<1>6. CASE UNCHANGED vars
  BY <1>6 DEF vars, Moves
<1> QED  BY <1>1, <1>2, <1>3, <1>4, <1>5, <1>6 DEF Next

-----------------------------------------------------------------------------
TMTypes ==
  /\ TMTypeOK
  /\ deployments \in Seq(Executors) /\ OneToOne(deployments, Len(deployments))

USE TaskManagerAssumption

LEMMA Facts ==
  /\ ClusterAssumption /\ Profile(Sizes)
  /\ Initial \subseteq GPUs /\ MaxUpdates \in Nat
BY ClusterAssumption DEF TaskManagerAssumption, Profile

(* The groups are executors. *)
LEMMA GroupsAre ==
  ASSUME NEW gs \in SUBSET GPUs, NEW e \in Groups(gs, Sizes)
  PROVE  /\ e \in Executors /\ e \subseteq gs /\ Cardinality(e) \in Sizes /\ IsFiniteSet(e)
         /\ \A f \in Groups(gs, Sizes) : e # f => e \cap f = {}
<1>1. ClusterAssumption /\ Profile(Sizes)
  BY Facts
<1>2. e \subseteq gs /\ e # {} /\ IsFiniteSet(e) /\ Cardinality(e) \in Sizes
  BY <1>1, GroupsDivide
<1>3. \A f \in Groups(gs, Sizes) : e # f => e \cap f = {}
  BY Facts, GroupsDivide
<1> QED  BY <1>2, <1>3 DEF Executors

LEMMA TypesKept == TMTypes /\ Moves => TMTypes'
<1> SUFFICES ASSUME TMTypes, Moves PROVE TMTypes'
  OBVIOUS
<1> USE DEF TMTypes, TMTypeOK
<1>1. /\ Deployed \subseteq Executors
      /\ \A S, v : v \in Phases => Put(phase, S, v) \in [Executors -> Phases]
      /\ \A S, v : v \in SUBSET GPUs => Put(owner, S, v) \in [GPUs -> SUBSET GPUs]
  <2>1. \A S, v : v \in Phases => Put(phase, S, v) \in [Executors -> Phases]
    BY DEF Put
  <2>2. \A S, v : v \in SUBSET GPUs => Put(owner, S, v) \in [GPUs -> SUBSET GPUs]
    BY DEF Put
  <2> QED  BY <2>1, <2>2
<1>2. CASE Register
  <2>1. phase' \in [Executors -> Phases]
    BY <1>1, <1>2 DEF Register, Phases
  <2>2. deployments' = <<>> /\ Deployed' = {} /\ OneToOne(deployments', Len(deployments'))
    <3>1. deployments' = <<>>
      BY <1>2 DEF Register
    <3>2. Range(<<>>) = {} /\ OneToOne(<<>>, Len(<<>>))
      <4>1. Len(<<>>) = 0 /\ DOMAIN <<>> = 1 .. 0
        OBVIOUS
      <4> QED  BY <4>1 DEF OneToOne, Range
    <3> QED  BY <3>1, <3>2 DEF Deployed
  <2>3. owner' \in [GPUs -> SUBSET GPUs] /\ gpus' \subseteq GPUs /\ rr_counter' \in Nat
    BY <1>2, Facts DEF Register
  <2>4. /\ doing' = "registering" /\ failed' \in BOOLEAN /\ pod_names' = {}
        /\ UNCHANGED <<trouble, updates, pods>>
    BY <1>2 DEF Register
  <2> QED  BY <2>1, <2>2, <2>3, <2>4 DEF Doing
<1>3. CASE Regroup
  <2>1. phase' \in [Executors -> Phases]
    BY <1>1, <1>3 DEF Regroup, Phases
  <2> QED  BY <1>3, <2>1 DEF Regroup, Doing, books, Deployed
<1>4. CASE Finish
  BY <1>4 DEF Finish, Doing, books, Deployed, AllSettled
<1>5. CASE Shutdown
  <2>1. phase' \in [Executors -> Phases]
    BY <1>1, <1>5 DEF Shutdown, Phases
  <2> QED  BY <1>5, <2>1 DEF Shutdown, Doing, books, Deployed
<1>6. CASE Routed
  BY <1>6 DEF Routed, books, Deployed
<1>7. CASE Forgotten
  BY <1>7 DEF Forgotten, Doing, books, Deployed
<1>8. ASSUME NEW add \in SUBSET GPUs, NEW remove \in SUBSET GPUs, Update(add, remove) PROVE TMTypes'
  <2>1. updates' \in 0 .. MaxUpdates
    BY <1>8, Facts DEF Update
  <2>2. phase' \in [Executors -> Phases] /\ owner' \in [GPUs -> SUBSET GPUs] /\ gpus' \subseteq GPUs
    BY <1>1, <1>8 DEF Update, Phases
  <2>3. doing' \in Doing /\ (doing' \in {"off", "idle", "stopped"} => \A e \in Executors : phase'[e] = "none")
    BY <1>8 DEF Update, Doing
  <2> QED  BY <1>8, <2>1, <2>2, <2>3 DEF Update, Deployed
<1>9. ASSUME NEW e \in Executors, Spawn(e) PROVE TMTypes'
  <2>1. /\ phase' \in [Executors -> Phases] /\ pods' \in [Executors -> PodStates]
        /\ pod_names' \subseteq Executors /\ failed' \in BOOLEAN
    BY <1>9 DEF Spawn, Phases, PodStates
  <2>2. owner' \in [GPUs -> SUBSET GPUs]
    BY <1>1, <1>9 DEF Spawn, Executors
  <2>3. deployments' \in Seq(Executors) /\ OneToOne(deployments', Len(deployments')) /\ Deployed' \subseteq Executors
    <3>1. CASE deployments' = deployments
      BY <3>1 DEF Deployed
    <3>2. CASE e \notin Deployed /\ deployments' = Append(deployments, e)
      BY <3>2, AppendIs DEF Deployed
    <3> QED  BY <1>9, <3>1, <3>2 DEF Spawn, Added
  <2>4. ~(doing \in {"off", "idle", "stopped"})
    BY <1>9 DEF Spawn
  <2> QED  BY <1>9, <2>1, <2>2, <2>3, <2>4 DEF Spawn
<1>10. ASSUME NEW e \in Executors, Healthy(e) PROVE TMTypes'
  <2>1. ~(doing \in {"off", "idle", "stopped"})
    BY <1>10 DEF Healthy
  <2>2. phase' \in [Executors -> Phases] /\ failed' \in BOOLEAN
    BY <1>10 DEF Healthy, Phases
  <2> QED  BY <1>10, <2>2, <2>1 DEF Healthy, books, Deployed
<1>11. ASSUME NEW e \in Executors, Dealloc(e)
       PROVE  /\ deployments' \in Seq(Executors) /\ OneToOne(deployments', Len(deployments'))
              /\ Deployed' \subseteq Executors /\ owner' \in [GPUs -> SUBSET GPUs]
  BY <1>1, <1>11, PopIs DEF Dealloc, Deployed
<1>12. ASSUME NEW e \in Executors, Kill(e) PROVE TMTypes'
  <2>1. ~(doing \in {"off", "idle", "stopped"})
    BY <1>12 DEF Kill
  <2>2. phase' \in [Executors -> Phases] /\ pods' \in [Executors -> PodStates] /\ pod_names' \subseteq Executors
    BY <1>12 DEF Kill, Phases, PodStates
  <2>3. CASE Dealloc(e)
    BY <1>11, <1>12, <2>2, <2>3, <2>1 DEF Kill
  <2>4. CASE UNCHANGED <<owner, deployments>>
    BY <1>12, <2>2, <2>4, <2>1 DEF Kill, Deployed
  <2> QED  BY <1>12, <2>3, <2>4 DEF Kill
<1>13. ASSUME NEW e \in Executors, Killed(e) PROVE TMTypes'
  <2>1. ~(doing \in {"off", "idle", "stopped"})
    BY <1>13 DEF Killed
  <2>2. phase' \in [Executors -> Phases]
    BY <1>13 DEF Killed, Phases
  <2>3. CASE Dealloc(e)
    BY <1>11, <1>13, <2>2, <2>3, <2>1 DEF Killed
  <2>4. CASE UNCHANGED <<owner, deployments>>
    BY <1>13, <2>2, <2>4, <2>1 DEF Killed, Deployed
  <2> QED  BY <1>13, <2>3, <2>4 DEF Killed
<1>14. ASSUME NEW e \in Executors, PodUp(e) \/ PodDies(e) \/ PodEnds(e) PROVE TMTypes'
  <2>1. pods' \in [Executors -> PodStates]
    BY <1>14 DEF PodUp, PodDies, PodEnds, PodMoves, PodStates
  <2> QED  BY <1>14, <2>1 DEF PodUp, PodDies, PodEnds, PodMoves, books, Deployed
<1>15. CASE UNCHANGED tmVars
  BY <1>15 DEF tmVars, books, Deployed
<1> QED  BY <1>2, <1>3, <1>4, <1>5, <1>6, <1>7, <1>8, <1>9, <1>10, <1>12, <1>13, <1>14, <1>15 DEF Moves

-----------------------------------------------------------------------------
Active(e) == pods[e] # "none" \/ phase[e] # "none" \/ e \in Deployed
Ending(e) == phase[e] \in {"kill", "wait"}
Alive == {"starting", "up", "failed"}

(* What the phase of an executor says of its names and of its pod.          *)
PhaseOK(e) ==
  /\ phase[e] = "none" =>
       /\ e \in Deployed <=> e \in pod_names
       /\ IF e \in Deployed THEN pods[e] \in Alive ELSE pods[e] = "none"
  /\ phase[e] = "create" => e \notin Deployed /\ e \notin pod_names /\ pods[e] = "none"
  /\ phase[e] = "health" => e \in Deployed /\ e \in pod_names /\ pods[e] \in Alive
  /\ phase[e] = "kill" => e \in pod_names /\ pods[e] \in Alive
  /\ phase[e] = "wait" => e \notin pod_names /\ pods[e] \in {"ending", "none"}

ExecutorsApart == \A e, f \in Executors : Active(e) /\ Active(f) /\ e # f => e \cap f = {}
Owned == \A e \in Deployed : \A g \in e : owner[g] = e
Within == \A e \in Executors : Active(e) => e \subseteq gpus \/ (doing = "killing" /\ Ending(e))
ByDoing ==
  /\ doing \in {"off", "stopped"} => \A e \in Executors : ~Active(e)
  /\ doing = "stopping" => \A e \in Executors : Active(e) => Ending(e)
  /\ doing = "registering" =>
       \A e \in Executors : Active(e) => e = Initial /\ (failed => Ending(e))

Phased == \A e \in Executors : PhaseOK(e)
PodInv == Phased /\ ExecutorsApart /\ Owned /\ Within /\ ByDoing

(* A step that moves one executor, which is active, and no other.           *)
OnlyThis(e) ==
  \A f \in Executors : f # e =>
    /\ phase'[f] = phase[f] /\ pods'[f] = pods[f]
    /\ f \in Deployed' <=> f \in Deployed
    /\ f \in pod_names' <=> f \in pod_names

LEMMA OneMoves ==
  ASSUME TMTypes, PodInv, NEW e \in Executors, OnlyThis(e), Active(e), PhaseOK(e)', Owned',
         doing' = doing, gpus' = gpus,
         Active(e)' /\ (Ending(e) \/ (failed' /\ doing = "registering")) => Ending(e)'
  PROVE  PodInv'
<1>1. \A f \in Executors : f # e => (Active(f)' <=> Active(f)) /\ (Ending(f)' <=> Ending(f)) /\ (PhaseOK(f) => PhaseOK(f)')
  BY DEF OnlyThis, Active, Ending, PhaseOK
<1>2. \A f \in Executors : Active(f)' => Active(f)
  BY <1>1
<1>3. Phased'
  BY <1>1 DEF PodInv, Phased
<1>4. ExecutorsApart'
  BY <1>2 DEF PodInv, ExecutorsApart
<1>5. Within'
  <2>1. ASSUME NEW f \in Executors, Active(f)' PROVE f \subseteq gpus' \/ (doing' = "killing" /\ Ending(f)')
    BY <1>1, <1>2, <2>1 DEF PodInv, Within
  <2> QED  BY <2>1 DEF Within
<1>6. ByDoing'
  <2>1. doing \notin {"off", "stopped"}
    BY DEF PodInv, ByDoing
  <2>2. ASSUME doing = "stopping", NEW f \in Executors, Active(f)' PROVE Ending(f)'
    <3>1. Ending(f)
      BY <1>2, <2>2 DEF PodInv, ByDoing
    <3> QED  BY <1>1, <2>2, <3>1
  <2>3. ASSUME doing = "registering", NEW f \in Executors, Active(f)' PROVE f = Initial /\ (failed' => Ending(f)')
    <3>1. f = Initial /\ e = Initial
      BY <1>2, <2>3 DEF PodInv, ByDoing
    <3> QED  BY <2>3, <3>1
  <2> QED  BY <2>1, <2>2, <2>3 DEF ByDoing
<1> QED  BY <1>3, <1>4, <1>5, <1>6 DEF PodInv

LEMMA SpawnKeeps ==
  ASSUME TMTypes, PodInv, trouble # "api", NEW e \in Executors, Spawn(e)
  PROVE  PodInv'
<1>1. phase[e] = "create" /\ e \notin Deployed /\ e \notin pod_names /\ pods[e] = "none" /\ Active(e)
  BY DEF Spawn, PodInv, Phased, PhaseOK, Active
<1>2. doing' = doing /\ gpus' = gpus
  BY DEF Spawn
<1>3. /\ phase' \in [Executors -> Phases] /\ pods' \in [Executors -> PodStates]
      /\ \A f \in Executors : f # e => phase'[f] = phase[f] /\ pods'[f] = pods[f]
  BY DEF Spawn, TMTypes, TMTypeOK, Phases, PodStates
<1>4. Deployed' = (IF phase'[e] = "health" THEN Deployed \cup {e} ELSE Deployed)
  <2>1. CASE phase'[e] = "health" /\ deployments' = Append(deployments, e)
    BY <1>1, <2>1, AppendIs DEF TMTypes, Deployed
  <2>2. CASE phase'[e] # "health" /\ deployments' = deployments
    BY <2>2 DEF Deployed
  <2> QED  BY <1>1, <2>1, <2>2 DEF Spawn, Added, TMTypes, TMTypeOK
<1>5. OnlyThis(e)
  <2>1. pod_names' = pod_names \/ pod_names' = pod_names \cup {e}
    BY DEF Spawn
  <2> QED  BY <1>3, <1>4, <2>1 DEF OnlyThis
<1>6. \/ /\ phase'[e] = "health" /\ pods'[e] = "starting" /\ pod_names' = pod_names \cup {e}
         /\ failed' = failed /\ owner' = Put(owner, e, e)
      \/ /\ phase'[e] = "kill" /\ pods'[e] = "starting" /\ pod_names' = pod_names \cup {e}
         /\ owner' = owner
      \/ /\ phase'[e] = "none" /\ pods'[e] = "none" /\ pod_names' = pod_names
         /\ owner' = owner
  BY <1>1 DEF Spawn, TMTypes, TMTypeOK
<1>7. PhaseOK(e)'
  BY <1>1, <1>4, <1>6 DEF PhaseOK, Alive
<1>8. Owned'
  <2>1. CASE phase'[e] = "health"
    <3>1. \A g \in GPUs : owner'[g] = IF g \in e THEN e ELSE owner[g]
      BY <1>6, <2>1 DEF Put, TMTypes, TMTypeOK
    <3>2. \A f \in Deployed : f \in Executors /\ f # e /\ Active(f) /\ f \cap e = {}
      BY <1>1 DEF TMTypes, TMTypeOK, Active, PodInv, ExecutorsApart
    <3>3. ASSUME NEW f \in Deployed', NEW g \in f PROVE owner'[g] = f
      <4>1. CASE f = e
        BY <3>1, <3>3, <4>1 DEF Executors
      <4>2. CASE f \in Deployed
        <5>1. g \notin e /\ g \in GPUs
          BY <3>2, <4>2 DEF Executors
        <5> QED  BY <3>1, <4>2, <5>1 DEF PodInv, Owned
      <4> QED  BY <1>4, <2>1, <4>1, <4>2
    <3> QED  BY <3>3 DEF Owned
  <2>2. CASE phase'[e] # "health"
    BY <1>4, <1>6, <2>2 DEF PodInv, Owned
  <2> QED  BY <2>1, <2>2
<1>9. Active(e)' /\ (Ending(e) \/ (failed' /\ doing = "registering")) => Ending(e)'
  <2>1. ~Ending(e)
    BY <1>1 DEF Ending
  <2>2. ASSUME failed', doing = "registering", Active(e)' PROVE Ending(e)'
    <3>1. ~failed
      BY <1>1, <2>1, <2>2 DEF PodInv, ByDoing
    <3>2. phase'[e] # "health"
      BY <1>6, <2>2, <3>1
    <3> QED  BY <1>1, <1>4, <1>6, <2>2, <3>2 DEF Active, Ending
  <2> QED  BY <2>1, <2>2
<1> QED  BY <1>1, <1>2, <1>5, <1>7, <1>8, <1>9, OneMoves

LEMMA HealthyKeeps ==
  ASSUME TMTypes, PodInv, trouble # "api", NEW e \in Executors, Healthy(e)
  PROVE  PodInv'
<1>1. phase[e] = "health" /\ e \in Deployed /\ e \in pod_names /\ pods[e] \in Alive /\ Active(e)
  BY DEF Healthy, PodInv, Phased, PhaseOK, Active
<1>2. /\ doing' = doing /\ gpus' = gpus /\ owner' = owner /\ pod_names' = pod_names
      /\ pods' = pods /\ Deployed' = Deployed
  BY DEF Healthy, books, Deployed
<1>3. OnlyThis(e)
  BY <1>2 DEF Healthy, OnlyThis, TMTypes, TMTypeOK
<1>4. (phase'[e] = "none" /\ failed' = failed) \/ phase'[e] = "kill"
  BY DEF Healthy, TMTypes, TMTypeOK
<1>5. PhaseOK(e)'
  BY <1>1, <1>2, <1>4 DEF PhaseOK, Alive
<1>6. Owned'
  BY <1>2 DEF PodInv, Owned
<1>7. Active(e)' /\ (Ending(e) \/ (failed' /\ doing = "registering")) => Ending(e)'
  <2>1. ~Ending(e)
    BY <1>1 DEF Ending
  <2>2. doing = "registering" => ~failed
    BY <1>1, <2>1 DEF PodInv, ByDoing
  <2>3. Ending(e)' \/ failed' = failed
    BY <1>4 DEF Ending
  <2> QED  BY <2>1, <2>2, <2>3
<1> QED  BY <1>1, <1>2, <1>3, <1>5, <1>6, <1>7, OneMoves

(* The names and the GPUs of an executor that is given up.                  *)
LEMMA DeallocIs ==
  ASSUME TMTypes, PodInv, NEW e \in Executors, Dealloc(e)
  PROVE  Deployed' = Deployed \ {e} /\ Owned'
<1>1. Deployed' = Deployed \ {e}
  BY PopIs DEF TMTypes, Dealloc, Deployed
<1>2. ASSUME NEW f \in Deployed', NEW g \in f PROVE owner'[g] = f
  <2>1. f \in Deployed /\ f # e /\ f \in Executors /\ g \in GPUs
    BY <1>1 DEF TMTypes, TMTypeOK, Executors
  <2>2. CASE e \in Deployed
    <3>1. f \cap e = {}
      BY <2>1, <2>2 DEF PodInv, ExecutorsApart, Active
    <3>2. owner'[g] = owner[g]
      BY <2>1, <2>2, <3>1 DEF Dealloc, Put, TMTypes, TMTypeOK
    <3> QED  BY <2>1, <3>2 DEF PodInv, Owned
  <2>3. CASE e \notin Deployed
    BY <2>1, <2>3 DEF Dealloc, PodInv, Owned
  <2> QED  BY <2>2, <2>3
<1> QED  BY <1>1, <1>2 DEF Owned

LEMMA KillKeeps ==
  ASSUME TMTypes, PodInv, trouble # "api", NEW e \in Executors, Kill(e)
  PROVE  PodInv'
<1>1. phase[e] = "kill" /\ e \in pod_names /\ pods[e] \in Alive /\ Active(e)
  BY DEF Kill, PodInv, Phased, PhaseOK, Active
<1>2. /\ doing' = doing /\ gpus' = gpus /\ owner' = owner /\ pod_names' = pod_names \ {e}
      /\ Deployed' = Deployed /\ phase' = [phase EXCEPT ![e] = "wait"]
      /\ pods' = [pods EXCEPT ![e] = IF @ = "none" THEN @ ELSE "ending"]
  BY <1>1 DEF Kill, Deployed
<1>3. OnlyThis(e)
  BY <1>2 DEF OnlyThis, TMTypes, TMTypeOK
<1>4. phase'[e] = "wait" /\ pods'[e] = "ending"
  BY <1>1, <1>2 DEF TMTypes, TMTypeOK, Alive
<1>5. PhaseOK(e)'
  BY <1>2, <1>4 DEF PhaseOK
<1>6. Owned'
  BY <1>2 DEF PodInv, Owned
<1> QED  BY <1>1, <1>2, <1>3, <1>4, <1>5, <1>6, OneMoves DEF Ending

LEMMA KilledKeeps ==
  ASSUME TMTypes, PodInv, trouble # "api", NEW e \in Executors, Killed(e)
  PROVE  PodInv'
<1>1. phase[e] = "wait" /\ e \notin pod_names /\ pods[e] = "none" /\ Active(e) /\ Dealloc(e)
  BY DEF Killed, IsGone, PodInv, Phased, PhaseOK, Active
<1>2. /\ doing' = doing /\ gpus' = gpus /\ pod_names' = pod_names /\ pods' = pods
      /\ phase' = [phase EXCEPT ![e] = "none"]
  BY DEF Killed
<1>3. Deployed' = Deployed \ {e} /\ Owned'
  BY <1>1, DeallocIs
<1>4. OnlyThis(e) /\ phase'[e] = "none"
  BY <1>2, <1>3 DEF OnlyThis, TMTypes, TMTypeOK
<1>5. PhaseOK(e)' /\ ~Active(e)'
  BY <1>1, <1>2, <1>3, <1>4 DEF PhaseOK, Active
<1> QED  BY <1>1, <1>2, <1>3, <1>4, <1>5, OneMoves

LEMMA PodKeeps ==
  ASSUME TMTypes, PodInv, NEW e \in Executors, PodUp(e) \/ PodDies(e) \/ PodEnds(e)
  PROVE  PodInv'
<1>1. /\ pods[e] # "none" /\ Active(e)
      /\ UNCHANGED <<doing, books, phase, failed>> /\ Deployed' = Deployed
  BY DEF PodUp, PodDies, PodEnds, PodMoves, Active, books, Deployed
<1>2. /\ \A f \in Executors : f # e => pods'[f] = pods[f]
      /\ \/ pods[e] = "ending" /\ pods'[e] = "none"
         \/ pods[e] \in Alive /\ pods'[e] \in Alive
  BY DEF PodUp, PodDies, PodEnds, PodMoves, Alive, TMTypes, TMTypeOK
<1>3. OnlyThis(e)
  BY <1>1, <1>2 DEF OnlyThis, books
<1>4. PhaseOK(e)'
  <2>1. PhaseOK(e) /\ phase[e] \in Phases
    BY DEF PodInv, Phased, TMTypes, TMTypeOK
  <2> QED  BY <1>1, <1>2, <2>1 DEF PhaseOK, Alive, books
<1>5. Owned'
  BY <1>1 DEF PodInv, Owned, books
<1>6. Active(e)' /\ (Ending(e) \/ (failed' /\ doing = "registering")) => Ending(e)'
  BY <1>1 DEF Ending, PodInv, ByDoing
<1> QED  BY <1>1, <1>3, <1>4, <1>5, <1>6, OneMoves DEF books

(* The GPUs of the registration are those of one executor.                  *)
LEMMA OneExecutor ==
  ASSUME NEW e \in Groups(Initial, Sizes)
  PROVE  e = Initial
<1>1. Initial \in SUBSET GPUs
  BY Facts
<1>2. e \subseteq Initial /\ Cardinality(e) \in Sizes
  BY <1>1, GroupsAre
<1>3. IsFiniteSet(Initial)
  <2>1. IsFiniteSet(GPUs)
    BY Facts, FS_Interval DEF GPUs, ClusterAssumption
  <2> QED  BY <1>1, <2>1, FS_Subset
<1>4. /\ Cardinality(e) <= Cardinality(Initial)
      /\ Cardinality(e) = Cardinality(Initial) => e = Initial
  BY <1>2, <1>3, FS_Subset
<1>5. Cardinality(Initial) \in Nat /\ Cardinality(e) \in Nat
  BY <1>2, <1>3, FS_CardinalityType, FS_Subset
<1>6. Cardinality(Initial) <= Cardinality(e)
  BY <1>2, TaskManagerAssumption DEF TaskManagerAssumption
<1> QED  BY <1>4, <1>5, <1>6

LEMMA RegisterKeeps ==
  ASSUME TMTypes, PodInv, Register
  PROVE  PodInv'
<1> DEFINE gr == Groups(Initial, Sizes)
<1>1. \A e \in Executors : pods[e] = "none" /\ phase[e] = "none"
  BY DEF Register, PodInv, ByDoing, Active
<1>2. /\ deployments' = <<>> /\ Deployed' = {} /\ pod_names' = {} /\ pods' = pods
      /\ doing' = "registering" /\ failed' = FALSE /\ gpus' = Initial
      /\ phase' = Put(phase, gr, "create")
  <2>1. Range(<<>>) = {}
    BY DEF Range
  <2> QED  BY <2>1 DEF Register, Deployed
<1> HIDE DEF gr
<1>3. \A e \in Executors : phase'[e] = IF e \in gr THEN "create" ELSE "none"
  BY <1>1, <1>2 DEF Put, TMTypes, TMTypeOK
<1>4. \A e \in Executors : Active(e)' => e = Initial
  <2>1. ASSUME NEW e \in Executors, Active(e)' PROVE e = Initial
    <3>1. e \in gr
      BY <1>1, <1>2, <1>3, <2>1 DEF Active
    <3> QED  BY <3>1, OneExecutor DEF gr
  <2> QED  BY <2>1
<1>5. Phased'
  BY <1>1, <1>2, <1>3 DEF Phased, PhaseOK
<1>6. ExecutorsApart' /\ Owned' /\ Within' /\ ByDoing'
  <2>1. ExecutorsApart' /\ Owned'
    BY <1>2, <1>4 DEF ExecutorsApart, Owned
  <2>2. Within'
    BY <1>2, <1>4 DEF Within
  <2>3. ByDoing'
    BY <1>2, <1>4 DEF ByDoing
  <2> QED  BY <2>1, <2>2, <2>3
<1> QED  BY <1>5, <1>6 DEF PodInv

(* When no spawn and no kill is under way, those that have a pod are        *)
(* deployed.                                                                *)
LEMMA SettledAre ==
  ASSUME TMTypes, PodInv, NEW e \in Executors, phase[e] = "none", Active(e)
  PROVE  e \in Deployed
BY DEF PodInv, Phased, PhaseOK, Active, TMTypes, TMTypeOK

LEMMA RegroupKeeps ==
  ASSUME TMTypes, PodInv, Regroup
  PROVE  PodInv'
<1> DEFINE gr == Groups(FreeOfMine, Sizes)
<1>1. /\ doing = "killing" /\ \A e \in Executors : phase[e] = "none"
      /\ doing' = "spawning" /\ UNCHANGED <<books, pods>> /\ Deployed' = Deployed
      /\ phase' = Put(phase, gr, "create")
  BY DEF Regroup, AllSettled, books, Deployed
<1>2. \A e \in gr : /\ e \in Executors /\ e \subseteq FreeOfMine
                    /\ \A f \in gr : e # f => e \cap f = {}
  <2>1. FreeOfMine \in SUBSET GPUs
    BY DEF FreeOfMine, TMTypes, TMTypeOK
  <2> QED  BY <2>1, GroupsAre
<1> HIDE DEF gr
<1>3. \A e \in Executors : phase'[e] = IF e \in gr THEN "create" ELSE "none"
  BY <1>1 DEF Put, TMTypes, TMTypeOK
<1>4. ASSUME NEW e \in Executors, Active(e)
      PROVE  e \in Deployed /\ e \subseteq gpus /\ e \cap FreeOfMine = {}
  <2>1. e \in Deployed
    BY <1>1, <1>4, SettledAre
  <2>2. e \subseteq gpus
    BY <1>1, <1>4 DEF PodInv, Within, Ending
  <2>3. \A g \in e : owner[g] # {}
    BY <2>1 DEF PodInv, Owned, Executors
  <2> QED  BY <2>1, <2>2, <2>3 DEF FreeOfMine
<1>5. \A e \in gr : ~Active(e)
  <2>1. \A e \in gr : e # {}
    BY <1>2 DEF Executors
  <2> QED  BY <1>2, <1>4, <2>1
<1>6. \A e \in Executors : Active(e)' => Active(e) \/ e \in gr
  BY <1>1, <1>3 DEF Active
<1>7. Phased'
  <2>1. ASSUME NEW e \in Executors PROVE PhaseOK(e)'
    <3>1. CASE e \in gr
      <4>1. e \notin Deployed /\ pods[e] = "none" /\ e \notin pod_names
        BY <1>1, <1>5, <3>1 DEF Active, PodInv, Phased, PhaseOK
      <4> QED  BY <1>1, <1>3, <3>1, <4>1 DEF PhaseOK, books
    <3>2. CASE e \notin gr
      BY <1>1, <1>3, <3>2 DEF PodInv, Phased, PhaseOK, books
    <3> QED  BY <3>1, <3>2
  <2> QED  BY <2>1 DEF Phased
<1>8. ExecutorsApart'
  <2>1. ASSUME NEW e \in Executors, NEW f \in Executors, Active(e)', Active(f)', e # f PROVE e \cap f = {}
    <3>1. CASE Active(e) /\ Active(f)
      BY <2>1, <3>1 DEF PodInv, ExecutorsApart
    <3>2. CASE e \in gr /\ f \in gr
      BY <1>2, <2>1, <3>2
    <3>3. CASE e \in gr /\ Active(f)
      BY <1>2, <1>4, <3>3
    <3>4. CASE Active(e) /\ f \in gr
      BY <1>2, <1>4, <3>4
    <3> QED  BY <1>6, <2>1, <3>1, <3>2, <3>3, <3>4
  <2> QED  BY <2>1 DEF ExecutorsApart
<1>9. Owned'
  BY <1>1 DEF PodInv, Owned, books
<1>10. Within'
  <2>1. FreeOfMine \subseteq gpus
    BY DEF FreeOfMine
  <2> QED  BY <1>1, <1>2, <1>4, <1>6, <2>1 DEF Within, books
<1>11. ByDoing'
  BY <1>1 DEF ByDoing
<1> QED  BY <1>7, <1>8, <1>9, <1>10, <1>11 DEF PodInv

(* The kills of deployed executors that are settled.                        *)
LEMMA KillsBegin ==
  ASSUME TMTypes, PodInv, \A e \in Executors : phase[e] = "none",
         NEW S \in SUBSET Deployed, phase' = Put(phase, S, "kill"),
         pods' = pods, pod_names' = pod_names, deployments' = deployments
  PROVE  /\ Phased' /\ ExecutorsApart' /\ Deployed' = Deployed
         /\ \A e \in Executors : Active(e)' => e \in Deployed
         /\ \A e \in S : Ending(e)'
<1>1. Deployed' = Deployed /\ Deployed \subseteq Executors
  BY DEF Deployed, TMTypes, TMTypeOK
<1>2. \A e \in Executors : phase'[e] = IF e \in S THEN "kill" ELSE "none"
  BY DEF Put, TMTypes, TMTypeOK
<1>3. \A e \in Executors : Active(e)' => Active(e) /\ e \in Deployed
  BY <1>1, <1>2, SettledAre DEF Active
<1>4. ExecutorsApart'
  BY <1>3 DEF PodInv, ExecutorsApart
<1>5. Phased'
  <2>1. ASSUME NEW e \in Executors PROVE PhaseOK(e)'
    <3>1. CASE e \in S
      <4>1. e \in Deployed /\ e \in pod_names /\ pods[e] \in Alive
        BY <1>1, <3>1 DEF PodInv, Phased, PhaseOK
      <4> QED  BY <1>2, <3>1, <4>1 DEF PhaseOK
    <3>2. CASE e \notin S
      BY <1>1, <1>2, <3>2 DEF PodInv, Phased, PhaseOK
    <3> QED  BY <3>1, <3>2
  <2> QED  BY <2>1 DEF Phased
<1> QED  BY <1>1, <1>2, <1>3, <1>4, <1>5 DEF Ending

LEMMA UpdateKeeps ==
  ASSUME TMTypes, PodInv, NEW add \in SUBSET GPUs, NEW remove \in SUBSET GPUs, Update(add, remove)
  PROVE  PodInv'
<1>1. CASE ~(remove \subseteq gpus /\ add \cap gpus = {})
  <2>1. UNCHANGED <<doing, books, phase, failed, pods>> /\ Deployed' = Deployed
    BY <1>1 DEF Update, books, Deployed
  <2> QED  BY <2>1 DEF PodInv, Phased, PhaseOK, ExecutorsApart, Owned, Within, ByDoing,
                       Active, Ending, books
<1>2. CASE remove \subseteq gpus /\ add \cap gpus = {}
  <2>1. /\ doing = "idle" /\ doing' = "killing" /\ gpus' = (gpus \ remove) \cup add
        /\ owner' = Put(owner, add, {}) /\ phase' = Put(phase, Losing(remove), "kill")
        /\ UNCHANGED <<pod_names, deployments, pods>>
    BY <1>2 DEF Update
  <2>2. /\ \A e \in Executors : phase[e] = "none"
        /\ Losing(remove) \in SUBSET Deployed
    BY <2>1 DEF TMTypes, TMTypeOK, Losing
  <2>3. /\ Phased' /\ ExecutorsApart' /\ Deployed' = Deployed
        /\ \A e \in Executors : Active(e)' => e \in Deployed
        /\ \A e \in Losing(remove) : Ending(e)'
    BY <2>1, <2>2, KillsBegin
  <2>4. \A e \in Deployed : e \in Executors /\ e \subseteq gpus
    BY <2>1 DEF TMTypes, TMTypeOK, PodInv, Within, Active
  <2>5. Owned'
    <3>1. ASSUME NEW e \in Deployed, NEW g \in e PROVE owner'[g] = e
      <4>1. g \notin add /\ g \in GPUs
        BY <1>2, <2>4, <3>1 DEF Executors
      <4>2. owner'[g] = owner[g]
        BY <2>1, <4>1 DEF Put, TMTypes, TMTypeOK
      <4> QED  BY <3>1, <4>2 DEF PodInv, Owned
    <3> QED  BY <2>3, <3>1 DEF Owned
  <2>6. Within'
    <3>1. ASSUME NEW e \in Executors, Active(e)' PROVE e \subseteq gpus' \/ Ending(e)'
      <4>1. e \in Deployed /\ e \subseteq gpus
        BY <2>3, <2>4, <3>1
      <4>2. CASE e \cap remove = {}
        BY <2>1, <4>1, <4>2
      <4>3. CASE e \cap remove # {}
        BY <2>3, <4>1, <4>3 DEF Losing
      <4> QED  BY <4>2, <4>3
    <3> QED  BY <2>1, <3>1 DEF Within
  <2>7. ByDoing'
    BY <2>1 DEF ByDoing
  <2> QED  BY <2>3, <2>5, <2>6, <2>7 DEF PodInv
<1> QED  BY <1>1, <1>2

LEMMA ShutdownKeeps ==
  ASSUME TMTypes, PodInv, Shutdown
  PROVE  PodInv'
<1>1. /\ doing = "idle" /\ doing' = "stopping" /\ phase' = Put(phase, Deployed, "kill")
      /\ UNCHANGED <<books, pods>> /\ UNCHANGED <<pod_names, deployments>>
  BY DEF Shutdown, books
<1>2. \A e \in Executors : phase[e] = "none"
  BY <1>1 DEF TMTypes, TMTypeOK
<1>3. /\ Phased' /\ ExecutorsApart' /\ Deployed' = Deployed
      /\ \A e \in Executors : Active(e)' => e \in Deployed
      /\ \A e \in Deployed : Ending(e)'
  <2>1. Deployed \in SUBSET Deployed
    OBVIOUS
  <2> QED  BY <1>1, <1>2, <2>1, KillsBegin
<1>4. Owned'
  BY <1>1, <1>3 DEF PodInv, Owned, books
<1>5. Within'
  <2>1. \A e \in Deployed : e \in Executors /\ e \subseteq gpus
    BY <1>1 DEF TMTypes, TMTypeOK, PodInv, Within, Active
  <2> QED  BY <1>1, <1>3, <2>1 DEF Within, books
<1>6. ByDoing'
  BY <1>1, <1>3 DEF ByDoing
<1> QED  BY <1>3, <1>4, <1>5, <1>6 DEF PodInv

LEMMA FinishKeeps ==
  ASSUME TMTypes, PodInv, Finish
  PROVE  PodInv'
<1>1. /\ \A e \in Executors : phase[e] = "none"
      /\ UNCHANGED <<books, phase, failed, pods>> /\ Deployed' = Deployed
  BY DEF Finish, AllSettled, books, Deployed
<1>2. /\ \A e \in Executors : (Active(e)' <=> Active(e)) /\ ~Ending(e)
      /\ doing \in {"spawning", "registering", "stopping"}
      /\ doing' \in {"idle", "stopped"}
      /\ doing' = "stopped" => doing = "stopping" \/ (doing = "registering" /\ failed)
  BY <1>1 DEF Finish, Active, Ending
<1>3. Phased' /\ ExecutorsApart' /\ Owned'
  BY <1>1, <1>2 DEF PodInv, Phased, PhaseOK, ExecutorsApart, Owned, books
<1>4. Within'
  BY <1>1, <1>2 DEF PodInv, Within, books
<1>5. ByDoing'
  BY <1>1, <1>2 DEF PodInv, ByDoing
<1> QED  BY <1>3, <1>4, <1>5 DEF PodInv

LEMMA StillKeeps ==
  ASSUME TMTypes, PodInv, Routed \/ Forgotten \/ UNCHANGED tmVars
  PROVE  PodInv'
<1>1. /\ UNCHANGED <<gpus, owner, pod_names, deployments, phase, failed, pods>>
      /\ Deployed' = Deployed
      /\ doing' = doing \/ (doing = "stopped" /\ doing' = "off")
  BY DEF Routed, Forgotten, tmVars, books, Deployed
<1>2. Phased' /\ ExecutorsApart' /\ Owned'
  BY <1>1 DEF PodInv, Phased, PhaseOK, ExecutorsApart, Owned, Active
<1>3. Within' /\ ByDoing'
  BY <1>1 DEF PodInv, Within, ByDoing, Active, Ending
<1> QED  BY <1>2, <1>3 DEF PodInv

PodsInv == TMTypes /\ (trouble # "api" => PodInv)

LEMMA PodsKept == PodsInv /\ Moves => PodsInv'
<1> SUFFICES ASSUME PodsInv, Moves PROVE PodsInv'
  OBVIOUS
<1>1. TMTypes /\ TMTypes'
  BY TypesKept DEF PodsInv
<1>2. trouble' = trouble
  BY DEF Moves, Register, Regroup, Finish, Shutdown, Routed, Forgotten, Update, Spawn, Healthy,
         Kill, Killed, PodUp, PodDies, PodEnds, PodMoves, tmVars
<1>3. ASSUME trouble # "api" PROVE PodInv'
  <2>1. PodInv
    BY <1>3 DEF PodsInv
  <2>2. CASE Register \/ Regroup \/ Finish \/ Shutdown
    BY <1>1, <2>1, <2>2, RegisterKeeps, RegroupKeeps, FinishKeeps, ShutdownKeeps
  <2>3. CASE Routed \/ Forgotten \/ UNCHANGED tmVars
    BY <1>1, <2>1, <2>3, StillKeeps
  <2>4. CASE \E add, remove \in SUBSET GPUs : Update(add, remove)
    BY <1>1, <2>1, <2>4, UpdateKeeps
  <2>5. CASE \E e \in Executors : Spawn(e) \/ Healthy(e) \/ Kill(e) \/ Killed(e)
    BY <1>1, <1>3, <2>1, <2>5, SpawnKeeps, HealthyKeeps, KillKeeps, KilledKeeps
  <2>6. CASE \E e \in Executors : PodUp(e) \/ PodDies(e) \/ PodEnds(e)
    BY <1>1, <2>1, <2>6, PodKeeps
  <2> QED  BY <2>2, <2>3, <2>4, <2>5, <2>6 DEF Moves
<1> QED  BY <1>1, <1>2, <1>3 DEF PodsInv

LEMMA PodsBegin == Init => PodsInv
<1> SUFFICES ASSUME Init PROVE PodsInv
  OBVIOUS
<1>1. /\ TMInit /\ Deployed = {} /\ deployments \in Seq(Executors)
      /\ OneToOne(deployments, Len(deployments))
  <2>1. deployments = <<>>
    BY DEF Init, TMInit
  <2>2. Range(<<>>) = {} /\ OneToOne(<<>>, Len(<<>>))
    <3>1. Len(<<>>) = 0 /\ DOMAIN <<>> = 1 .. 0
      OBVIOUS
    <3> QED  BY <3>1 DEF OneToOne, Range
  <2> QED  BY <2>1, <2>2 DEF Init, Deployed
<1>2. TMTypes
  <2>1. updates \in 0 .. MaxUpdates /\ rr_counter \in Nat /\ doing \in Doing
    BY <1>1, Facts DEF TMInit, Doing
  <2>2. phase \in [Executors -> Phases] /\ pods \in [Executors -> PodStates]
    BY <1>1 DEF TMInit, Phases, PodStates
  <2>3. owner \in [GPUs -> SUBSET GPUs] /\ gpus \subseteq GPUs /\ pod_names \subseteq Executors
    BY <1>1 DEF TMInit
  <2>4. trouble \in Troubles /\ failed \in BOOLEAN /\ \A e \in Executors : phase[e] = "none"
    BY <1>1 DEF TMInit
  <2> QED  BY <1>1, <2>1, <2>2, <2>3, <2>4 DEF TMTypes, TMTypeOK
<1>3. PodInv
  BY <1>1 DEF TMInit, PodInv, Phased, PhaseOK, ExecutorsApart, Owned, Within, ByDoing, Active
<1> QED  BY <1>2, <1>3 DEF PodsInv

(* No GPU is in two pods at the same time, unless a call of the Kubernetes  *)
(* API fails, however many GPUs and executors there are.                    *)
THEOREM NoGPUInTwoPods == Spec => []PodsAreDisjoint
<1>1. PodsInv /\ [Next]_vars => PodsInv'
  BY StepMoves, PodsKept
<1>2. PodsInv => PodsAreDisjoint
  BY DEF PodsInv, PodInv, ExecutorsApart, Active, PodsAreDisjoint
<1> QED  BY <1>1, <1>2, PodsBegin, PTL DEF Spec

(* What a call of the Resource Manager finds free when it is answered has   *)
(* no pod, and an executor keeps its GPUs while requests are routed to it.  *)
THEOREM FreedGPUsAreFree == Spec => []AnsweredAreFree
<1>1. PodsInv /\ [Next]_vars => PodsInv'
  BY StepMoves, PodsKept
<1>2. PodsInv => AnsweredAreFree
  <2>1. ASSUME PodsInv, trouble # "api", doing \in {"idle", "stopped", "off"},
               NEW e \in Executors, pods[e] # "none"
        PROVE  e \in Deployed /\ e \subseteq gpus
    <3>1. TMTypes /\ PodInv /\ Active(e) /\ phase[e] = "none"
      BY <2>1 DEF PodsInv, Active, TMTypes, TMTypeOK
    <3> QED  BY <2>1, <3>1, SettledAre DEF PodInv, Within
  <2> QED  BY <2>1 DEF PodsInv, PodInv, Owned, AnsweredAreFree
<1> QED  BY <1>1, <1>2, PodsBegin, PTL DEF Spec

-----------------------------------------------------------------------------
(* What the Resource Manager and the replicas keep.                         *)
RMTypes ==
  /\ rm \in RMStates /\ instance \in 0 .. MaxInstances
  /\ rm # "down" => instance # 0
  /\ told \subseteq Replicas /\ missed \in BOOLEAN
  /\ tables \in [Replicas -> Seq(1 .. instance)]
  /\ inv \in [Invocations -> InvStates] /\ found \in [Invocations -> 0 .. instance]
  /\ executor \in [Invocations -> SUBSET GPUs]

(* What the table of a replica is, when no notification is lost.            *)
TableOf(r) ==
  IF rm = "ready" \/ (rm = "notifying" /\ r \in told) \/ (rm = "leaving" /\ r \notin told)
  THEN <<instance>> ELSE <<>>
TablesInv == missed = FALSE /\ \A r \in Replicas : tables[r] = TableOf(r)

LEMMA PopKeeps ==
  ASSUME NEW S, NEW s \in Seq(S), NEW e
  PROVE  Pop(s, e) \in Seq(S)
<1>1. ASSUME NEW i \in DOMAIN s PROVE RemoveAt(s, i) \in Seq(S)
  BY SMT DEF RemoveAt
<1> QED  BY <1>1 DEF Pop, Range

LEMMA PopOnly == ASSUME NEW e PROVE Pop(<<e>>, e) = <<>>
<1>1. Len(<<e>>) = 1 /\ <<e>>[1] = e /\ DOMAIN <<e>> = {1}
  OBVIOUS
<1>2. (CHOOSE i \in DOMAIN <<e>> : <<e>>[i] = e) = 1
  BY <1>1
<1>3. RemoveAt(<<e>>, 1) = <<>>
  BY SMT DEF RemoveAt
<1>4. e \in Range(<<e>>)
  BY <1>1 DEF Range
<1> QED  BY <1>2, <1>3, <1>4 DEF Pop

(* A route goes to one of the executors that are deployed.                  *)
LEMMA RouteIs ==
  ASSUME TMTypes, deployments # <<>>
  PROVE  Route \in Deployed /\ Route \in SUBSET GPUs
<1> DEFINE n == Len(deployments)
           k == rr_counter % n
<1>1. deployments \in Seq(Executors) /\ rr_counter \in Nat
  BY DEF TMTypes, TMTypeOK
<1>2. n \in Nat \ {0} /\ DOMAIN deployments = 1 .. n
  BY <1>1
<1>3. Route = deployments[k + 1]
  BY DEF Route
<1> HIDE DEF n
<1>4. k \in Nat /\ k < n
  BY <1>1, <1>2, Division
<1> HIDE DEF k
<1>5. k + 1 \in DOMAIN deployments
  BY <1>2, <1>4
<1>6. Route \in Deployed
  BY <1>3, <1>5 DEF Deployed, Range
<1>7. Deployed \subseteq Executors
  BY DEF TMTypes, TMTypeOK
<1> QED  BY <1>6, <1>7 DEF Executors

LEMMA RMTypesKept == TMTypes /\ RMTypes /\ [Next]_vars => RMTypes'
<1> SUFFICES ASSUME TMTypes, RMTypes, [Next]_vars PROVE RMTypes'
  OBVIOUS
<1> USE DEF RMTypes, RMStates, InvStates
<1>1. MaxInstances \in Nat
  BY TaskDispatcherAssumption DEF TaskDispatcherAssumption
<1>2. CASE UNCHANGED Others
  BY <1>2 DEF Others, rmVars, invVars
<1>3. CASE Spawned
  BY <1>3 DEF Spawned, invVars
<1>4. CASE Told
  BY <1>4 DEF Told, invVars
<1>5. CASE Stop
  BY <1>5 DEF Stop, invVars
<1>6. CASE Stopped
  BY <1>6 DEF Stopped, invVars
<1>7. ASSUME NEW r \in Replicas, Notify(r) PROVE RMTypes'
  <2>1. instance \in 1 .. instance
    BY <1>1, <1>7 DEF Notify
  <2>2. Append(tables[r], instance) \in Seq(1 .. instance) /\ WithoutInstance(r) \in Seq(1 .. instance)
    BY <2>1, PopKeeps DEF WithoutInstance
  <2>3. tables' \in [Replicas -> Seq(1 .. instance)]
    BY <1>7, <2>2 DEF Notify
  <2> QED  BY <1>7, <2>3 DEF Notify, invVars
<1>8. ASSUME NEW v \in Invocations, GetRoute(v) PROVE RMTypes'
  <2>1. executor' \in [Invocations -> SUBSET GPUs]
    BY <1>8, RouteIs DEF GetRoute
  <2>2. inv' \in [Invocations -> InvStates]
    BY <1>8 DEF GetRoute
  <2> QED  BY <1>8, <2>1, <2>2 DEF GetRoute, rmVars
<1>9. ASSUME NEW v \in Invocations, Post(v) \/ ChannelClosed(v) PROVE RMTypes'
  BY <1>9 DEF Post, ChannelClosed, rmVars
<1>10. CASE Deploy
  <2>1. instance' \in 0 .. MaxInstances /\ instance' = instance + 1 /\ instance \in Nat /\ rm' = "spawning"
    BY <1>1, <1>10 DEF Deploy
  <2>2. \A s \in Seq(1 .. instance) : s \in Seq(1 .. instance')
    <3>1. 1 .. instance \subseteq 1 .. instance'
      BY <2>1
    <3> QED  BY <3>1, SeqMonotonic
  <2>3. tables' \in [Replicas -> Seq(1 .. instance')]
    BY <1>10, <2>2 DEF Deploy
  <2>4. found' \in [Invocations -> 0 .. instance']
    BY <1>10, <2>1 DEF Deploy, invVars
  <2> QED  BY <1>10, <2>1, <2>3, <2>4 DEF Deploy, invVars
<1>11. CASE Teardown
  BY <1>11 DEF Teardown, invVars
<1>12. CASE Scale
  BY <1>12 DEF Scale, rmVars, invVars
<1>13. ASSUME NEW v \in Invocations, NEW r \in Replicas, Invoke(v, r) PROVE RMTypes'
  <2>1. tables[r] # <<>> => Lookup(r) \in 0 .. instance
    BY DEF Lookup
  <2> QED  BY <1>13, <2>1 DEF Invoke, rmVars
<1> QED
  BY <1>2, <1>3, <1>4, <1>5, <1>6, <1>7, <1>8, <1>9, <1>10, <1>11, <1>12, <1>13
     DEF Next, Progress, Kubernetes, Free, Rest, vars, Others

LEMMA TablesKept == RMTypes /\ TablesInv /\ trouble # "net" /\ [Next]_vars => TablesInv'
<1> SUFFICES ASSUME RMTypes, TablesInv, trouble # "net", [Next]_vars PROVE TablesInv'
  OBVIOUS
<1> USE DEF TablesInv, TableOf
<1>1. CASE UNCHANGED rmVars
  BY <1>1 DEF rmVars
<1>2. CASE Spawned
  BY <1>2 DEF Spawned
<1>3. CASE Told
  BY <1>3 DEF Told
<1>4. CASE Stop
  BY <1>4 DEF Stop
<1>5. CASE Stopped
  BY <1>5 DEF Stopped
<1>6. ASSUME NEW r \in Replicas, Notify(r) PROVE TablesInv'
  <2>1. /\ rm' = rm /\ instance' = instance /\ told' = told \cup {r} /\ missed' = missed
        /\ tables' = [tables EXCEPT ![r] = IF rm = "notifying" THEN Append(@, instance) ELSE WithoutInstance(r)]
        /\ rm \in {"notifying", "leaving"} /\ r \notin told
    BY <1>6 DEF Notify
  <2>2. tables'[r] = IF rm = "notifying" THEN <<instance>> ELSE <<>>
    <3>1. CASE rm = "notifying"
      <4>1. tables[r] = <<>> /\ tables'[r] = Append(tables[r], instance)
        BY <2>1, <3>1 DEF RMTypes
      <4>2. Append(<<>>, instance) = <<instance>>
        OBVIOUS
      <4> QED  BY <3>1, <4>1, <4>2
    <3>2. CASE rm = "leaving"
      <4>1. tables[r] = <<instance>> /\ tables'[r] = Pop(tables[r], instance)
        BY <2>1, <3>2 DEF RMTypes, WithoutInstance
      <4> QED  BY <3>2, <4>1, PopOnly
    <3> QED  BY <2>1, <3>1, <3>2
  <2>3. \A q \in Replicas : q # r => tables'[q] = tables[q]
    BY <2>1 DEF RMTypes
  <2> QED  BY <2>1, <2>2, <2>3
<1>7. CASE Deploy
  BY <1>7 DEF Deploy
<1>8. CASE Teardown
  BY <1>8 DEF Teardown
<1>9. CASE Scale
  BY <1>1, <1>9 DEF Scale
<1>10. CASE \E v \in Invocations, r \in Replicas : Invoke(v, r)
  BY <1>1, <1>10 DEF Invoke
<1>11. CASE \E v \in Invocations : GetRoute(v) \/ Post(v) \/ ChannelClosed(v)
  BY <1>1, <1>11 DEF GetRoute, Post, ChannelClosed
<1>12. CASE UNCHANGED Others \/ UNCHANGED vars
  BY <1>1, <1>12 DEF Others, vars
<1>13. CASE Progress
  BY <1>2, <1>3, <1>4, <1>5, <1>6, <1>11, <1>12, <1>13 DEF Progress
<1>14. CASE Free
  BY <1>7, <1>8, <1>9, <1>10, <1>11, <1>12, <1>14 DEF Free
<1>15. CASE Kubernetes \/ Rest \/ \E e \in Executors : Work(e) /\ UNCHANGED Others
  BY <1>12, <1>15 DEF Kubernetes, Rest
<1> QED  BY <1>12, <1>13, <1>14, <1>15 DEF Next

(* The replicas of the dispatcher, and the Task Manager below them.         *)
FoundInv == TMTypes /\ RMTypes /\ (trouble # "net" => TablesInv)

LEMMA FoundBegin == Init => FoundInv
<1> SUFFICES ASSUME Init PROVE FoundInv
  OBVIOUS
<1>1. TMTypes
  BY PodsBegin DEF PodsInv
<1>2. RMTypes
  <2>1. MaxInstances \in Nat
    BY TaskDispatcherAssumption DEF TaskDispatcherAssumption
  <2>2. instance \in 0 .. MaxInstances /\ instance = 0
    BY <2>1 DEF Init
  <2>3. tables \in [Replicas -> Seq(1 .. instance)]
    BY DEF Init
  <2>4. /\ inv \in [Invocations -> InvStates] /\ found \in [Invocations -> 0 .. instance]
        /\ executor \in [Invocations -> SUBSET GPUs]
    BY <2>2 DEF Init, InvStates
  <2> QED  BY <2>2, <2>3, <2>4 DEF RMTypes, Init, RMStates
<1>3. TablesInv
  BY DEF Init, TablesInv, TableOf
<1> QED  BY <1>1, <1>2, <1>3 DEF FoundInv

(* Whoever looks the task up while it is ready finds the instance that      *)
(* runs, at every replica, however often it was deployed and torn down and  *)
(* whatever the Kubernetes API does, as long as no notification is lost.    *)
THEOREM RunningInstanceIsFound == Spec => []FoundWhenTold
<1>1. FoundInv /\ [Next]_vars => FoundInv'
  <2> SUFFICES ASSUME FoundInv, [Next]_vars PROVE FoundInv'
    OBVIOUS
  <2>1. TMTypes' /\ RMTypes'
    BY StepMoves, TypesKept, RMTypesKept DEF FoundInv
  <2>2. trouble' = trouble
    BY StepMoves DEF Moves, Register, Regroup, Finish, Shutdown, Routed, Forgotten, Update, Spawn,
       Healthy, Kill, Killed, PodUp, PodDies, PodEnds, PodMoves, tmVars
  <2> QED  BY <2>1, <2>2, TablesKept DEF FoundInv
<1>2. FoundInv => FoundWhenTold
  <2> SUFFICES ASSUME FoundInv PROVE FoundWhenTold
    OBVIOUS
  <2>1. TypeOK
    BY DEF FoundInv, TMTypes, RMTypes, TypeOK
  <2>2. ASSUME trouble # "net", rm = "ready", NEW r \in Replicas
        PROVE  tables[r] # <<>> /\ Lookup(r) = instance
    <3>1. tables[r] = <<instance>>
      BY <2>2 DEF FoundInv, TablesInv, TableOf
    <3> QED  BY <3>1 DEF Lookup
  <2> QED  BY <2>1, <2>2 DEF FoundWhenTold, RunningIsFound
<1> QED  BY <1>1, <1>2, FoundBegin, PTL DEF Spec

=============================================================================
