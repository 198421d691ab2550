--------------------------- MODULE Registry_proofs ---------------------------
(***************************************************************************)
(* For any tasks, descriptors, imports, requests and services: what waits  *)
(* in a registry has a reason to, and who has been synced has loaded what  *)
(* the sync has waited for, unless a deletion has overtaken it.            *)
(***************************************************************************)
EXTENDS Registry, FiniteSetTheorems, WellFoundedInduction, TLAPS

LEMMA KindIs ==
  /\ \A n \in Names : Kind(n) \in Kinds /\ n \in NamesOf(Kind(n))
  /\ \A k \in Kinds : NamesOf(k) \subseteq Names /\ \A n \in NamesOf(k) : Kind(n) = k
BY RegistryAssumption DEF Names, Kinds, Kind, NamesOf

(* A task imports itself, so to speak, and what its imports import.         *)
LEMMA ClosureIs ==
  \A t \in Tasks :
    /\ t \in Closure[t] /\ Closure[t] \subseteq Tasks
    /\ \A u \in Closure[t] : Closure[u] \subseteq Closure[t]
    /\ \A S \in SUBSET Tasks : t \in S /\ ImportClosed(S) => Closure[t] \subseteq S
<1> DEFINE In(t) == { u \in Tasks : \A S \in SUBSET Tasks : t \in S /\ ImportClosed(S) => u \in S }
<1>1. \A t \in Tasks : Closure[t] = In(t)
  BY DEF Closure
<1>2. ASSUME NEW t \in Tasks
      PROVE  \A S \in SUBSET Tasks : t \in S /\ ImportClosed(S) => In(t) \subseteq S
  OBVIOUS
<1>3. ASSUME NEW t \in Tasks PROVE t \in In(t) /\ In(t) \subseteq Tasks
  OBVIOUS
<1>4. ASSUME NEW t \in Tasks, NEW u \in In(t) PROVE In(u) \subseteq In(t)
  <2>1. u \in Tasks
    OBVIOUS
  <2>2. ASSUME NEW v \in In(u), NEW S \in SUBSET Tasks, t \in S, ImportClosed(S) PROVE v \in S
    <3>1. u \in S
      BY <2>2
    <3> QED  BY <2>1, <2>2, <3>1
  <2> QED  BY <1>3, <2>1, <2>2
<1> HIDE DEF In
<1> QED  BY <1>1, <1>2, <1>3, <1>4

-----------------------------------------------------------------------------
(* One registry. *)
Known(reg) == reg.tasks \cup reg.waiting \cup reg.descriptors \cup reg.queued

Reasons(reg) ==
  /\ reg.waiting \subseteq reg.files
  /\ \A t \in reg.waiting : ~Importable(reg.files, t)
  /\ \A d \in reg.queued : TaskOf[d] \notin reg.tasks
  /\ \A t \in reg.tasks : Importable(reg.files, t)
  /\ \A d \in reg.descriptors : TaskOf[d] \in reg.tasks

Grows(reg, new) ==
  /\ reg.tasks \subseteq new.tasks /\ reg.descriptors \subseteq new.descriptors
  /\ Known(reg) \subseteq Known(new)

LEMMA LoadType ==
  ASSUME NEW reg \in Registries, NEW n \in Names
  PROVE  Load(reg, n) \in Registries
<1>1. n \in Tasks \/ n \in Descriptors
  BY DEF Names
<1> QED
  BY <1>1 DEF Load, LoadTask, LoadDescriptor, Registries, BindPending, BindDescriptors, Names

LEMMA ImportableIs ==
  ASSUME NEW files \in SUBSET Names, NEW t \in Tasks
  PROVE  /\ \A more \in SUBSET Names : files \subseteq more /\ Importable(files, t) => Importable(more, t)
         /\ \A d \in SUBSET Descriptors : Importable(files \cup d, t) => Importable(files, t)
         /\ \A u \in Tasks : Importable(files \cup {u}, t) /\ ~Importable(files, t)
                              => Importable(files \cup {u}, u)
<1>1. Closure[t] \subseteq Tasks /\ \A u \in Closure[t] : Closure[u] \subseteq Closure[t]
  BY ClosureIs
<1>2. Tasks \cap Descriptors = {}
  BY RegistryAssumption
<1> QED  BY <1>1, <1>2 DEF Importable

LEMMA LoadTaskHolds ==
  ASSUME NEW reg \in Registries, Reasons(reg), NEW t \in Tasks
  PROVE  /\ Reasons(LoadTask(reg, t)) /\ Grows(reg, LoadTask(reg, t))
         /\ t \in Known(LoadTask(reg, t))
<1> DEFINE with == reg.files \cup {t}
           new == LoadTask(reg, t)
<1>1. /\ reg.files \subseteq Names /\ reg.tasks \subseteq Tasks /\ reg.waiting \subseteq Tasks
      /\ reg.descriptors \subseteq Descriptors /\ reg.queued \subseteq Descriptors
      /\ with \subseteq Names
  BY DEF Registries, Names
<1>2. CASE Importable(with, t)
  <2> DEFINE bound == BindPending(reg, t)
             found == BindDescriptors(reg, bound)
  <2>1. /\ new.files = with \cup found /\ new.tasks = reg.tasks \cup bound
        /\ new.waiting = reg.waiting \ bound /\ new.descriptors = reg.descriptors \cup found
        /\ new.queued = reg.queued \ found
    BY <1>2 DEF LoadTask
  <2>2. /\ bound = {t} \cup { w \in reg.waiting : Importable(with, w) }
        /\ found = { d \in reg.queued : TaskOf[d] \in bound }
    BY DEF BindPending, BindDescriptors
  <2> HIDE DEF bound, found, new, with
  <2>3. found \subseteq Descriptors /\ bound \subseteq Tasks /\ with \cup found \subseteq Names
    BY <1>1, <2>2 DEF Names
  <2>4. new.waiting \subseteq new.files
    BY <2>1 DEF Reasons, with
  <2>5. ASSUME NEW w \in new.waiting PROVE ~Importable(new.files, w)
    <3>1. w \in Tasks /\ ~Importable(with, w)
      BY <1>1, <2>1, <2>2
    <3>2. with \in SUBSET Names /\ found \in SUBSET Descriptors
      BY <1>1, <2>3
    <3>3. Importable(with \cup found, w) => Importable(with, w)
      BY <3>1, <3>2, ImportableIs
    <3> QED  BY <2>1, <3>1, <3>3
  <2>6. ASSUME NEW d \in new.queued PROVE TaskOf[d] \notin new.tasks
    BY <2>1, <2>2 DEF Reasons
  <2>7. ASSUME NEW u \in new.tasks PROVE Importable(new.files, u)
    <3>1. CASE u \in reg.tasks
      <4>1. u \in Tasks /\ Importable(reg.files, u) /\ reg.files \subseteq new.files
        BY <1>1, <2>1, <3>1 DEF Reasons, with
      <4> QED  BY <1>1, <2>1, <2>3, <4>1, ImportableIs
    <3>2. CASE u \in bound
      <4>1. u \in Tasks /\ Importable(with, u) /\ with \subseteq new.files
        BY <1>2, <2>1, <2>2, <2>3, <3>2
      <4> QED  BY <1>1, <2>1, <2>3, <4>1, ImportableIs
    <3> QED  BY <2>1, <3>1, <3>2
  <2>8. ASSUME NEW d \in new.descriptors PROVE TaskOf[d] \in new.tasks
    BY <2>1, <2>2 DEF Reasons
  <2>9. Grows(reg, new) /\ t \in Known(new)
    BY <2>1, <2>2 DEF Grows, Known
  <2> QED  BY <2>4, <2>5, <2>6, <2>7, <2>8, <2>9 DEF Reasons, new
<1>3. CASE ~Importable(with, t)
  <2>1. /\ new.files = with /\ new.tasks = reg.tasks /\ new.waiting = reg.waiting \cup {t}
        /\ new.descriptors = reg.descriptors /\ new.queued = reg.queued
    BY <1>3 DEF LoadTask, Registries
  <2> HIDE DEF new
  <2>2. ASSUME NEW w \in new.waiting PROVE ~Importable(with, w)
    <3>1. CASE w = t
      BY <1>3, <3>1
    <3>2. CASE w \in reg.waiting
      <4>1. w \in Tasks /\ ~Importable(reg.files, w)
        BY <1>1, <3>2 DEF Reasons
      <4> QED  BY <1>1, <1>3, <4>1, ImportableIs
    <3> QED  BY <2>1, <3>1, <3>2
  <2>3. ASSUME NEW u \in reg.tasks PROVE Importable(with, u)
    <3>1. u \in Tasks /\ Importable(reg.files, u)
      BY <1>1 DEF Reasons
    <3> QED  BY <1>1, <3>1, ImportableIs
  <2>4. Reasons(new)
    BY <2>1, <2>2, <2>3 DEF Reasons
  <2> QED  BY <2>1, <2>4 DEF Grows, Known, new
<1> QED  BY <1>2, <1>3

LEMMA LoadHolds ==
  ASSUME NEW reg \in Registries, Reasons(reg), NEW n \in Names
  PROVE  Reasons(Load(reg, n)) /\ Grows(reg, Load(reg, n)) /\ n \in Known(Load(reg, n))
<1>1. CASE n \in Tasks
  BY <1>1, LoadTaskHolds DEF Load
<1>2. CASE n \notin Tasks
  <2> DEFINE new == LoadDescriptor(reg, n)
  <2>1. n \in Descriptors /\ Load(reg, n) = new
    BY <1>2 DEF Names, Load
  <2>2. CASE TaskOf[n] \in reg.tasks
    <3>1. /\ new.files = reg.files \cup {n} /\ new.tasks = reg.tasks /\ new.waiting = reg.waiting
          /\ new.descriptors = reg.descriptors \cup {n} /\ new.queued = reg.queued
      BY <2>2 DEF LoadDescriptor, Registries
    <3> HIDE DEF new
    <3>2. /\ reg.tasks \subseteq Tasks /\ reg.waiting \subseteq Tasks
          /\ reg.files \subseteq Names /\ reg.files \cup {n} \subseteq Names
      BY DEF Registries
    <3>3. \A t \in reg.waiting : ~Importable(reg.files \cup {n}, t)
      <4>1. {n} \in SUBSET Descriptors
        BY <2>1
      <4> QED  BY <3>2, <4>1, ImportableIs DEF Reasons
    <3>4. \A t \in reg.tasks : Importable(reg.files \cup {n}, t)
      BY <3>2, ImportableIs DEF Reasons
    <3>5. Reasons(new)
      BY <2>2, <3>1, <3>3, <3>4 DEF Reasons
    <3> QED  BY <2>1, <3>1, <3>5 DEF Grows, Known
  <2>3. CASE TaskOf[n] \notin reg.tasks
    <3>1. /\ new.files = reg.files /\ new.tasks = reg.tasks /\ new.waiting = reg.waiting
          /\ new.descriptors = reg.descriptors /\ new.queued = reg.queued \cup {n}
      BY <2>3 DEF LoadDescriptor, Registries
    <3> HIDE DEF new
    <3>2. Reasons(new)
      BY <2>3, <3>1 DEF Reasons
    <3> QED  BY <2>1, <3>1, <3>2 DEF Grows, Known
  <2> QED  BY <2>2, <2>3
<1> QED  BY <1>1, <1>2

LEMMA LeastExists ==
  ASSUME NEW T, T \subseteq Nat, T # {}
  PROVE  Min(T) \in T /\ \A n \in T : Min(T) <= n
<1> DEFINE R == { ss \in Nat \X Nat : ss[1] < ss[2] }
<1>1. IsWellFoundedOn(R, Nat)
  BY NatLessThanWellFounded DEF OpToRel
<1>2. \A a, b \in Nat : a < b => <<a, b>> \in R
  OBVIOUS
<1> HIDE DEF R
<1>3. PICK m \in T : \A n \in T : ~(<<n, m>> \in R)
  BY <1>1, WFMin
<1>4. \A n \in T : m <= n
  <2>1. ASSUME NEW n \in T PROVE m <= n
    <3>1. m \in Nat /\ n \in Nat
      OBVIOUS
    <3>2. ~(n < m)
      BY <1>2, <1>3, <3>1
    <3> QED  BY <3>1, <3>2
  <2> QED  BY <2>1
<1> QED  BY <1>4 DEF Min

(* The registries while the objects of a list are handled. *)
Loads(f, reg, q, m) ==
  f[0] = reg /\ \A i \in 1 .. m : f[i] = Load(f[i - 1], q[i])

LEMMA LoadsHolds ==
  ASSUME NEW reg \in Registries, NEW q \in Seq(Names)
  PROVE  \E f \in [0 .. Len(q) -> Registries] : Loads(f, reg, q, Len(q))
<1> DEFINE T == { m \in 0 .. Len(q) : ~\E f \in [0 .. m -> Registries] : Loads(f, reg, q, m) }
<1>1. Len(q) \in Nat /\ \A i \in 1 .. Len(q) : q[i] \in Names
  OBVIOUS
<1>2. SUFFICES ASSUME T # {} PROVE FALSE
  BY <1>1
<1>3. PICK m \in T : \A n \in T : m <= n
  <2>1. T \subseteq Nat
    BY <1>1
  <2> HIDE DEF T
  <2> QED  BY <1>2, <2>1, LeastExists
<1>4. m # 0
  <2>1. Loads([i \in 0 .. 0 |-> reg], reg, q, 0)
    BY DEF Loads
  <2>2. [i \in 0 .. 0 |-> reg] \in [0 .. 0 -> Registries]
    OBVIOUS
  <2> QED  BY <2>1, <2>2
<1>5. m - 1 \in 0 .. Len(q) /\ m - 1 \notin T /\ m \in 1 .. Len(q)
  <2>1. m \in 0 .. Len(q)
    OBVIOUS
  <2>2. m - 1 \in 0 .. Len(q) /\ m \in 1 .. Len(q) /\ ~(m <= m - 1)
    BY <1>1, <1>4, <2>1
  <2> HIDE DEF T
  <2> QED  BY <1>3, <2>2
<1>6. PICK f \in [0 .. m - 1 -> Registries] : Loads(f, reg, q, m - 1)
  BY <1>5
<1> DEFINE next == Load(f[m - 1], q[m])
           g == [i \in 0 .. m |-> IF i = m THEN next ELSE f[i]]
<1>7. /\ m \in Nat /\ m - 1 \in 0 .. m - 1 /\ 0 \in 0 .. m - 1
      /\ \A i \in 1 .. m : i = m \/ i \in 1 .. m - 1
      /\ \A i \in 1 .. m - 1 : i \in 0 .. m - 1 /\ i - 1 \in 0 .. m - 1
      /\ \A i \in 0 .. m - 1 : i \in 0 .. m /\ i # m
      /\ \A i \in 0 .. m : i = m \/ i \in 0 .. m - 1
      /\ m \in 0 .. m
  BY <1>1, <1>5
<1>8. next \in Registries
  BY <1>1, <1>5, <1>6, <1>7, LoadType
<1> HIDE DEF next
<1>9. g \in [0 .. m -> Registries]
  BY <1>7, <1>8
<1>10. g[m] = next /\ \A i \in 0 .. m - 1 : g[i] = f[i]
  BY <1>7
<1> HIDE DEF g
<1>11. Loads(g, reg, q, m)
  <2>1. g[0] = reg
    BY <1>6, <1>7, <1>10 DEF Loads
  <2>2. g[m] = Load(g[m - 1], q[m])
    BY <1>7, <1>10 DEF next
  <2>3. \A i \in 1 .. m - 1 : g[i] = Load(g[i - 1], q[i])
    BY <1>6, <1>7, <1>10 DEF Loads
  <2> QED  BY <1>7, <2>1, <2>2, <2>3 DEF Loads
<1> QED  BY <1>3, <1>9, <1>11

(* Whatever the order of a list, all its objects are known in the end.      *)
LEMMA LoadAllHolds ==
  ASSUME NEW reg \in Registries, Reasons(reg), NEW q \in Seq(Names)
  PROVE  /\ LoadAll(reg, q) \in Registries /\ Reasons(LoadAll(reg, q))
         /\ Grows(reg, LoadAll(reg, q))
         /\ \A i \in 1 .. Len(q) : q[i] \in Known(LoadAll(reg, q))
<1> DEFINE Is(f) == f = [i \in 0 .. Len(q) |-> IF i = 0 THEN reg ELSE Load(f[i - 1], q[i])]
           F == CHOOSE f : Is(f)
<1>1. Len(q) \in Nat /\ \A i \in 1 .. Len(q) : q[i] \in Names
  OBVIOUS
<1>2. PICK f \in [0 .. Len(q) -> Registries] : Loads(f, reg, q, Len(q))
  BY LoadsHolds
<1>3. Is(f)
  <2>1. \A i \in 0 .. Len(q) : i = 0 \/ i \in 1 .. Len(q)
    BY <1>1
  <2>2. \A i \in 0 .. Len(q) : f[i] = IF i = 0 THEN reg ELSE Load(f[i - 1], q[i])
    BY <1>2, <2>1 DEF Loads
  <2> QED  BY <2>2
<1>4. Is(F)
  BY <1>3
<1>5. LoadAll(reg, q) = F[Len(q)]
  BY DEF LoadAll
<1> HIDE DEF F
<1>6. \A i \in 0 .. Len(q) : F[i] = IF i = 0 THEN reg ELSE Load(F[i - 1], q[i])
  BY <1>4, Zenon
<1> HIDE DEF Is
<1> DEFINE Good(n) == /\ F[n] \in Registries /\ Reasons(F[n]) /\ Grows(reg, F[n])
                      /\ \A i \in 1 .. n : q[i] \in Known(F[n])
           T == { n \in 0 .. Len(q) : ~Good(n) }
<1>7. Good(0)
  <2>1. F[0] = reg
    BY <1>1, <1>6
  <2> QED  BY <2>1 DEF Grows
<1>8. ASSUME NEW n \in 1 .. Len(q), Good(n - 1) PROVE Good(n)
  <2>1. F[n] = Load(F[n - 1], q[n]) /\ q[n] \in Names
    <3>1. n \in 0 .. Len(q) /\ n # 0
      BY <1>1
    <3> QED  BY <1>1, <1>6, <3>1
  <2>2. /\ F[n] \in Registries /\ Reasons(F[n]) /\ Grows(F[n - 1], F[n])
        /\ q[n] \in Known(F[n])
    BY <1>8, <2>1, LoadType, LoadHolds
  <2>3. \A i \in 1 .. n : i = n \/ i \in 1 .. n - 1
    BY <1>1
  <2>4. Grows(reg, F[n])
    BY <1>8, <2>2 DEF Grows
  <2>5. \A i \in 1 .. n : q[i] \in Known(F[n])
    BY <1>8, <2>2, <2>3 DEF Grows
  <2> QED  BY <2>2, <2>4, <2>5
<1> HIDE DEF Good
<1>9. T = {}
  <2> SUFFICES ASSUME T # {} PROVE FALSE
    OBVIOUS
  <2>1. T \subseteq Nat
    BY <1>1
  <2>2. PICK n \in T : \A m \in T : n <= m
    <3> HIDE DEF T
    <3> QED  BY <2>1, LeastExists
  <2>3. n # 0
    BY <1>7, <2>2
  <2>4. n \in 1 .. Len(q) /\ n - 1 \in 0 .. Len(q) /\ n - 1 \notin T
    BY <1>1, <2>2, <2>3
  <2> QED  BY <1>8, <2>2, <2>4
<1>10. Good(Len(q))
  BY <1>1, <1>9
<1> QED  BY <1>5, <1>10 DEF Good

-----------------------------------------------------------------------------
(* The history of Kubernetes, as Stays has it, over any log.                *)
Came(h, n, v) ==
  \E i \in DOMAIN h :
    /\ i < v /\ h[i] = <<n, TRUE>>
    /\ \A j \in DOMAIN h : i < j => h[j] # <<n, FALSE>>

Histories == Seq(Names \X BOOLEAN)

LEMMA CameIs ==
  ASSUME NEW h \in Histories, NEW n, NEW v \in Nat, Came(h, n, v)
  PROVE  n \in Names /\ v > 0 /\ \A w \in Nat : v <= w => Came(h, n, w)
<1>1. PICK i \in DOMAIN h : i < v /\ h[i] = <<n, TRUE>> /\ \A j \in DOMAIN h : i < j => h[j] # <<n, FALSE>>
  BY DEF Came
<1>2. i \in Nat /\ i > 0 /\ h[i] \in Names \X BOOLEAN
  BY DEF Histories
<1>3. n \in Names
  BY <1>1, <1>2
<1>4. \A w \in Nat : v <= w => i < w
  BY <1>1, <1>2
<1>5. \A w \in Nat : v <= w => Came(h, n, w)
  BY <1>1, <1>4 DEF Came
<1> QED  BY <1>1, <1>2, <1>3, <1>5

LEMMA AppendIs ==
  ASSUME NEW S, NEW h \in Seq(S), NEW e \in S
  PROVE  /\ Append(h, e) \in Seq(S) /\ Len(Append(h, e)) = Len(h) + 1 /\ Len(h) \in Nat
         /\ DOMAIN h = 1 .. Len(h) /\ DOMAIN Append(h, e) = 1 .. Len(h) + 1
         /\ Append(h, e)[Len(h) + 1] = e /\ \A i \in 1 .. Len(h) : Append(h, e)[i] = h[i]
OBVIOUS

LEMMA AddedIs ==
  ASSUME NEW h \in Histories, NEW m \in Names
  PROVE  LET new == Append(h, <<m, TRUE>>)
         IN /\ new \in Histories /\ Len(new) = Len(h) + 1
            /\ DOMAIN new = DOMAIN h \cup {Len(h) + 1} /\ new[Len(h) + 1] = <<m, TRUE>>
            /\ \A i \in DOMAIN h : new[i] = h[i]
            /\ \A n : \A v \in Nat : Came(h, n, v) => Came(new, n, v)
            /\ \A n : \A v \in Nat : v <= Len(h) + 1 /\ Came(new, n, v) => Came(h, n, v)
            /\ \A v \in Nat : v > Len(h) + 1 => Came(new, m, v)
            /\ \A n : \A v \in Nat : Came(new, n, v) => n = m \/ Came(h, n, v)
<1> DEFINE new == Append(h, <<m, TRUE>>)
<1>1. /\ new \in Histories /\ Len(new) = Len(h) + 1 /\ Len(h) \in Nat
      /\ DOMAIN h = 1 .. Len(h) /\ DOMAIN new = 1 .. Len(h) + 1
      /\ new[Len(h) + 1] = <<m, TRUE>> /\ \A i \in 1 .. Len(h) : new[i] = h[i]
  <2> DEFINE e == <<m, TRUE>>
             S == Names \X BOOLEAN
  <2>1. h \in Seq(S) /\ e \in S /\ new = Append(h, e) /\ Histories = Seq(S)
    BY DEF Histories
  <2> HIDE DEF e, S, new
  <2>2. /\ new \in Histories /\ Len(new) = Len(h) + 1 /\ Len(h) \in Nat
        /\ DOMAIN h = 1 .. Len(h) /\ DOMAIN new = 1 .. Len(h) + 1
        /\ new[Len(h) + 1] = e /\ \A i \in 1 .. Len(h) : new[i] = h[i]
    BY <2>1, AppendIs
  <2> QED  BY <2>2 DEF e
<1> HIDE DEF new
<1>2. /\ DOMAIN new = DOMAIN h \cup {Len(h) + 1} /\ Len(h) + 1 \in DOMAIN new
      /\ \A i \in DOMAIN h : i \in DOMAIN new /\ new[i] = h[i] /\ i < Len(h) + 1
      /\ \A i \in DOMAIN new : i \in DOMAIN h \/ i = Len(h) + 1
      /\ \A i \in DOMAIN new : i \in Nat
  BY <1>1
<1>3. TRUE # FALSE
  OBVIOUS
<1>4. ASSUME NEW n, NEW v \in Nat, Came(h, n, v) PROVE Came(new, n, v)
  <2>1. PICK i \in DOMAIN h : i < v /\ h[i] = <<n, TRUE>> /\ \A j \in DOMAIN h : i < j => h[j] # <<n, FALSE>>
    BY <1>4 DEF Came
  <2>2. \A j \in DOMAIN new : i < j => new[j] # <<n, FALSE>>
    <3>1. <<m, TRUE>> # <<n, FALSE>>
      OBVIOUS
    <3> QED  BY <1>1, <1>2, <2>1, <3>1
  <2> QED  BY <1>2, <2>1, <2>2 DEF Came
<1>5. ASSUME NEW n, NEW v \in Nat, Came(new, n, v) PROVE n = m \/ Came(h, n, v)
  <2>1. PICK i \in DOMAIN new : i < v /\ new[i] = <<n, TRUE>> /\ \A j \in DOMAIN new : i < j => new[j] # <<n, FALSE>>
    BY <1>5 DEF Came
  <2>2. CASE i \in DOMAIN h
    BY <1>2, <2>1, <2>2 DEF Came
  <2>3. CASE i = Len(h) + 1
    BY <1>1, <2>1, <2>3
  <2> QED  BY <1>2, <2>2, <2>3
<1>6. ASSUME NEW n, NEW v \in Nat, v <= Len(h) + 1, Came(new, n, v) PROVE Came(h, n, v)
  <2>1. PICK i \in DOMAIN new : i < v /\ new[i] = <<n, TRUE>> /\ \A j \in DOMAIN new : i < j => new[j] # <<n, FALSE>>
    BY <1>6 DEF Came
  <2>2. i \in DOMAIN h
    BY <1>1, <1>2, <1>6, <2>1
  <2> QED  BY <1>2, <2>1, <2>2 DEF Came
<1>7. ASSUME NEW v \in Nat, v > Len(h) + 1 PROVE Came(new, m, v)
  <2>1. \A j \in DOMAIN new : ~(Len(h) + 1 < j)
    BY <1>1, <1>2
  <2> QED  BY <1>1, <1>2, <1>7, <2>1 DEF Came
<1> QED  BY <1>1, <1>2, <1>4, <1>5, <1>6, <1>7 DEF new

(* What a list of version v has. *)
ListOf(h, v) ==
  { n \in Names : \E i \in 1 .. v - 1 :
      h[i] = <<n, TRUE>> /\ \A j \in i + 1 .. v - 1 : h[j] # <<n, FALSE>> }

LEMMA ListOfIs ==
  ASSUME NEW h \in Histories
  PROVE  /\ \A n : n \in ListOf(h, Len(h) + 1) <=> Came(h, n, Len(h) + 1)
         /\ \A n : \A v \in Nat : v <= Len(h) + 1 /\ Came(h, n, v) => n \in ListOf(h, v)
<1>1. Len(h) \in Nat /\ DOMAIN h = 1 .. Len(h)
  BY DEF Histories
<1> DEFINE end == Len(h) + 1
<1>2. ASSUME NEW n, NEW v \in Nat, v <= end, Came(h, n, v) PROVE n \in ListOf(h, v)
  <2>1. PICK i \in DOMAIN h : i < v /\ h[i] = <<n, TRUE>> /\ \A j \in DOMAIN h : i < j => h[j] # <<n, FALSE>>
    BY <1>2 DEF Came
  <2>2. i \in 1 .. v - 1 /\ \A j \in i + 1 .. v - 1 : j \in DOMAIN h /\ i < j
    BY <1>1, <1>2, <2>1
  <2>3. n \in Names
    BY <1>2, CameIs
  <2> QED  BY <2>1, <2>2, <2>3 DEF ListOf
<1>3. ASSUME NEW n, n \in ListOf(h, end) PROVE Came(h, n, end)
  <2>1. PICK i \in 1 .. end - 1 : h[i] = <<n, TRUE>> /\ \A j \in i + 1 .. end - 1 : h[j] # <<n, FALSE>>
    BY <1>3 DEF ListOf
  <2>2. i \in DOMAIN h /\ i < end /\ \A j \in DOMAIN h : i < j => j \in i + 1 .. end - 1
    BY <1>1
  <2> QED  BY <2>1, <2>2 DEF Came
<1>4. end \in Nat
  BY <1>1
<1>5. \A n : n \in ListOf(h, end) <=> Came(h, n, end)
  BY <1>2, <1>3, <1>4
<1> QED  BY <1>2, <1>5

LEMMA PresentIs ==
  ASSUME log \in Histories
  PROVE  /\ Version \in Nat /\ Version > 0
         /\ \A n : n \in Present <=> Came(log, n, Version)
         /\ \A n : \A v \in Nat : v <= Version /\ Came(log, n, v) => n \in PresentAt(v)
         /\ \A v : PresentAt(v) \subseteq Names
<1>1. \A v : PresentAt(v) = ListOf(log, v) /\ PresentAt(v) \subseteq Names
  BY DEF PresentAt, ListOf
<1>2. Version = Len(log) + 1 /\ Version \in Nat /\ Version > 0
  BY DEF Version, Histories
<1> QED  BY <1>1, <1>2, ListOfIs DEF Present

LEMMA StaysIs ==
  ASSUME log \in Histories, NEW n, NEW v
  PROVE  Stays(n, v) <=> Came(log, n, v)
<1>1. DOMAIN log = 1 .. Len(log) /\ Len(log) \in Nat /\ Version - 1 = Len(log)
  BY DEF Histories, Version
<1>2. \A i \in DOMAIN log : \A j : j \in i + 1 .. Version - 1 <=> j \in DOMAIN log /\ i < j
  BY <1>1
<1> QED  BY <1>1, <1>2 DEF Stays, Came

LEMMA UnseenIs ==
  ASSUME TypeOK, NEW s \in Services, NEW k \in Kinds
  PROVE  /\ Unseen(s, k) = { i \in DOMAIN log : log[i][1] \in NamesOf(k) /\ i >= rv[s][k] }
         /\ Unseen(s, k) \subseteq Nat
<1>1. Len(log) \in Nat /\ DOMAIN log = 1 .. Len(log) /\ Version = Len(log) + 1
  BY DEF TypeOK, Version
<1>2. Version - 1 = Len(log)
  BY <1>1
<1> QED  BY <1>1, <1>2 DEF Unseen, EventsOf

(* The order in which a list is handled. *)
LEMMA ListIs ==
  ASSUME NEW S \in SUBSET Names, NEW q \in Bijection(1 .. Cardinality(S), S)
  PROVE  q \in Seq(Names) /\ \A n \in S : \E i \in 1 .. Len(q) : q[i] = n
<1>1. Cardinality(S) \in Nat
  BY RegistryAssumption, FS_Subset, FS_CardinalityType
<1>2. q \in [1 .. Cardinality(S) -> S] /\ \A n \in S : \E i \in 1 .. Cardinality(S) : q[i] = n
  BY DEF Bijection, Injection, Surjection
<1>3. q \in Seq(S) /\ Len(q) = Cardinality(S)
  BY <1>1, <1>2
<1> QED  BY <1>2, <1>3

-----------------------------------------------------------------------------
(* What waits has a reason to. *)
InBatch == request \in {"creating", "syncing"} => batch <= Len(Batches)

Base == TypeOK /\ InBatch /\ \A s \in Services : Reasons(registry[s])

LEMMA BatchesAre ==
  Len(Batches) \in Nat /\ \A m \in 1 .. Len(Batches) : Batches[m] \subseteq Names
BY RegistryAssumption

LEMMA NothingIs ==
  /\ Nothing \in Registries /\ Reasons(Nothing)
  /\ \A reg \in Registries : Reasons(reg) =>
       PurgeLocal(reg) \in Registries /\ Reasons(PurgeLocal(reg))
  /\ Zero \in [Kinds -> Nat]
<1>1. Nothing \in Registries /\ Reasons(Nothing)
  BY DEF Nothing, Registries, Reasons
<1>2. Zero \in [Kinds -> Nat]
  BY DEF Zero
<1> QED  BY <1>1, <1>2 DEF PurgeLocal

LEMMA InitBase ==
  ASSUME Init
  PROVE  Base
<1>1. Control \subseteq Services /\ <<>> \in Seq(Names \X BOOLEAN) /\ 1 \in 1 .. Len(Batches) + 1
  BY BatchesAre DEF Services
<1>2. TypeOK
  BY <1>1, NothingIs DEF Init, TypeOK, Requests, States
<1>3. \A s \in Services : Reasons(registry[s])
  BY NothingIs DEF Init
<1> QED  BY <1>2, <1>3 DEF Base, InBatch, Init

(* The steps of the gateway leave the registries of the services alone.     *)
LEMMA GatewayBase ==
  ASSUME Base, Deploy \/ RequestFails \/ Purge \/ Record \/ Synced \/ Purged
  PROVE  Base'
<1> USE DEF Base, TypeOK, InBatch, Requests, k8sVars, requestVars, watchVars, syncVars
<1>1. CASE Deploy
  <2>1. batch' \in 1 .. Len(Batches)
    BY <1>1, BatchesAre DEF Deploy
  <2>2. todo' \subseteq Names
    BY <1>1, <2>1, BatchesAre DEF Deploy
  <2>3. batch' <= Len(Batches) /\ batch' \in 1 .. Len(Batches) + 1
    BY <2>1, BatchesAre
  <2> QED  BY <1>1, <2>2, <2>3, NothingIs DEF Deploy
<1>2. CASE RequestFails
  BY <1>2 DEF RequestFails
<1>3. CASE Purge
  BY <1>3, BatchesAre DEF Purge
<1>4. CASE Record
  <2>1. batch \in 1 .. Len(Batches)
    BY <1>4, BatchesAre DEF Record
  <2> QED  BY <1>4, <2>1, BatchesAre DEF Record, Services
<1>5. CASE Synced
  <2>1. batch + 1 \in 1 .. Len(Batches) + 1
    BY <1>5, BatchesAre DEF Synced
  <2> QED  BY <1>5, <2>1 DEF Synced
<1>6. CASE Purged
  BY <1>6 DEF Purged
<1> QED  BY <1>1, <1>2, <1>3, <1>4, <1>5, <1>6

LEMMA LogBase ==
  ASSUME Base, NEW n \in Names, Create(n) \/ Delete(n)
  PROVE  Base'
<1> USE DEF Base, TypeOK, InBatch, Requests, k8sVars, requestVars, watchVars, syncVars
<1>1. \A e \in BOOLEAN : Append(log, <<n, e>>) \in Seq(Names \X BOOLEAN)
  <2>1. ASSUME NEW e \in BOOLEAN PROVE Append(log, <<n, e>>) \in Seq(Names \X BOOLEAN)
    <3> DEFINE x == <<n, e>>
               S == Names \X BOOLEAN
    <3>1. log \in Seq(S) /\ x \in S
      OBVIOUS
    <3> HIDE DEF x, S
    <3>2. Append(log, x) \in Seq(S)
      BY <3>1, AppendIs
    <3> QED  BY <3>2 DEF x, S
  <2> QED  BY <2>1
<1>2. CASE Create(n)
  <2>1. CASE n \in Present
    BY <1>2, <2>1 DEF Create
  <2>2. CASE n \notin Present
    <3>1. log' \in Seq(Names \X BOOLEAN)
      BY <1>1, <1>2, <2>2 DEF Create
    <3>2. newest' \in [Kinds -> Nat]
      <4>1. Version + 1 \in Nat
        BY DEF Version
      <4> HIDE DEF Version
      <4> QED  BY <1>2, <2>2, <4>1 DEF Create
    <3> QED  BY <1>2, <3>1, <3>2 DEF Create
  <2> QED  BY <2>1, <2>2
<1>3. CASE Delete(n)
  <2>1. log' \in Seq(Names \X BOOLEAN)
    BY <1>1, <1>3 DEF Delete
  <2> QED  BY <1>3, <2>1 DEF Delete
<1> QED  BY <1>2, <1>3

LEMMA WatchBase ==
  ASSUME Base, NEW s \in Services, NEW k \in Kinds, Watch(s, k) \/ Expire(s, k)
  PROVE  Base'
<1> USE DEF Base, TypeOK, InBatch, k8sVars, requestVars, syncVars
<1>1. CASE ListObjects(s, k)
  <2>1. Version \in Nat
    BY PresentIs DEF Histories
  <2> HIDE DEF Version
  <2> QED  BY <1>1, <2>1 DEF ListObjects
<1>2. CASE HandleList(s, k)
  <2> DEFINE objects == PresentAt(listing[s][k]) \cap NamesOf(k)
  <2>1. PICK q \in Bijection(1 .. Cardinality(objects), objects) :
          registry' = [registry EXCEPT ![s] = LoadAll(registry[s], q)]
    BY <1>2 DEF HandleList
  <2>2. q \in Seq(Names)
    BY <2>1, KindIs, ListIs
  <2>3. registry[s] \in Registries /\ Reasons(registry[s])
    OBVIOUS
  <2>4. LoadAll(registry[s], q) \in Registries /\ Reasons(LoadAll(registry[s], q))
    BY <2>2, <2>3, LoadAllHolds
  <2> HIDE DEF objects
  <2>5. registry' \in [Services -> Registries] /\ \A x \in Services : Reasons(registry'[x])
    BY <2>1, <2>4
  <2>6. rv' \in [Services -> [Kinds -> Nat]] /\ listing' \in [Services -> [Kinds -> Nat]]
    BY <1>2 DEF HandleList
  <2> QED  BY <1>2, <2>5, <2>6 DEF HandleList
<1>3. CASE HandleEvent(s, k)
  <2> DEFINE i == Min(Unseen(s, k))
             new == IF log[i][2] THEN Load(registry[s], log[i][1]) ELSE PurgeLocal(registry[s])
  <2>0. overtaken' \subseteq Services
    BY <1>3 DEF HandleEvent
  <2>1. i \in Unseen(s, k) /\ Unseen(s, k) \subseteq DOMAIN log /\ i \in Nat
    <3>1. Unseen(s, k) # {}
      BY <1>3 DEF HandleEvent
    <3>2. Unseen(s, k) \subseteq Nat /\ Unseen(s, k) \subseteq DOMAIN log
      BY UnseenIs
    <3>3. i \in Unseen(s, k)
      BY <3>1, <3>2, LeastExists
    <3> QED  BY <3>2, <3>3
  <2>2. log[i][1] \in Names
    BY <2>1
  <2>3. registry' = [registry EXCEPT ![s] = new] /\ rv' = [rv EXCEPT ![s][k] = i + 1]
    BY <1>3 DEF HandleEvent
  <2>4. registry[s] \in Registries /\ Reasons(registry[s])
    OBVIOUS
  <2>5. new \in Registries /\ Reasons(new)
    BY <2>2, <2>4, LoadType, LoadHolds, NothingIs
  <2> HIDE DEF new, i
  <2>6. registry' \in [Services -> Registries] /\ \A x \in Services : Reasons(registry'[x])
    BY <2>3, <2>5
  <2>7. rv' \in [Services -> [Kinds -> Nat]]
    BY <2>1, <2>3
  <2> QED  BY <1>3, <2>0, <2>6, <2>7 DEF HandleEvent
<1>4. CASE Expire(s, k)
  BY <1>4 DEF Expire
<1> QED  BY <1>1, <1>2, <1>3, <1>4 DEF Watch

LEMMA FreshBase ==
  ASSUME Base, NEW s \in Services, Fresh(s)
  PROVE  /\ registry' \in [Services -> Registries] /\ \A x \in Services : Reasons(registry'[x])
         /\ rv' \in [Services -> [Kinds -> Nat]] /\ listing' \in [Services -> [Kinds -> Nat]]
         /\ target' \in [Services -> [Kinds -> Nat] \cup {<<>>}]
         /\ hoped' \in [Services -> SUBSET Names] /\ promised' \in [Services -> SUBSET Names]
         /\ overtaken' \subseteq Services
<1> USE DEF Base, TypeOK
<1>1. registry' \in [Services -> Registries] /\ \A x \in Services : Reasons(registry'[x])
  BY NothingIs DEF Fresh
<1>2. rv' \in [Services -> [Kinds -> Nat]] /\ listing' \in [Services -> [Kinds -> Nat]]
  BY NothingIs DEF Fresh
<1> QED  BY <1>1, <1>2 DEF Fresh

LEMMA ServiceBase ==
  ASSUME Base, NEW s \in Services, Sync(s) \/ Start(s) \/ Register(s) \/ Stop(s)
  PROVE  Base'
<1> USE DEF Base, TypeOK, InBatch, States, k8sVars, requestVars, watchVars, syncVars
<1>1. CASE SyncBegins(s)
  <2>1. PICK v \in [Kinds -> Nat], S \in SUBSET Names :
          target' = [target EXCEPT ![s] = v] /\ hoped' = [hoped EXCEPT ![s] = S]
    <3>1. Zero \in [Kinds -> Nat] /\ latest \in [Kinds -> Nat] /\ WaitedFor \in SUBSET Names
      BY NothingIs DEF WaitedFor
    <3>2. \/ target' = [target EXCEPT ![s] = latest] /\ hoped' = [hoped EXCEPT ![s] = WaitedFor]
          \/ target' = [target EXCEPT ![s] = Zero] /\ hoped' = [hoped EXCEPT ![s] = {}]
      BY <1>1 DEF SyncBegins
    <3> QED  BY <3>1, <3>2
  <2>2. target' \in [Services -> [Kinds -> Nat] \cup {<<>>}] /\ hoped' \in [Services -> SUBSET Names]
    BY <2>1
  <2> QED  BY <1>1, <2>2 DEF SyncBegins
<1>2. CASE SyncEnds(s)
  BY <1>2 DEF SyncEnds
<1>3. CASE Start(s)
  BY <1>3, FreshBase DEF Start
<1>4. CASE Register(s)
  BY <1>4 DEF Register
<1>5. CASE Stop(s)
  BY <1>5, FreshBase DEF Stop
<1> QED  BY <1>1, <1>2, <1>3, <1>4, <1>5 DEF Sync

LEMMA StutterBase ==
  ASSUME Base, UNCHANGED vars
  PROVE  Base'
BY DEF Base, TypeOK, InBatch, vars, k8sVars, requestVars, watchVars, syncVars

LEMMA StepBase ==
  ASSUME Base, [Next]_vars
  PROVE  Base'
BY GatewayBase, LogBase, WatchBase, ServiceBase, StutterBase DEF Next, Handler

(* A task waits only for modules that have not come, and a descriptor only  *)
(* for its task, in whatever order the watchers bring them.                 *)
THEOREM WaitingHasAReason == Spec => []WaitsForAReason
<1>1. Base => WaitsForAReason
  BY DEF Base, Reasons, WaitsForAReason
<1>2. Spec => []Base
  BY InitBase, StepBase, PTL DEF Spec
<1> QED  BY <1>1, <1>2, PTL

-----------------------------------------------------------------------------
(* Where the client is in its requests. *)
Phases ==
  /\ request = "creating" => todo \subseteq Batches[batch]
  /\ request = "deleting" => batch = 1 /\ deployed = {}
  /\ request \in {"idle", "creating"} => Earlier(batch - 1) \subseteq deployed
  /\ request = "syncing" => Earlier(batch) \subseteq deployed
  /\ Closed(deployed)

(* What is there, and from which version. *)
Logged ==
  /\ deployed \subseteq Present
  /\ request = "creating" => Batches[batch] \ todo \subseteq Present
  /\ \A n \in deployed : latest[Kind(n)] > 0 => Came(log, n, latest[Kind(n)])

Newest ==
  request = "creating" =>
    \A k \in Kinds : newest[k] > 0 => \A i \in DOMAIN log : log[i][1] \in NamesOf(k) => i < newest[k]

(* What is there and came before the version that a watcher has reached is  *)
(* known, unless a deletion has overtaken it.                               *)
Reach(s, k) ==
  /\ rv[s][k] <= Version /\ listing[s][k] <= Version
  /\ listing[s][k] > 0 => rv[s][k] = 0

Knows(s, k) == \A n \in NamesOf(k) : Came(log, n, rv[s][k]) => n \in Known(registry[s])

Watched ==
  \A s \in Services, k \in Kinds : Reach(s, k) /\ (s \notin overtaken => Knows(s, k))

(* A sync waits for all that it hopes for. *)
Hopes ==
  \A s \in Services :
    /\ hoped[s] \subseteq deployed /\ promised[s] \subseteq deployed /\ Closed(hoped[s])
    /\ target[s] # <<>> => \A n \in hoped[s] : Came(log, n, target[s][Kind(n)])

SyncInv == Base /\ Phases /\ Logged /\ Newest /\ Watched /\ Hopes /\ PromisedAreLoaded
Goal == Phases /\ Logged /\ Newest /\ Watched /\ Hopes /\ PromisedAreLoaded

LEMMA EarlierIs ==
  Earlier(0) = {} /\ \A m \in 1 .. Len(Batches) : Earlier(m) = Earlier(m - 1) \cup Batches[m]
<1>1. ASSUME NEW m \in 1 .. Len(Batches) PROVE Earlier(m) = Earlier(m - 1) \cup Batches[m]
  <2>1. m \in 1 .. m /\ \A i \in 1 .. m : i = m \/ i \in 1 .. m - 1
    BY BatchesAre
  <2>2. \A i \in 1 .. m - 1 : i \in 1 .. m
    BY BatchesAre
  <2> QED  BY <2>1, <2>2 DEF Earlier
<1> QED  BY <1>1 DEF Earlier

LEMMA CameIsPresent ==
  ASSUME log \in Histories, NEW n, NEW v, Came(log, n, v)
  PROVE  n \in Present
<1>1. PICK i \in DOMAIN log : log[i] = <<n, TRUE>> /\ \A j \in DOMAIN log : i < j => log[j] # <<n, FALSE>>
  BY DEF Came
<1>2. i < Version
  BY <1>1 DEF Version, Histories
<1>3. Came(log, n, Version)
  BY <1>1, <1>2 DEF Came
<1> QED  BY <1>3, PresentIs

LEMMA SameWatched ==
  ASSUME Watched, UNCHANGED <<log, registry, rv, listing, overtaken>>
  PROVE  Watched'
BY DEF Watched, Reach, Knows, Version

LEMMA SameHopes ==
  ASSUME Hopes, UNCHANGED <<log, hoped, promised>>, deployed \subseteq deployed',
         \A s \in Services : target'[s] = target[s] \/ target'[s] = <<>>
  PROVE  Hopes'
BY DEF Hopes

LEMMA SamePromised ==
  ASSUME PromisedAreLoaded, UNCHANGED <<registry, promised, overtaken>>,
         \A s \in Services : Alive(s)' => Alive(s)
  PROVE  PromisedAreLoaded'
BY DEF PromisedAreLoaded, Loaded

LEMMA SameGateway ==
  ASSUME Phases, Logged, Newest, UNCHANGED <<log, latest, request, batch, todo, newest, deployed>>
  PROVE  Phases' /\ Logged' /\ Newest'
BY DEF Phases, Logged, Newest, Present, PresentAt, Version

-----------------------------------------------------------------------------
(* Each step of the gateway. *)
LEMMA DeployHolds ==
  ASSUME SyncInv, Deploy
  PROVE  Goal'
<1>1. /\ request' = "creating" /\ todo' = Batches[batch'] /\ newest' = Zero
      /\ UNCHANGED <<log, latest, deployed, state, registry, rv, listing, overtaken, target, hoped, promised>>
  BY DEF Deploy, k8sVars, watchVars, syncVars
<1>2. Earlier(batch' - 1) \subseteq deployed
  BY EarlierIs DEF Deploy, SyncInv, Phases
<1>3. Phases'
  BY <1>1, <1>2 DEF SyncInv, Phases
<1>4. Logged'
  <2>1. Present' = Present
    BY <1>1 DEF Present, PresentAt, Version
  <2> QED  BY <1>1, <2>1 DEF SyncInv, Logged
<1>5. Newest'
  BY <1>1 DEF Newest, Zero
<1>6. Watched' /\ Hopes' /\ PromisedAreLoaded'
  BY <1>1, SameWatched, SameHopes, SamePromised DEF SyncInv, Alive
<1> QED  BY <1>3, <1>4, <1>5, <1>6 DEF Goal

LEMMA CreateHolds ==
  ASSUME SyncInv, NEW n \in Names, Create(n)
  PROVE  Goal'
<1>1. /\ request = "creating" /\ n \in todo /\ todo' = todo \ {n}
      /\ UNCHANGED <<latest, request, batch, deployed, state, registry, rv, listing, overtaken,
                     target, hoped, promised>>
  BY DEF Create, watchVars, syncVars
<1>2. /\ todo \subseteq Batches[batch] /\ log \in Histories /\ newest \in [Kinds -> Nat]
      /\ deployed \subseteq Present /\ Batches[batch] \ todo \subseteq Present
  BY <1>1 DEF SyncInv, Base, TypeOK, Phases, Logged, Histories
<1>3. Kind(n) \in Kinds /\ \A k \in Kinds : n \in NamesOf(k) => k = Kind(n)
  BY KindIs
<1>4. Phases'
  BY <1>1 DEF SyncInv, Phases
<1>5. CASE n \in Present
  <2>1. UNCHANGED <<log, newest>>
    BY <1>5 DEF Create
  <2>2. Present' = Present
    BY <2>1 DEF Present, PresentAt, Version
  <2>3. Logged'
    BY <1>1, <1>2, <1>5, <2>1, <2>2 DEF SyncInv, Logged
  <2>4. Newest'
    BY <1>1, <2>1 DEF SyncInv, Newest
  <2>5. Watched' /\ Hopes' /\ PromisedAreLoaded'
    BY <1>1, <2>1, SameWatched, SameHopes, SamePromised DEF SyncInv, Alive
  <2> QED  BY <1>4, <2>3, <2>4, <2>5 DEF Goal
<1>6. CASE n \notin Present
  <2> DEFINE new == Append(log, <<n, TRUE>>)
  <2>1. log' = new /\ newest' = [newest EXCEPT ![Kind(n)] = Version + 1]
    BY <1>6 DEF Create
  <2>2. /\ log' \in Histories /\ Version = Len(log) + 1 /\ Version' = Version + 1 /\ Version \in Nat
        /\ DOMAIN log' = DOMAIN log \cup {Version} /\ log'[Version] = <<n, TRUE>>
        /\ \A i \in DOMAIN log : log'[i] = log[i] /\ i < Version /\ i \in Nat
        /\ \A m : \A v \in Nat : Came(log, m, v) => Came(log', m, v)
        /\ \A m : \A v \in Nat : v <= Version /\ Came(log', m, v) => Came(log, m, v)
        /\ Came(log', n, Version')
        /\ \A m : \A v \in Nat : Came(log', m, v) => m = n \/ Came(log, m, v)
    <3>1. Version = Len(log) + 1 /\ Version' = Len(log') + 1 /\ Len(log) \in Nat
      BY <1>2 DEF Version, Histories
    <3>2. \A i \in DOMAIN log : i < Len(log) + 1 /\ i \in Nat
      BY <1>2 DEF Histories
    <3>3. /\ log' \in Histories /\ Len(log') = Len(log) + 1
          /\ DOMAIN log' = DOMAIN log \cup {Len(log) + 1} /\ log'[Len(log) + 1] = <<n, TRUE>>
          /\ \A i \in DOMAIN log : log'[i] = log[i]
          /\ \A m : \A v \in Nat : Came(log, m, v) => Came(log', m, v)
          /\ \A m : \A v \in Nat : v <= Len(log) + 1 /\ Came(log', m, v) => Came(log, m, v)
          /\ \A v \in Nat : v > Len(log) + 1 => Came(log', n, v)
          /\ \A m : \A v \in Nat : Came(log', m, v) => m = n \/ Came(log, m, v)
      BY <1>2, <2>1, AddedIs
    <3>4. Version' = Version + 1 /\ Version' \in Nat /\ Version' > Len(log) + 1
      BY <3>1, <3>3
    <3> HIDE DEF new
    <3> QED  BY <3>1, <3>2, <3>3, <3>4
  <2> HIDE DEF new
  <2>3. Present' = Present \cup {n}
    <3>1. \A m : m \in Present <=> Came(log, m, Version)
      BY <1>2, PresentIs
    <3>2. \A m : m \in Present' <=> Came(log', m, Version')
      <4>1. Present' = ListOf(log', Len(log') + 1) /\ Version' = Len(log') + 1
        BY DEF Present, PresentAt, Version, ListOf
      <4> QED  BY <2>2, <4>1, ListOfIs
    <3>3. Version' \in Nat /\ Version <= Version'
      BY <2>2
    <3>4. \A m : Came(log, m, Version) => Came(log', m, Version')
      BY <1>2, <2>2, <3>3, CameIs
    <3>5. \A m : Came(log', m, Version') => m = n \/ Came(log, m, Version')
      BY <2>2, <3>3
    <3>6. \A m : Came(log, m, Version') => m \in Present
      BY <1>2, CameIsPresent
    <3> QED  BY <2>2, <3>1, <3>2, <3>4, <3>5, <3>6
  <2>4. Logged'
    <3>1. \A m \in deployed : latest[Kind(m)] > 0 => Came(log', m, latest[Kind(m)])
      <4>1. \A m \in deployed : latest[Kind(m)] \in Nat
        BY KindIs DEF SyncInv, Base, TypeOK
      <4> QED  BY <2>2, <4>1 DEF SyncInv, Logged
    <3> QED  BY <1>1, <1>2, <2>3, <3>1 DEF Logged
  <2>5. Newest'
    <3>1. ASSUME NEW k \in Kinds, newest'[k] > 0
          PROVE  \A i \in DOMAIN log' : log'[i][1] \in NamesOf(k) => i < newest'[k]
      <4>1. CASE k = Kind(n)
        <5>1. newest'[k] = Version + 1
          BY <1>2, <2>1, <4>1
        <5>2. \A i \in DOMAIN log' : i < Version + 1
          BY <2>2
        <5> QED  BY <5>1, <5>2
      <4>2. CASE k # Kind(n)
        <5>1. newest'[k] = newest[k] /\ n \notin NamesOf(k)
          BY <1>2, <1>3, <2>1, <4>2
        <5>2. \A i \in DOMAIN log' : log'[i][1] \in NamesOf(k) => i \in DOMAIN log /\ log[i][1] \in NamesOf(k)
          BY <2>2, <5>1
        <5> QED  BY <1>1, <3>1, <5>1, <5>2 DEF SyncInv, Newest
      <4> QED  BY <4>1, <4>2
    <3> QED  BY <3>1 DEF Newest
  <2>6. Watched'
    <3>1. ASSUME NEW s \in Services, NEW k \in Kinds
          PROVE  (Reach(s, k) /\ (s \notin overtaken => Knows(s, k)))'
      <4>1. /\ rv[s][k] \in Nat /\ listing[s][k] \in Nat
            /\ Reach(s, k) /\ (s \notin overtaken => Knows(s, k))
        BY DEF SyncInv, Base, TypeOK, Watched
      <4>2. Reach(s, k)'
        BY <1>1, <2>2, <4>1 DEF Reach
      <4>3. Knows(s, k) => Knows(s, k)'
        BY <1>1, <2>2, <4>1 DEF Knows, Reach
      <4> QED  BY <1>1, <4>1, <4>2, <4>3
    <3> QED  BY <3>1 DEF Watched
  <2>7. Hopes'
    <3>1. \A s \in Services : target[s] # <<>> => \A m \in hoped[s] : target[s][Kind(m)] \in Nat
      BY KindIs DEF SyncInv, Base, TypeOK
    <3> QED  BY <1>1, <2>2, <3>1 DEF SyncInv, Hopes
  <2>8. PromisedAreLoaded'
    BY <1>1, SamePromised DEF SyncInv, Alive
  <2> QED  BY <1>4, <2>4, <2>5, <2>6, <2>7, <2>8 DEF Goal
<1> QED  BY <1>5, <1>6

LEMMA RecordHolds ==
  ASSUME SyncInv, Record
  PROVE  Goal'
<1>1. /\ request = "creating" /\ todo = {} /\ latest' = newest
      /\ deployed' = deployed \cup Batches[batch] /\ request' = "syncing"
      /\ UNCHANGED <<log, batch, state, registry, rv, listing, overtaken, target, hoped, promised>>
  BY DEF Record, watchVars, syncVars
<1>2. /\ batch \in 1 .. Len(Batches) /\ Earlier(batch - 1) \subseteq deployed /\ Closed(deployed)
      /\ Batches[batch] \subseteq Present /\ deployed \subseteq Present /\ log \in Histories
  BY <1>1, BatchesAre DEF SyncInv, Base, InBatch, TypeOK, Phases, Logged, Histories
<1>3. Earlier(batch) = Earlier(batch - 1) \cup Batches[batch]
  BY <1>2, EarlierIs
<1>4. Phases'
  <2>1. batch \in 0 .. Len(Batches)
    BY <1>2, BatchesAre
  <2>2. Closed(Earlier(batch)) /\ deployed' = deployed \cup Earlier(batch)
    BY <1>1, <1>2, <1>3, <2>1, SelfContained
  <2>3. Closed(deployed')
    BY <1>2, <2>2 DEF Closed
  <2> QED  BY <1>1, <2>2, <2>3 DEF Phases
<1>5. Present' = Present
  BY <1>1 DEF Present, PresentAt, Version
<1>6. ASSUME NEW n \in deployed', newest[Kind(n)] > 0 PROVE Came(log, n, newest[Kind(n)])
  <2>1. n \in Present
    BY <1>1, <1>2, <1>6
  <2>2. n \in Names /\ Kind(n) \in Kinds /\ n \in NamesOf(Kind(n))
    BY <1>2, <2>1, PresentIs, KindIs DEF Present
  <2>3. PICK i \in DOMAIN log : log[i] = <<n, TRUE>> /\ \A j \in DOMAIN log : i < j => log[j] # <<n, FALSE>>
    BY <1>2, <2>1, PresentIs DEF Came
  <2>4. log[i][1] \in NamesOf(Kind(n))
    BY <2>2, <2>3
  <2>5. i < newest[Kind(n)]
    BY <1>1, <1>6, <2>2, <2>4 DEF SyncInv, Newest
  <2> QED  BY <2>3, <2>5 DEF Came
<1>7. Logged'
  BY <1>1, <1>2, <1>5, <1>6 DEF Logged
<1>8. Newest'
  BY <1>1 DEF Newest
<1>9. Watched' /\ Hopes' /\ PromisedAreLoaded'
  BY <1>1, SameWatched, SameHopes, SamePromised DEF SyncInv, Alive
<1> QED  BY <1>4, <1>7, <1>8, <1>9 DEF Goal

LEMMA AnsweredHolds ==
  ASSUME SyncInv, Synced \/ RequestFails \/ Purged
  PROVE  Goal'
<1>1. /\ UNCHANGED <<log, latest, deployed, state, registry, rv, listing, overtaken, hoped, promised>>
      /\ \A s \in Services : target'[s] = target[s] \/ target'[s] = <<>>
  BY DEF Synced, RequestFails, Purged, k8sVars, watchVars, syncVars
<1>2. Watched' /\ Hopes' /\ PromisedAreLoaded'
  BY <1>1, SameWatched, SameHopes, SamePromised DEF SyncInv, Alive
<1>3. Present' = Present
  BY <1>1 DEF Present, PresentAt, Version
<1>4. request' \in {"idle", "failed"}
  BY DEF Synced, RequestFails, Purged
<1>5. Logged' /\ Newest'
  BY <1>1, <1>3, <1>4 DEF SyncInv, Logged, Newest
<1>6. Phases'
  <2>1. CASE Synced
    <3>1. request = "syncing" /\ batch' = batch + 1 /\ batch \in Nat
      BY <2>1 DEF Synced, SyncInv, Base, TypeOK
    <3>2. batch' - 1 = batch
      BY <3>1
    <3> QED  BY <1>1, <1>4, <3>1, <3>2 DEF SyncInv, Phases
  <2>2. CASE RequestFails
    BY <1>1, <2>2 DEF RequestFails, SyncInv, Phases
  <2>3. CASE Purged
    <3>1. batch' = 1 /\ request' = "idle"
      BY <2>3 DEF Purged, SyncInv, Phases
    <3>2. Earlier(batch' - 1) = {}
      BY <3>1, EarlierIs
    <3> QED  BY <1>1, <3>1, <3>2 DEF SyncInv, Phases
  <2> QED  BY <2>1, <2>2, <2>3
<1> QED  BY <1>2, <1>5, <1>6 DEF Goal

LEMMA PurgeHolds ==
  ASSUME SyncInv, Purge
  PROVE  Goal'
<1>1. /\ request' = "deleting" /\ batch' = 1 /\ deployed' = {}
      /\ hoped' = [s \in Services |-> {}] /\ promised' = [s \in Services |-> {}]
      /\ UNCHANGED <<log, registry, rv, listing, overtaken>>
  BY DEF Purge, k8sVars, watchVars
<1>2. Closed({})
  BY DEF Closed
<1>3. Phases' /\ Logged' /\ Newest'
  BY <1>1, <1>2 DEF Phases, Logged, Newest
<1>4. Watched'
  BY <1>1, SameWatched DEF SyncInv
<1>5. Hopes' /\ PromisedAreLoaded'
  BY <1>1, <1>2 DEF Hopes, PromisedAreLoaded
<1> QED  BY <1>3, <1>4, <1>5 DEF Goal

LEMMA DeleteHolds ==
  ASSUME SyncInv, NEW n \in Names, Delete(n)
  PROVE  Goal'
<1>1. /\ request = "deleting" /\ log' = Append(log, <<n, FALSE>>)
      /\ UNCHANGED <<latest, request, batch, todo, deployed, state, registry, rv, listing, overtaken,
                     target, hoped, promised>>
  BY DEF Delete, requestVars, watchVars, syncVars
<1>2. deployed = {} /\ log \in Histories
  BY <1>1 DEF SyncInv, Base, TypeOK, Phases, Histories
<1>3. Phases' /\ Logged' /\ Newest'
  BY <1>1, <1>2 DEF SyncInv, Phases, Logged, Newest
<1>4. /\ Version \in Nat /\ Version' = Version + 1 /\ DOMAIN log \subseteq DOMAIN log'
      /\ \A i \in DOMAIN log' : (i \in DOMAIN log /\ log'[i] = log[i]) \/ log'[i] = <<n, FALSE>>
      /\ \A i \in DOMAIN log : log'[i] = log[i]
  <2> DEFINE e == <<n, FALSE>>
             S == Names \X BOOLEAN
  <2>1. log \in Seq(S) /\ e \in S /\ log' = Append(log, e)
    BY <1>1, <1>2 DEF Histories
  <2> HIDE DEF e, S
  <2>2. /\ Len(log') = Len(log) + 1 /\ Len(log) \in Nat /\ DOMAIN log = 1 .. Len(log)
        /\ DOMAIN log' = 1 .. Len(log) + 1 /\ log'[Len(log) + 1] = e
        /\ \A i \in 1 .. Len(log) : log'[i] = log[i]
    BY <2>1, AppendIs
  <2>3. \A i \in 1 .. Len(log) + 1 : i \in 1 .. Len(log) \/ i = Len(log) + 1
    BY <2>2
  <2>4. Version \in Nat /\ Version' = Version + 1 /\ DOMAIN log \subseteq DOMAIN log'
    BY <2>2 DEF Version
  <2> QED  BY <2>2, <2>3, <2>4 DEF e
<1>5. ASSUME NEW m, NEW v, Came(log', m, v) PROVE Came(log, m, v)
  <2>1. PICK i \in DOMAIN log' :
          i < v /\ log'[i] = <<m, TRUE>> /\ \A j \in DOMAIN log' : i < j => log'[j] # <<m, FALSE>>
    BY <1>5 DEF Came
  <2>2. <<m, TRUE>> # <<n, FALSE>>
    OBVIOUS
  <2>3. i \in DOMAIN log /\ log[i] = <<m, TRUE>>
    BY <1>4, <2>1, <2>2
  <2> QED  BY <1>4, <2>1, <2>3 DEF Came
<1>6. Watched'
  <2>1. \A s \in Services, k \in Kinds : rv[s][k] \in Nat /\ listing[s][k] \in Nat
    BY DEF SyncInv, Base, TypeOK
  <2>2. \A s \in Services, k \in Kinds : Reach(s, k)'
    BY <1>1, <1>4, <2>1 DEF SyncInv, Watched, Reach
  <2>3. \A s \in Services, k \in Kinds : s \notin overtaken => Knows(s, k)'
    BY <1>1, <1>5 DEF SyncInv, Watched, Knows
  <2> QED  BY <1>1, <2>2, <2>3 DEF Watched
<1>7. Hopes'
  BY <1>1, <1>2 DEF SyncInv, Hopes
<1>8. PromisedAreLoaded'
  BY <1>1, SamePromised DEF SyncInv, Alive
<1> QED  BY <1>3, <1>6, <1>7, <1>8 DEF Goal

-----------------------------------------------------------------------------
(* Each step of a watcher. *)
LEMMA OtherWatchers ==
  ASSUME SyncInv, NEW x \in Services, NEW j \in Kinds, UNCHANGED log,
         rv'[x][j] = rv[x][j], listing'[x][j] = listing[x][j],
         x \notin overtaken' => x \notin overtaken /\ Known(registry[x]) \subseteq Known(registry'[x])
  PROVE  (Reach(x, j) /\ (x \notin overtaken => Knows(x, j)))'
<1>1. Reach(x, j) /\ (x \notin overtaken => Knows(x, j))
  BY DEF SyncInv, Watched
<1>2. Reach(x, j)'
  BY <1>1 DEF Reach, Version
<1>3. x \notin overtaken' => Knows(x, j)'
  BY <1>1 DEF Knows
<1> QED  BY <1>2, <1>3

LEMMA ListHolds ==
  ASSUME SyncInv, NEW s \in Services, NEW k \in Kinds, ListObjects(s, k)
  PROVE  Goal'
<1>1. /\ rv[s][k] = 0 /\ listing' = [listing EXCEPT ![s][k] = Version]
      /\ UNCHANGED <<log, latest, request, batch, todo, newest, deployed, state, registry, rv, overtaken,
                     target, hoped, promised>>
  BY DEF ListObjects, k8sVars, requestVars, syncVars
<1>2. Version \in Nat /\ listing \in [Services -> [Kinds -> Nat]]
  BY DEF SyncInv, Base, TypeOK, Version
<1>3. Watched'
  <2>1. ASSUME NEW x \in Services, NEW j \in Kinds
        PROVE  (Reach(x, j) /\ (x \notin overtaken => Knows(x, j)))'
    <3>1. CASE x = s /\ j = k
      <4>1. rv'[s][k] = 0 /\ listing'[s][k] = Version /\ Version' = Version
        BY <1>1, <1>2 DEF Version
      <4>2. Reach(s, k)'
        BY <1>2, <4>1 DEF Reach
      <4>3. s \notin overtaken' => Knows(s, k)'
        BY <1>1 DEF SyncInv, Watched, Knows
      <4> QED  BY <3>1, <4>2, <4>3
    <3>2. CASE ~(x = s /\ j = k)
      <4>1. listing'[x][j] = listing[x][j]
        BY <1>1, <1>2, <3>2
      <4> QED  BY <1>1, <4>1, OtherWatchers
    <3> QED  BY <3>1, <3>2
  <2> QED  BY <2>1 DEF Watched
<1> QED  BY <1>1, <1>3, SameGateway, SameHopes, SamePromised DEF SyncInv, Alive, Goal

(* When the registries of a service grow.                                   *)
LEMMA GrowthKeeps ==
  ASSUME SyncInv, NEW s \in Services, NEW new,
         registry' = [registry EXCEPT ![s] = new], Grows(registry[s], new),
         UNCHANGED <<log, latest, request, batch, todo, newest, deployed, state, overtaken,
                     target, hoped, promised>>
  PROVE  /\ Phases' /\ Logged' /\ Newest' /\ Hopes' /\ PromisedAreLoaded'
         /\ \A x \in Services : Known(registry[x]) \subseteq Known(registry'[x])
<1>1. \A x \in Services : registry'[x] = IF x = s THEN new ELSE registry[x]
  BY DEF SyncInv, Base, TypeOK
<1>2. \A x \in Services : Grows(registry[x], registry'[x])
  <2>1. \A x \in Services : Grows(registry[x], registry[x])
    BY DEF Grows
  <2> QED  BY <1>1, <2>1
<1>3. ASSUME NEW x \in Services, Alive(x)', x \notin overtaken PROVE promised'[x] \subseteq Loaded(x)'
  <2>1. promised[x] \subseteq Loaded(x)
    BY <1>3 DEF SyncInv, PromisedAreLoaded, Alive
  <2> QED  BY <1>2, <2>1 DEF Loaded, Grows
<1>4. PromisedAreLoaded'
  BY <1>3 DEF PromisedAreLoaded
<1> QED  BY <1>2, <1>4, SameGateway, SameHopes DEF SyncInv, Grows

LEMMA HandleListHolds ==
  ASSUME SyncInv, NEW s \in Services, NEW k \in Kinds, HandleList(s, k)
  PROVE  Goal'
<1> DEFINE v == listing[s][k]
           objects == PresentAt(v) \cap NamesOf(k)
<1>1. /\ v > 0 /\ rv' = [rv EXCEPT ![s][k] = v] /\ listing' = [listing EXCEPT ![s][k] = 0]
      /\ UNCHANGED <<log, latest, request, batch, todo, newest, deployed, state, overtaken,
                     target, hoped, promised>>
  BY DEF HandleList, k8sVars, requestVars, syncVars
<1>2. PICK q \in Bijection(1 .. Cardinality(objects), objects) :
        registry' = [registry EXCEPT ![s] = LoadAll(registry[s], q)]
  BY DEF HandleList
<1> DEFINE new == LoadAll(registry[s], q)
<1>3. /\ log \in Histories /\ v \in Nat /\ v <= Version /\ registry[s] \in Registries /\ Reasons(registry[s])
      /\ rv \in [Services -> [Kinds -> Nat]] /\ listing \in [Services -> [Kinds -> Nat]]
      /\ registry \in [Services -> Registries]
  BY DEF SyncInv, Base, TypeOK, Histories, Watched, Reach
<1>4. q \in Seq(Names) /\ \A n \in objects : \E i \in 1 .. Len(q) : q[i] = n
  BY <1>2, KindIs, ListIs
<1>5. Grows(registry[s], new) /\ \A i \in 1 .. Len(q) : q[i] \in Known(new)
  BY <1>3, <1>4, LoadAllHolds
<1>6. \A n \in objects : n \in Known(new)
  BY <1>4, <1>5
<1> HIDE DEF new
<1>7. registry' = [registry EXCEPT ![s] = new]
  BY <1>2 DEF new
<1>8. /\ Phases' /\ Logged' /\ Newest' /\ Hopes' /\ PromisedAreLoaded'
      /\ \A x \in Services : Known(registry[x]) \subseteq Known(registry'[x])
  BY <1>1, <1>5, <1>7, GrowthKeeps
<1>9. ASSUME NEW x \in Services, NEW j \in Kinds
      PROVE  (Reach(x, j) /\ (x \notin overtaken => Knows(x, j)))'
  <2>1. CASE x = s /\ j = k
    <3>1. rv'[s][k] = v /\ listing'[s][k] = 0 /\ Version' = Version /\ registry'[s] = new
      BY <1>1, <1>3, <1>7 DEF Version
    <3> HIDE DEF objects
    <3>2. Reach(s, k)'
      BY <1>3, <3>1, PresentIs DEF Reach
    <3>3. ASSUME NEW n \in NamesOf(k), Came(log, n, v) PROVE n \in Known(new)
      <4>1. n \in objects
        BY <1>3, <3>3, PresentIs DEF objects
      <4> QED  BY <1>6, <4>1
    <3>4. Knows(s, k)'
      BY <1>1, <3>1, <3>3 DEF Knows
    <3> QED  BY <2>1, <3>2, <3>4
  <2>2. CASE ~(x = s /\ j = k)
    <3>1. rv'[x][j] = rv[x][j] /\ listing'[x][j] = listing[x][j]
      BY <1>1, <1>3, <2>2
    <3> QED  BY <1>1, <1>8, <3>1, OtherWatchers
  <2> QED  BY <2>1, <2>2
<1> QED  BY <1>8, <1>9 DEF Watched, Goal

(* What a watcher has come by when it has handled its next event.           *)
LEMMA EventIs ==
  ASSUME SyncInv, NEW s \in Services, NEW k \in Kinds, HandleEvent(s, k)
  PROVE  LET i == Min(Unseen(s, k))
         IN /\ i \in DOMAIN log /\ i \in Nat /\ i < Version /\ log[i][1] \in NamesOf(k) /\ log[i][2] \in BOOLEAN
            /\ \A n \in NamesOf(k) :
                 Came(log, n, i + 1) => Came(log, n, rv[s][k]) \/ log[i] = <<n, TRUE>>
<1> DEFINE i == Min(Unseen(s, k))
<1>1. /\ log \in Histories /\ rv[s][k] \in Nat
      /\ \A j \in DOMAIN log : j \in Nat /\ j < Version /\ log[j] \in Names \X BOOLEAN
  BY DEF SyncInv, Base, TypeOK, Histories, Version
<1>2. /\ i \in DOMAIN log /\ log[i][1] \in NamesOf(k) /\ i >= rv[s][k]
      /\ \A j \in DOMAIN log : log[j][1] \in NamesOf(k) /\ j >= rv[s][k] => i <= j
  <2>1. Unseen(s, k) = { j \in DOMAIN log : log[j][1] \in NamesOf(k) /\ j >= rv[s][k] }
        /\ Unseen(s, k) \subseteq Nat
    BY UnseenIs DEF SyncInv, Base
  <2>2. Unseen(s, k) # {}
    BY DEF HandleEvent
  <2>3. i \in Unseen(s, k) /\ \A j \in Unseen(s, k) : i <= j
    BY <2>1, <2>2, LeastExists
  <2> HIDE DEF i
  <2> QED  BY <2>1, <2>3
<1> HIDE DEF i
<1>3. ASSUME NEW n \in NamesOf(k), Came(log, n, i + 1) PROVE Came(log, n, rv[s][k]) \/ log[i] = <<n, TRUE>>
  <2>1. PICK m \in DOMAIN log :
          m < i + 1 /\ log[m] = <<n, TRUE>> /\ \A l \in DOMAIN log : m < l => log[l] # <<n, FALSE>>
    BY <1>3 DEF Came
  <2>2. m \in Nat /\ i \in Nat /\ log[m][1] = n
    BY <1>1, <1>2, <2>1
  <2>3. CASE m < rv[s][k]
    BY <2>1, <2>3 DEF Came
  <2>4. CASE ~(m < rv[s][k])
    <3>1. m >= rv[s][k]
      BY <1>1, <2>2, <2>4
    <3>2. i <= m
      BY <1>2, <2>2, <3>1
    <3>3. m = i
      BY <2>1, <2>2, <3>2
    <3> QED  BY <2>1, <3>3
  <2> QED  BY <2>3, <2>4
<1>4. i \in Nat /\ i < Version /\ log[i][2] \in BOOLEAN
  BY <1>1, <1>2
<1> QED  BY <1>2, <1>3, <1>4 DEF i

LEMMA HandleEventHolds ==
  ASSUME SyncInv, NEW s \in Services, NEW k \in Kinds, HandleEvent(s, k)
  PROVE  Goal'
<1> DEFINE i == Min(Unseen(s, k))
<1>1. /\ i \in DOMAIN log /\ i \in Nat /\ i < Version /\ log[i][1] \in NamesOf(k) /\ log[i][2] \in BOOLEAN
      /\ \A n \in NamesOf(k) : Came(log, n, i + 1) => Came(log, n, rv[s][k]) \/ log[i] = <<n, TRUE>>
  BY EventIs
<1>2. /\ rv' = [rv EXCEPT ![s][k] = i + 1] /\ rv[s][k] > 0
      /\ UNCHANGED <<log, latest, request, batch, todo, newest, deployed, state, listing, target,
                     hoped, promised>>
      /\ \/ /\ log[i][2] /\ registry' = [registry EXCEPT ![s] = Load(registry[s], log[i][1])]
            /\ UNCHANGED overtaken
         \/ /\ ~log[i][2] /\ registry' = [registry EXCEPT ![s] = PurgeLocal(registry[s])]
            /\ overtaken' = IF Brought(s) = {} THEN overtaken \ {s} ELSE overtaken \cup {s}
  BY DEF HandleEvent, k8sVars, requestVars, syncVars
<1> HIDE DEF i
<1>3. /\ log \in Histories /\ registry[s] \in Registries /\ Reasons(registry[s]) /\ log[i][1] \in Names
      /\ rv \in [Services -> [Kinds -> Nat]] /\ listing[s][k] \in Nat /\ Version' = Version /\ Version \in Nat
      /\ registry \in [Services -> Registries] /\ (listing[s][k] > 0 => rv[s][k] = 0)
      /\ listing[s][k] <= Version
  <2>1. Version' = Version /\ log[i][1] \in Names
    BY <1>1, <1>2, KindIs DEF Version
  <2>2. /\ log \in Histories /\ registry[s] \in Registries /\ Reasons(registry[s])
        /\ rv \in [Services -> [Kinds -> Nat]] /\ listing[s][k] \in Nat
        /\ registry \in [Services -> Registries]
    BY DEF SyncInv, Base, TypeOK, Histories
  <2>3. Version \in Nat
    BY <2>2 DEF Version, Histories
  <2>4. Reach(s, k)
    BY DEF SyncInv, Watched
  <2>5. (listing[s][k] > 0 => rv[s][k] = 0) /\ listing[s][k] <= Version
    BY <2>4 DEF Reach
  <2> QED  BY <2>1, <2>2, <2>3, <2>5
<1>4. /\ rv'[s][k] = i + 1
      /\ \A x \in Services, j \in Kinds : ~(x = s /\ j = k) => rv'[x][j] = rv[x][j]
      /\ \A x \in Services : x # s => registry'[x] = registry[x]
  BY <1>2, <1>3
<1>5. Reach(s, k)'
  BY <1>1, <1>2, <1>3, <1>4 DEF Reach
<1>6. Phases' /\ Logged' /\ Newest' /\ Hopes'
  BY <1>2, SameGateway, SameHopes DEF SyncInv
<1>7. CASE log[i][2]
  <2> DEFINE new == Load(registry[s], log[i][1])
  <2>1. registry' = [registry EXCEPT ![s] = new] /\ UNCHANGED overtaken
    BY <1>2, <1>7
  <2>2. Grows(registry[s], new) /\ log[i][1] \in Known(new)
    BY <1>3, LoadHolds
  <2> HIDE DEF new
  <2>3. PromisedAreLoaded' /\ \A x \in Services : Known(registry[x]) \subseteq Known(registry'[x])
    BY <1>2, <2>1, <2>2, GrowthKeeps
  <2>4. registry'[s] = new
    BY <1>3, <2>1
  <2>5. s \notin overtaken' => Knows(s, k)'
    <3>1. ASSUME s \notin overtaken, NEW n \in NamesOf(k), Came(log, n, i + 1) PROVE n \in Known(new)
      <4>1. CASE Came(log, n, rv[s][k])
        BY <2>2, <3>1, <4>1 DEF SyncInv, Watched, Knows, Grows
      <4>2. CASE log[i] = <<n, TRUE>>
        BY <2>2, <4>2
      <4> QED  BY <1>1, <3>1, <4>1, <4>2
    <3> QED  BY <1>2, <1>4, <2>1, <2>4, <3>1 DEF Knows
  <2>6. ASSUME NEW x \in Services, NEW j \in Kinds
        PROVE  (Reach(x, j) /\ (x \notin overtaken => Knows(x, j)))'
    <3>1. CASE x = s /\ j = k
      BY <1>5, <2>5, <3>1
    <3>2. CASE ~(x = s /\ j = k)
      BY <1>2, <1>4, <2>1, <2>3, <3>2, OtherWatchers
    <3> QED  BY <3>1, <3>2
  <2> QED  BY <1>6, <2>3, <2>6 DEF Watched, Goal
<1>8. CASE ~log[i][2]
  <2>1. overtaken' = IF Brought(s) = {} THEN overtaken \ {s} ELSE overtaken \cup {s}
    BY <1>2, <1>8
  <2>2. ASSUME s \notin overtaken' PROVE promised[s] = {} /\ \A j \in Kinds : Knows(s, j)'
    <3>1. Brought(s) = {}
      BY <2>1, <2>2
    <3>2. promised[s] = {}
      BY <3>1 DEF Brought, SyncInv, Base, TypeOK
    <3>3. \A n \in Names : ~Came(log, n, rv[s][Kind(n)])
      BY <1>3, <3>1, StaysIs DEF Brought
    <3>4. \A j \in Kinds : \A n \in NamesOf(j) : ~Came(log, n, rv[s][j])
      BY <3>3, KindIs
    <3>5. \A n \in NamesOf(k) : ~Came(log, n, i + 1)
      <4>1. ASSUME NEW n \in NamesOf(k), log[i] = <<n, TRUE>> PROVE FALSE
        <5>1. log[i][2] = TRUE
          BY <4>1
        <5> QED  BY <1>8, <5>1
      <4> QED  BY <1>1, <3>4, <4>1
    <3>6. ASSUME NEW j \in Kinds PROVE Knows(s, j)'
      <4>1. CASE j = k
        BY <1>2, <1>4, <3>5, <4>1 DEF Knows
      <4>2. CASE j # k
        BY <1>2, <1>4, <3>4, <4>2 DEF Knows
      <4> QED  BY <4>1, <4>2
    <3> QED  BY <3>2, <3>6
  <2>3. PromisedAreLoaded'
    <3>1. ASSUME NEW x \in Services, Alive(x)', x \notin overtaken' PROVE promised'[x] \subseteq Loaded(x)'
      <4>1. CASE x = s
        BY <1>2, <2>2, <3>1, <4>1
      <4>2. CASE x # s
        <5>1. x \notin overtaken /\ Alive(x) /\ Loaded(x)' = Loaded(x)
          BY <1>2, <1>4, <2>1, <3>1, <4>2 DEF Alive, Loaded
        <5> QED  BY <1>2, <5>1 DEF SyncInv, PromisedAreLoaded
      <4> QED  BY <4>1, <4>2
    <3> QED  BY <3>1 DEF PromisedAreLoaded
  <2>4. ASSUME NEW x \in Services, NEW j \in Kinds
        PROVE  (Reach(x, j) /\ (x \notin overtaken => Knows(x, j)))'
    <3>1. CASE x # s
      BY <1>2, <1>4, <2>1, <3>1, OtherWatchers
    <3>2. CASE x = s
      <4>1. Reach(s, j)'
        <5>1. CASE j = k
          BY <1>5, <5>1
        <5>2. CASE j # k
          BY <1>2, <1>3, <1>4, <5>2 DEF SyncInv, Watched, Reach
        <5> QED  BY <5>1, <5>2
      <4> QED  BY <2>2, <3>2, <4>1
    <3> QED  BY <3>1, <3>2
  <2> QED  BY <1>6, <2>3, <2>4 DEF Watched, Goal
<1> QED  BY <1>7, <1>8

LEMMA ExpireHolds ==
  ASSUME SyncInv, NEW s \in Services, NEW k \in Kinds, Expire(s, k)
  PROVE  Goal'
<1>1. /\ rv' = [rv EXCEPT ![s][k] = 0]
      /\ UNCHANGED <<log, latest, request, batch, todo, newest, deployed, state, registry, listing, overtaken,
                     target, hoped, promised>>
  BY DEF Expire, k8sVars, requestVars, syncVars
<1>2. log \in Histories /\ rv \in [Services -> [Kinds -> Nat]] /\ Version \in Nat
  BY DEF SyncInv, Base, TypeOK, Histories, Version
<1>3. ASSUME NEW x \in Services, NEW j \in Kinds
      PROVE  (Reach(x, j) /\ (x \notin overtaken => Knows(x, j)))'
  <2>1. CASE x = s /\ j = k
    <3>1. rv'[s][k] = 0 /\ Version' = Version
      BY <1>1, <1>2 DEF Version
    <3>2. Reach(s, k)'
      BY <1>1, <1>2, <3>1 DEF SyncInv, Watched, Reach
    <3>3. Knows(s, k)'
      <4>1. \A n : ~Came(log, n, 0)
        BY <1>2, CameIs
      <4> QED  BY <1>1, <3>1, <4>1 DEF Knows
    <3> QED  BY <2>1, <3>2, <3>3
  <2>2. CASE ~(x = s /\ j = k)
    <3>1. rv'[x][j] = rv[x][j]
      BY <1>1, <1>2, <2>2
    <3> QED  BY <1>1, <3>1, OtherWatchers
  <2> QED  BY <2>1, <2>2
<1>4. Watched'
  BY <1>3 DEF Watched
<1> QED  BY <1>1, <1>4, SameGateway, SameHopes, SamePromised DEF SyncInv, Alive, Goal

-----------------------------------------------------------------------------
(* Each step of a sync, and of the life of a service. *)
LEMMA SyncBeginsHolds ==
  ASSUME SyncInv, NEW s \in Services, SyncBegins(s)
  PROVE  Goal'
<1>1. UNCHANGED <<log, latest, request, batch, todo, newest, deployed, state, registry, rv, listing, overtaken, promised>>
  BY DEF SyncBegins, k8sVars, requestVars, watchVars
<1>2. /\ WaitedFor \subseteq deployed /\ Closed(WaitedFor)
      /\ \A n \in WaitedFor : Came(log, n, latest[Kind(n)])
  <2>1. Closed(deployed) /\ deployed \subseteq Names
    BY DEF SyncInv, Base, TypeOK, Phases
  <2>2. \A t \in Tasks : Kind(t) = "task" /\ Imports[t] \subseteq Tasks
    BY RegistryAssumption DEF Kind
  <2>3. \A d \in Descriptors : TaskOf[d] \in Tasks
    BY RegistryAssumption
  <2>4. \A t \in WaitedFor \cap Tasks : Imports[t] \subseteq WaitedFor
    BY <2>1, <2>2 DEF WaitedFor, Closed
  <2>5. \A d \in WaitedFor \cap Descriptors : TaskOf[d] \in WaitedFor
    BY <2>1, <2>2, <2>3 DEF WaitedFor, Closed
  <2> QED  BY <2>4, <2>5 DEF WaitedFor, Closed, SyncInv, Logged
<1>3. Hopes'
  <2>1. ASSUME NEW x \in Services
        PROVE  /\ hoped'[x] \subseteq deployed /\ Closed(hoped'[x])
               /\ target'[x] # <<>> => \A n \in hoped'[x] : Came(log, n, target'[x][Kind(n)])
    <3>1. CASE x = s
      <4>1. \/ target'[s] = latest /\ hoped'[s] = WaitedFor
            \/ hoped'[s] = {}
        BY DEF SyncBegins, SyncInv, Base, TypeOK
      <4>2. Closed({})
        BY DEF Closed
      <4> QED  BY <1>2, <3>1, <4>1, <4>2
    <3>2. CASE x # s
      <4>1. target'[x] = target[x] /\ hoped'[x] = hoped[x]
        BY <3>2 DEF SyncBegins, SyncInv, Base, TypeOK
      <4> QED  BY <4>1 DEF SyncInv, Hopes
    <3> QED  BY <3>1, <3>2
  <2> QED  BY <1>1, <2>1 DEF SyncInv, Hopes
<1> QED  BY <1>1, <1>3, SameGateway, SameWatched, SamePromised DEF SyncInv, Alive, Goal

(* Both watchers have reached the versions that the sync waits for: all     *)
(* that it hopes for is known, and so nothing of it waits.                  *)
LEMMA HopedAreLoaded ==
  ASSUME SyncInv, NEW s \in Services, target[s] # <<>>, Reached(s), s \notin overtaken
  PROVE  hoped[s] \subseteq Loaded(s)
<1> DEFINE reg == registry[s]
<1>1. /\ reg \in Registries /\ Reasons(reg) /\ log \in Histories
      /\ Closed(hoped[s]) /\ hoped[s] \subseteq Names
      /\ \A k \in Kinds : rv[s][k] \in Nat /\ target[s][k] \in Nat
  BY DEF SyncInv, Base, TypeOK, Hopes, Histories
<1>2. \A n \in hoped[s] : n \in Known(reg)
  <2>1. ASSUME NEW n \in hoped[s] PROVE n \in Known(reg)
    <3>1. Kind(n) \in Kinds /\ n \in NamesOf(Kind(n))
      BY <1>1, KindIs
    <3>2. Came(log, n, target[s][Kind(n)]) /\ target[s][Kind(n)] <= rv[s][Kind(n)]
      BY <1>1, <3>1 DEF SyncInv, Hopes, Reached
    <3>3. Came(log, n, rv[s][Kind(n)])
      BY <1>1, <3>1, <3>2, CameIs
    <3> QED  BY <3>1, <3>3 DEF SyncInv, Watched, Knows
  <2> QED  BY <2>1
<1>3. /\ Tasks \cap Descriptors = {} /\ reg.tasks \subseteq Tasks /\ reg.waiting \subseteq Tasks
      /\ reg.descriptors \subseteq Descriptors /\ reg.queued \subseteq Descriptors
  BY <1>1, RegistryAssumption DEF Registries
<1> HIDE DEF reg
<1>4. \A t \in hoped[s] \cap Tasks : t \in reg.files
  <2>1. ASSUME NEW t \in hoped[s] \cap Tasks PROVE t \in reg.files
    <3>1. t \in reg.tasks \/ t \in reg.waiting
      BY <1>2, <1>3 DEF Known
    <3> QED  BY <1>1, <3>1, ClosureIs DEF Reasons, Importable
  <2> QED  BY <2>1
<1>5. \A t \in hoped[s] \cap Tasks : t \in reg.tasks
  <2>1. ASSUME NEW t \in hoped[s] \cap Tasks PROVE t \in reg.tasks
    <3>1. ImportClosed(hoped[s] \cap Tasks)
      BY <1>1, RegistryAssumption DEF ImportClosed, Closed
    <3>2. Closure[t] \subseteq hoped[s] \cap Tasks
      BY <3>1, ClosureIs
    <3>3. Importable(reg.files, t)
      BY <1>4, <3>2 DEF Importable
    <3>4. t \notin reg.waiting
      BY <1>1, <3>3 DEF Reasons
    <3> QED  BY <1>2, <1>3, <3>4 DEF Known
  <2> QED  BY <2>1
<1>6. \A d \in hoped[s] \cap Descriptors : d \in reg.descriptors
  <2>1. ASSUME NEW d \in hoped[s] \cap Descriptors PROVE d \in reg.descriptors
    <3>1. TaskOf[d] \in hoped[s] \cap Tasks
      BY <1>1, RegistryAssumption DEF Closed
    <3>2. TaskOf[d] \in reg.tasks
      BY <1>5, <3>1
    <3>3. d \notin reg.queued
      BY <1>1, <3>2 DEF Reasons
    <3> QED  BY <1>2, <1>3, <3>3 DEF Known
  <2> QED  BY <2>1
<1> QED  BY <1>1, <1>5, <1>6 DEF Names, Loaded, reg

LEMMA SyncEndsHolds ==
  ASSUME SyncInv, NEW s \in Services, SyncEnds(s)
  PROVE  Goal'
<1>1. /\ target[s] # <<>> /\ Reached(s)
      /\ target' = [target EXCEPT ![s] = <<>>] /\ promised' = [promised EXCEPT ![s] = promised[s] \cup hoped[s]]
      /\ UNCHANGED <<log, latest, request, batch, todo, newest, deployed, state, registry, rv, listing,
                     overtaken, hoped>>
  BY DEF SyncEnds, k8sVars, watchVars
<1>2. Hopes'
  BY <1>1 DEF SyncInv, Base, TypeOK, Hopes
<1>3. PromisedAreLoaded'
  <2>1. ASSUME NEW x \in Services, Alive(x)', x \notin overtaken PROVE promised'[x] \subseteq Loaded(x)'
    <3>1. Alive(x) /\ Loaded(x)' = Loaded(x) /\ promised[x] \subseteq Loaded(x)
      BY <1>1, <2>1 DEF Alive, Loaded, SyncInv, PromisedAreLoaded
    <3>2. CASE x = s
      <4>1. promised'[s] = promised[s] \cup hoped[s]
        BY <1>1 DEF SyncInv, Base, TypeOK
      <4> QED  BY <1>1, <2>1, <3>1, <3>2, <4>1, HopedAreLoaded
    <3>3. CASE x # s
      <4>1. promised'[x] = promised[x]
        BY <1>1, <3>3 DEF SyncInv, Base, TypeOK
      <4> QED  BY <3>1, <4>1
    <3> QED  BY <3>2, <3>3
  <2> QED  BY <1>1, <2>1 DEF PromisedAreLoaded
<1> QED  BY <1>1, <1>2, <1>3, SameGateway, SameWatched DEF SyncInv, Goal

LEMMA FreshHolds ==
  ASSUME SyncInv, NEW s \in Services, Start(s) \/ Stop(s)
  PROVE  Goal'
<1>1. /\ Fresh(s) /\ UNCHANGED <<log, latest, request, batch, todo, newest, deployed>>
      /\ \A x \in Services : x # s => (Alive(x)' <=> Alive(x))
  <2>1. \E v : state' = [state EXCEPT ![s] = v]
    BY DEF Start, Stop
  <2>2. \A x \in Services : x # s => state'[x] = state[x]
    BY <2>1 DEF SyncInv, Base, TypeOK
  <2> QED  BY <2>2 DEF Start, Stop, Alive, k8sVars, requestVars
<1>2. /\ registry'[s] = Nothing /\ rv'[s] = Zero /\ listing'[s] = Zero /\ target'[s] = <<>>
      /\ hoped'[s] = {} /\ promised'[s] = {} /\ overtaken' = overtaken \ {s}
      /\ \A x \in Services : x # s =>
           /\ registry'[x] = registry[x] /\ rv'[x] = rv[x] /\ listing'[x] = listing[x]
           /\ target'[x] = target[x] /\ hoped'[x] = hoped[x] /\ promised'[x] = promised[x]
  BY <1>1 DEF Fresh, SyncInv, Base, TypeOK
<1>3. Version' = Version /\ log \in Histories /\ Version \in Nat
  BY <1>1 DEF Version, SyncInv, Base, TypeOK, Histories
<1>4. Watched'
  <2>1. ASSUME NEW x \in Services, NEW j \in Kinds
        PROVE  (Reach(x, j) /\ (x \notin overtaken => Knows(x, j)))'
    <3>1. CASE x = s
      <4>1. rv'[s][j] = 0 /\ listing'[s][j] = 0
        BY <1>2 DEF Zero
      <4>2. Reach(s, j)'
        BY <1>3, <4>1 DEF Reach
      <4>3. Knows(s, j)'
        <5>1. \A n : ~Came(log, n, 0)
          BY <1>3, CameIs
        <5> QED  BY <1>1, <4>1, <5>1 DEF Knows
      <4> QED  BY <3>1, <4>2, <4>3
    <3>2. CASE x # s
      <4>1. x \notin overtaken' => x \notin overtaken
        BY <1>2, <3>2
      <4> QED  BY <1>1, <1>2, <3>2, <4>1, OtherWatchers
    <3> QED  BY <3>1, <3>2
  <2> QED  BY <2>1 DEF Watched
<1>5. Hopes'
  <2>1. Closed({})
    BY DEF Closed
  <2> QED  BY <1>1, <1>2, <2>1 DEF SyncInv, Hopes
<1>6. PromisedAreLoaded'
  <2>1. ASSUME NEW x \in Services, Alive(x)', x \notin overtaken' PROVE promised'[x] \subseteq Loaded(x)'
    <3>1. CASE x = s
      BY <1>2, <3>1
    <3>2. CASE x # s
      BY <1>1, <1>2, <2>1, <3>2 DEF SyncInv, PromisedAreLoaded, Loaded
    <3> QED  BY <3>1, <3>2
  <2> QED  BY <2>1 DEF PromisedAreLoaded
<1> QED  BY <1>1, <1>4, <1>5, <1>6, SameGateway DEF SyncInv, Goal

LEMMA RegisterHolds ==
  ASSUME SyncInv, NEW s \in Services, Register(s)
  PROVE  Goal'
<1>1. /\ UNCHANGED <<log, latest, request, batch, todo, newest, deployed, registry, rv, listing, overtaken,
                     target, hoped, promised>>
      /\ \A x \in Services : Alive(x)' => Alive(x)
  <2>1. state[s] = "up" /\ \A x \in Services : x # s => state'[x] = state[x]
    BY DEF Register, SyncInv, Base, TypeOK
  <2> QED  BY <2>1 DEF Register, Alive, k8sVars, requestVars, watchVars, syncVars
<1> QED  BY <1>1, SameGateway, SameWatched, SameHopes, SamePromised DEF SyncInv, Goal

-----------------------------------------------------------------------------
LEMMA InitSync ==
  ASSUME Init
  PROVE  SyncInv
<1>1. log = <<>> /\ log \in Histories /\ Version = 1 /\ DOMAIN log = {}
  BY DEF Init, Histories, Version
<1>2. Phases /\ Logged /\ Newest
  BY EarlierIs DEF Init, Phases, Logged, Newest, Closed
<1>3. Watched
  <2>1. \A s \in Services, k \in Kinds : Reach(s, k)
    BY <1>1 DEF Init, Zero, Reach
  <2>2. \A n, v : ~Came(log, n, v)
    BY <1>1 DEF Came
  <2> QED  BY <2>1, <2>2 DEF Watched, Knows
<1>4. Hopes /\ PromisedAreLoaded
  BY DEF Init, Hopes, Closed, PromisedAreLoaded
<1> QED  BY <1>2, <1>3, <1>4, InitBase DEF SyncInv

LEMMA StepSync ==
  ASSUME SyncInv, [Next]_vars
  PROVE  SyncInv'
<1>1. Base' /\ (Goal' => SyncInv')
  BY StepBase DEF SyncInv, Goal
<1>2. CASE UNCHANGED vars
  <2>1. UNCHANGED <<log, latest, request, batch, todo, newest, deployed, state, registry, rv,
                    listing, overtaken, target, hoped, promised>>
    BY <1>2 DEF vars, k8sVars, requestVars, watchVars, syncVars
  <2> QED  BY <1>1, <2>1, SameGateway, SameWatched, SameHopes, SamePromised DEF SyncInv, Alive, Goal
<1>3. CASE Deploy \/ RequestFails \/ Purge \/ Handler
  BY <1>1, <1>3, DeployHolds, AnsweredHolds, PurgeHolds, RecordHolds, CreateHolds, DeleteHolds DEF Handler
<1>4. CASE \E s \in Services : Sync(s) \/ Start(s) \/ Register(s) \/ Stop(s)
  BY <1>1, <1>4, SyncBeginsHolds, SyncEndsHolds, FreshHolds, RegisterHolds DEF Sync
<1>5. CASE \E s \in Services, k \in Kinds : Watch(s, k) \/ Expire(s, k)
  BY <1>1, <1>5, ListHolds, HandleListHolds, HandleEventHolds, ExpireHolds DEF Watch
<1> QED  BY <1>2, <1>3, <1>4, <1>5 DEF Next

(* Whoever has been synced has loaded what the sync has waited for, in      *)
(* whatever order the two watchers bring it and however often watches       *)
(* expire, requests fail and services crash, unless it was told of a        *)
(* deletion too late (registry.py:410-415, 452-469).                        *)
THEOREM PromisesAreKept == Spec => []PromisedAreLoaded
<1>1. Spec => []SyncInv
  BY InitSync, StepSync, PTL DEF Spec
<1>2. SyncInv => PromisedAreLoaded
  BY DEF SyncInv
<1> QED  BY <1>1, <1>2, PTL

=============================================================================
