----------------------- MODULE ResourceManager_proofs -----------------------
(***************************************************************************)
(* For any cluster, any tasks and any number of calls: no GPU is used by   *)
(* two but for task managers that a failure has left astray, and a GPU is  *)
(* lost only by a scale-up that raises half way or a Teardown that fails   *)
(* its assertion.                                                          *)
(***************************************************************************)
EXTENDS ResourceManager, ClusterGPUs_proofs

(* A call's state has been found, its deployment was set and stays, and     *)
(* only a scale-up undoes what it did.                                      *)
Found ==
  \A s \in Scales :
    /\ sc[s] \in {"locking", "updating", "updated", "undoing", "undone"} => target[s] \in Ids
    /\ target[s] # NoId => dep[target[s]] = "ok"
    /\ sc[s] \in {"undoing", "undone"} => Up(s)

(* A Teardown follows the call of its Deploy, and pops what is up.          *)
Torn == {"popped", "stopping", "freeing", "done"}

Phases ==
  \A d \in Ids :
    /\ dep[d] = "idle" => td[d] = "no"
    /\ td[d] \in Torn => dep[d] \in {"notifying", "ok", "disowned"} /\ d \notin task_states

(* A state's lock has one holder, and a task manager that has answered a    *)
(* Scale stays until the answer is recorded.                                *)
InLock(s, d) == target[s] = d /\ sc[s] \in {"updating", "updated", "undoing", "undone"}

LocksHeld ==
  \A d \in Ids, s \in Scales :
    InLock(s, d) =>
      /\ \A u \in Scales : InLock(u, d) => u = s
      /\ td[d] \notin {"stopping", "freeing"}
      /\ sc[s] = "updated" => td[d] # "done"

(* What is in the books of d is owned by d ... *)
RecordedAreOwned ==
  \A d \in Ids :
    /\ Holding(d) => \A g \in Range(resources[d]) : owner[g] = d
    /\ \A s \in Scales : Taking(s, d) => \A g \in Range(batch[s]) : owner[g] = d

(* ... and is there once.                                                   *)
Once(s) == OneToOne(s, Len(s))

EachOnce ==
  \A d \in Ids :
    /\ Holding(d) => Once(resources[d])
    /\ \A s \in Scales :
         Taking(s, d) =>
           /\ Once(batch[s])
           /\ Holding(d) => Range(batch[s]) \cap Range(resources[d]) = {}
           /\ \A u \in Scales :
                Taking(u, d) /\ u # s => Range(batch[u]) \cap Range(batch[s]) = {}

(* What a task manager has is in the books, unless a failure has left it    *)
(* astray, and a manager that is stopped has nothing.                       *)
Serving(d) ==
  dep[d] \in {"undo", "notifying", "ok", "stopping", "disowned"} /\ td[d] \notin {"freeing", "done"}
Adding(s, d) == Taking(s, d) /\ sc[s] \in {"updated", "undoing"}

HeldIsRecorded ==
  /\ \A d \in Ids : gpus[d] # {} => Serving(d)
  /\ \A d \in Ids \ astray : \A g \in gpus[d] :
       g \in Range(resources[d]) \/ \E s \in Scales : Adding(s, d) /\ g \in Range(batch[s])

(* What a Scale knows of the task manager from its answer. *)
AnswerOf(s) ==
  /\ sc[s] \in {"updating", "updated"} /\ ~Up(s) =>
       batch[s] = Prefix(resources[target[s]], -Amount[s])
  /\ target[s] \notin astray =>
       /\ sc[s] = "updated" /\ ~Up(s) => Range(batch[s]) \cap gpus[target[s]] = {}
       /\ sc[s] = "undone" => Range(batch[s]) \cap gpus[target[s]] = {}

Answers == \A s \in Scales : AnswerOf(s)

ExecutorsApart ==
  \A d \in Ids \ astray :
    /\ \A x \in executors[d] : x \subseteq gpus[d]
    /\ \A x, y \in executors[d] : x # y => x \cap y = {}

(* A state that the registry lacks is in the hands of the call that took it *)
(* out.                                                                     *)
Listed ==
  /\ \A d \in task_states :
       dep[d] \in {"spawning", "registering", "undo", "release", "popping", "notifying", "ok"}
  /\ \A d \in Ids : dep[d] = "spawning" => d \in task_states
  /\ \A d \in Ids : Holding(d) => Reachable(d)

Books == RecordedAreOwned /\ EachOnce
IInv  == /\ TypeOK /\ Found /\ Phases /\ LocksHeld /\ Books
         /\ HeldIsRecorded /\ Answers /\ ExecutorsApart /\ Listed

-----------------------------------------------------------------------------
LEMMA SizesAre ==
  ASSUME ManagerAssumption, NEW d \in Ids
  PROVE  /\ Profile(Sizes(d)) /\ Least(d) \in Nat \ {0}
<1>1. Sizes(d) # {} /\ Sizes(d) \subseteq Nat \ {0} /\ IsFiniteSet(Sizes(d))
  BY DEF ManagerAssumption
<1>2. \E c \in Sizes(d) : \A e \in Sizes(d) : c <= e
  <2>1. Sizes(d) \subseteq Nat
    BY <1>1
  <2> QED  BY <1>1, <2>1, LeastExists
<1>3. Least(d) \in Sizes(d)
  BY <1>2 DEF Least
<1> QED  BY <1>1, <1>3 DEF Profile

LEMMA DownIsNat ==
  ASSUME ManagerAssumption, NEW s \in Scales
  PROVE  /\ Amount[s] \in Int /\ (Up(s) => Amount[s] \in Nat) /\ (~Up(s) => -Amount[s] \in Nat)
<1>1. Amount[s] \in Int
  BY DEF ManagerAssumption
<1> QED  BY <1>1 DEF Up

(* What a scale-down removes, and what it leaves. *)
LEMMA PrefixIs ==
  ASSUME NEW S, NEW s \in Seq(S), NEW n \in Nat
  PROVE  /\ Prefix(s, n) \in Seq(S) /\ SubSeq(s, n + 1, Len(s)) \in Seq(S)
         /\ Range(s) = Range(Prefix(s, n)) \cup Range(SubSeq(s, n + 1, Len(s)))
         /\ Once(s) => /\ Once(SubSeq(s, n + 1, Len(s)))
                       /\ Range(Prefix(s, n)) \cap Range(SubSeq(s, n + 1, Len(s))) = {}
<1> DEFINE m == IF n < Len(s) THEN n ELSE Len(s)
           p == Prefix(s, n)
           t == SubSeq(s, n + 1, Len(s))
           l == Len(s)
<1>1. l \in Nat /\ m \in Nat /\ m <= l /\ m <= n /\ l - m \in Nat /\ (n <= l => m = n) /\ (l < n => m = l)
  OBVIOUS
<1>2. p = [i \in 1 .. m |-> s[i]]
  BY DEF Prefix
<1>3. t = [i \in 1 .. l - m |-> s[i + m]]
  <2>1. CASE n < l
    BY <2>1
  <2>2. CASE ~(n < l)
    <3>1. l - m = 0 /\ m = l
      BY <1>1, <2>2
    <3>2. t = <<>>
      BY <2>2
    <3> QED  BY <3>1, <3>2
  <2> QED  BY <2>1, <2>2
<1> HIDE DEF p, t, m
<1>4. s \in [1 .. l -> S] /\ DOMAIN s = 1 .. l
  OBVIOUS
<1> HIDE DEF l
<1>5. \A i \in 1 .. m : i \in 1 .. l /\ s[i] \in S
  BY <1>1, <1>4
<1>6. \A i \in 1 .. l - m : i + m \in 1 .. l /\ s[i + m] \in S
  BY <1>1, <1>4
<1>7. p \in [1 .. m -> S] /\ t \in [1 .. l - m -> S] /\ DOMAIN p = 1 .. m /\ DOMAIN t = 1 .. l - m
  BY <1>2, <1>3, <1>5, <1>6
<1>8. p \in Seq(S) /\ t \in Seq(S) /\ Len(t) = l - m
  BY <1>1, <1>7
<1>9. Range(s) = Range(p) \cup Range(t)
  <2>1. Range(p) \subseteq Range(s)
    BY <1>2, <1>4, <1>5, <1>7 DEF Range
  <2>2. Range(t) \subseteq Range(s)
    BY <1>3, <1>4, <1>6, <1>7 DEF Range
  <2>3. ASSUME NEW i \in 1 .. l PROVE s[i] \in Range(p) \cup Range(t)
    <3>1. CASE i <= m
      <4>1. i \in 1 .. m /\ p[i] = s[i]
        BY <1>1, <1>2, <3>1
      <4> QED  BY <1>7, <4>1 DEF Range
    <3>2. CASE ~(i <= m)
      <4>1. i - m \in 1 .. l - m /\ (i - m) + m = i
        BY <1>1, <3>2
      <4>2. t[i - m] = s[i]
        BY <1>3, <4>1
      <4> QED  BY <1>7, <4>1, <4>2 DEF Range
    <3> QED  BY <3>1, <3>2
  <2>4. Range(s) \subseteq Range(p) \cup Range(t)
    BY <1>4, <2>3 DEF Range
  <2> QED  BY <2>1, <2>2, <2>4
<1>10. ASSUME Once(s) PROVE Once(t) /\ Range(p) \cap Range(t) = {}
  <2>1. \A i, j \in 1 .. l : s[i] = s[j] => i = j
    BY <1>10 DEF Once, OneToOne, l
  <2>2. ASSUME NEW i \in 1 .. l - m, NEW j \in 1 .. l - m, t[i] = t[j] PROVE i = j
    <3>1. s[i + m] = s[j + m]
      BY <1>3, <2>2
    <3>2. i + m = j + m
      BY <1>6, <2>1, <3>1
    <3> QED  BY <1>1, <3>2
  <2>3. ASSUME NEW i \in 1 .. m, NEW j \in 1 .. l - m, p[i] = t[j] PROVE FALSE
    <3>1. s[i] = s[j + m]
      BY <1>2, <1>3, <2>3
    <3>2. i = j + m
      BY <1>5, <1>6, <2>1, <3>1
    <3> QED  BY <1>1, <3>2
  <2>4. Range(p) \cap Range(t) = {}
    BY <1>7, <2>3 DEF Range
  <2>5. Once(t)
    BY <1>8, <2>2 DEF Once, OneToOne
  <2> QED  BY <2>4, <2>5
<1> QED  BY <1>8, <1>9, <1>10 DEF p, t, l

LEMMA GroupsAre ==
  ASSUME ClusterAssumption, NEW gs \in SUBSET GPUs, NEW sizes, Profile(sizes)
  PROVE  /\ Groups(gs, sizes) \in SUBSET SUBSET GPUs
         /\ \A x \in Groups(gs, sizes) : x \subseteq gs
         /\ \A x, y \in Groups(gs, sizes) : x # y => x \cap y = {}
<1> DEFINE G == Groups(gs, sizes)
<1>1. ASSUME NEW x \in G PROVE x \subseteq gs /\ \A y \in G : x # y => x \cap y = {}
  BY GroupsDivide
<1> HIDE DEF G
<1>2. G \in SUBSET SUBSET GPUs
  BY <1>1
<1> QED  BY <1>1, <1>2 DEF G

(* A state of the loop of scale_up_unit_task, read as what it says. *)
LEMMA ScaleUpTakes ==
  ASSUME ClusterAssumption, ManagerAssumption, TypeOK, NEW s \in Scales, Up(s), NEW d \in Ids
  PROVE  LET a == ScaleUpBy(owner, d, Amount[s], Sizes(d))
         IN  /\ a.own \in [GPUs -> Ids \cup {Nobody}] /\ a.got \in Seq(GPUs)
             /\ Once(a.got)
             /\ \A g \in Range(a.got) : g \in GPUs /\ owner[g] = Nobody /\ a.own[g] = d
             /\ \A g \in GPUs : g \notin Range(a.got) => a.own[g] = owner[g]
<1> DEFINE a == ScaleUpBy(owner, d, Amount[s], Sizes(d))
           O == Ids \cup {Nobody}
<1>1. owner \in [GPUs -> O] /\ d \in O /\ d # Nobody
  BY DEF TypeOK, ManagerAssumption
<1>2. Amount[s] \in Nat /\ Profile(Sizes(d))
  BY DownIsNat, SizesAre
<1>3. a \in Taken(O, owner, d)
  BY <1>1, <1>2, ScaleUpIs
<1> HIDE DEF a, O
<1>4. /\ a.own \in [GPUs -> O] /\ a.got \in Seq(GPUs)
      /\ a.own = Give(owner, Range(a.got), d)
      /\ OneToOne(a.got, Len(a.got))
      /\ Range(a.got) \subseteq FreeGPUs(owner)
  BY <1>3 DEF Taken
<1>5. \A g \in Range(a.got) : g \in GPUs /\ owner[g] = Nobody
  BY <1>4 DEF FreeGPUs
<1> QED  BY <1>4, <1>5 DEF Give, Once, a, O

-----------------------------------------------------------------------------
(* What a step leaves of the invariant that does not touch the books. *)
LEMMA BooksStay ==
  ASSUME Books, UNCHANGED <<owner, resources, batch>>,
         \A d \in Ids : Holding(d)' => Holding(d),
         \A s \in Scales, d \in Ids : Taking(s, d)' => Taking(s, d)
  PROVE  Books'
<1> USE DEF Books
<1>1. RecordedAreOwned'
  BY DEF RecordedAreOwned
<1>2. EachOnce'
  BY DEF EachOnce
<1> QED  BY <1>1, <1>2

LEMMA HeldStay ==
  ASSUME HeldIsRecorded, ExecutorsApart, UNCHANGED <<gpus, executors, resources, batch>>,
         astray \subseteq astray',
         \A d \in Ids : Serving(d) /\ gpus[d] # {} => Serving(d)',
         \A s \in Scales, d \in Ids : Adding(s, d) => Adding(s, d)'
  PROVE  HeldIsRecorded' /\ ExecutorsApart'
<1>1. HeldIsRecorded'
  BY DEF HeldIsRecorded
<1>2. ExecutorsApart'
  BY DEF ExecutorsApart
<1> QED  BY <1>1, <1>2

LEMMA AnswersStay ==
  ASSUME Answers, UNCHANGED <<sc, batch, resources, target, gpus>>, astray \subseteq astray'
  PROVE  Answers'
BY DEF Answers, AnswerOf, Up

LEMMA ScalesStay ==
  ASSUME UNCHANGED scVars
  PROVE  \A s \in Scales, d \in Ids : /\ Taking(s, d)' <=> Taking(s, d)
                                      /\ Adding(s, d)' <=> Adding(s, d)
                                      /\ InLock(s, d)' <=> InLock(s, d)
BY DEF scVars, Taking, Adding, InLock

LEMMA LocksStay ==
  ASSUME LocksHeld, UNCHANGED scVars,
         \A d \in Ids : (\E s \in Scales : InLock(s, d)) =>
                          td'[d] = td[d] \/ td'[d] \notin {"stopping", "freeing", "done"}
  PROVE  LocksHeld'
<1>1. ASSUME NEW d \in Ids, NEW s \in Scales, InLock(s, d)'
      PROVE  /\ \A u \in Scales : InLock(u, d)' => u = s
             /\ td'[d] \notin {"stopping", "freeing"}
             /\ sc'[s] = "updated" => td'[d] # "done"
  <2>1. InLock(s, d) /\ sc'[s] = sc[s] /\ \A u \in Scales : InLock(u, d)' => InLock(u, d)
    BY <1>1, ScalesStay DEF scVars
  <2>2. /\ \A u \in Scales : InLock(u, d) => u = s
        /\ td[d] \notin {"stopping", "freeing"}
        /\ sc[s] = "updated" => td[d] # "done"
    BY <2>1 DEF LocksHeld
  <2>3. td'[d] = td[d] \/ td'[d] \notin {"stopping", "freeing", "done"}
    BY <2>1
  <2> QED  BY <2>1, <2>2, <2>3
<1> QED  BY <1>1 DEF LocksHeld

-----------------------------------------------------------------------------
(* One lemma for each action. *)
LEMMA DeployKeeps ==
  ASSUME ClusterAssumption, ManagerAssumption, IInv, NEW d \in Ids, Deploy(d)
  PROVE  IInv'
<1> USE DEF IInv
<1>1. /\ dep[d] = "idle" /\ dep' \in [Ids -> DepStates]
      /\ \A e \in Ids : e # d => dep'[e] = dep[e]
      /\ dep'[d] \in {"noop", "spawning"}
      /\ UNCHANGED <<owner, resources, td, scVars, tmVars>>
      /\ task_states' \in SUBSET Ids
  BY DEF Deploy, Goto, TypeOK, DepStates
<1>2. TypeOK'
  BY <1>1 DEF TypeOK, scVars, tmVars
<1>3. Found'
  BY <1>1 DEF Found, scVars, TypeOK
<1>4. Phases'
  <2>1. \A e \in task_states' : e \in task_states \/ e = d
    BY DEF Deploy
  <2> QED  BY <1>1, <2>1 DEF Phases, Torn
<1>5. /\ \A e \in Ids : Holding(e)' <=> Holding(e)
      /\ \A e \in Ids : Serving(e) => Serving(e)'
  BY <1>1 DEF Holding, Serving
<1>6. LocksHeld'
  BY <1>1, ScalesStay DEF LocksHeld, scVars
<1>7. Books'
  BY <1>1, <1>5, BooksStay, ScalesStay DEF scVars
<1>8. HeldIsRecorded' /\ ExecutorsApart'
  BY <1>1, <1>5, HeldStay, ScalesStay DEF scVars, tmVars
<1>9. Answers'
  BY <1>1, AnswersStay DEF scVars, tmVars
<1>10. Listed'
  <2>1. CASE task_states' = task_states /\ dep'[d] = "noop"
    BY <1>1, <1>5, <2>1 DEF Listed, Reachable
  <2>2. CASE task_states' = task_states \cup {d} /\ Running(d) = {} /\ dep'[d] = "spawning"
    <3>3. \A e \in task_states' :
            dep'[e] \in {"spawning", "registering", "undo", "release", "popping", "notifying", "ok"}
      BY <1>1, <2>2 DEF Listed, TypeOK
    <3>4. \A e \in Ids : dep'[e] = "spawning" => e \in task_states'
      BY <1>1, <2>2 DEF Listed
    <3>5. \A e \in Ids : Reachable(e) => Reachable(e)'
      BY <1>1, <2>2 DEF Reachable
    <3> QED  BY <1>5, <3>3, <3>4, <3>5 DEF Listed
  <2> QED  BY <2>1, <2>2 DEF Deploy, Goto, TypeOK
<1> QED  BY <1>2, <1>3, <1>4, <1>6, <1>7, <1>8, <1>9, <1>10

(* The state of a Deploy that has not set its deployment yet is nobody      *)
(* else's.                                                                  *)
LEMMA NotFoundYet ==
  ASSUME ManagerAssumption, TypeOK, Found, NEW d \in Ids, dep[d] # "ok"
  PROVE  \A s \in Scales : ~Taking(s, d) /\ ~InLock(s, d) /\ ~Adding(s, d) /\ target[s] # d
<1>1. ASSUME NEW s \in Scales PROVE target[s] # d
  <2>1. d # NoId
    BY DEF ManagerAssumption
  <2> QED  BY <2>1 DEF Found
<1> QED  BY <1>1 DEF Taking, InLock, Adding

LEMMA SpawnAllocateKeeps ==
  ASSUME ClusterAssumption, ManagerAssumption, IInv, NEW d \in Ids, SpawnAllocate(d)
  PROVE  IInv'
<1> USE DEF IInv
<1>1. /\ dep[d] = "spawning" /\ dep' \in [Ids -> DepStates]
      /\ \A e \in Ids : e # d => dep'[e] = dep[e]
      /\ dep'[d] \in {"popping", "registering"}
      /\ UNCHANGED <<task_states, td, scVars, tmVars>>
  BY DEF SpawnAllocate, Goto, TypeOK, DepStates
<1>2. d \in task_states /\ td[d] \notin Torn /\ ~Holding(d) /\ gpus[d] = {}
  BY <1>1 DEF Listed, Phases, Holding, HeldIsRecorded, Serving
<1>3. Found'
  BY <1>1, NotFoundYet DEF Found, scVars, TypeOK
<1>4. Phases'
  BY <1>1, <1>2 DEF Phases
<1>5. LocksHeld'
  BY <1>1, ScalesStay DEF LocksHeld, scVars
<1>6. /\ \A e \in Ids : e # d => (Holding(e)' <=> Holding(e))
      /\ \A e \in Ids : Serving(e) => Serving(e)'
      /\ \A e \in Ids : Reachable(e) => Reachable(e)'
      /\ Reachable(d)'
  BY <1>1, <1>2 DEF Holding, Serving, Reachable, Torn
<1>7. CASE UNCHANGED <<owner, resources>> /\ dep'[d] = "popping"
  <2>1. TypeOK'
    BY <1>1, <1>7 DEF TypeOK, scVars, tmVars
  <2>2. \A e \in Ids : Holding(e)' => Holding(e)
    BY <1>6, <1>7 DEF Holding
  <2>3. Books'
    BY <1>1, <1>7, <2>2, BooksStay, ScalesStay DEF scVars
  <2>4. HeldIsRecorded' /\ ExecutorsApart'
    BY <1>1, <1>6, <1>7, HeldStay, ScalesStay DEF scVars, tmVars
  <2>5. Answers'
    BY <1>1, <1>7, AnswersStay DEF scVars, tmVars
  <2>6. Listed'
    BY <1>1, <1>6, <1>7, <2>2 DEF Listed, TypeOK
  <2> QED  BY <1>3, <1>4, <1>5, <2>1, <2>3, <2>4, <2>5, <2>6
<1>8. CASE /\ ~CannotColocate(owner, d, Least(d))
           /\ resources' = [resources EXCEPT ![d] = Picked(owner, d, Least(d))]
           /\ owner' = Give(owner, Range(Picked(owner, d, Least(d))), d)
           /\ dep'[d] = "registering"
  <2> DEFINE p == Picked(owner, d, Least(d))
  <2>1. p \in Seq(GPUs) /\ Once(p) /\ Range(p) \subseteq FreeGPUs(owner)
    <3>1. Least(d) \in Nat
      BY SizesAre
    <3> QED  BY <1>8, <3>1, PickedIs DEF Once
  <2> HIDE DEF p
  <2>2. /\ resources' \in [Ids -> Seq(GPUs)] /\ resources'[d] = p
        /\ \A e \in Ids : e # d => resources'[e] = resources[e]
        /\ owner' \in [GPUs -> Ids \cup {Nobody}]
        /\ \A g \in Range(p) : g \in GPUs /\ owner[g] = Nobody /\ owner'[g] = d
        /\ \A g \in GPUs : owner[g] # Nobody => owner'[g] = owner[g]
    BY <1>8, <2>1 DEF p, Give, FreeGPUs, TypeOK
  <2>3. TypeOK'
    BY <1>1, <2>2 DEF TypeOK, scVars, tmVars
  <2>4. RecordedAreOwned'
    <3>1. \A e \in Ids, g \in GPUs : owner[g] = e => owner'[g] = e
      BY <2>2 DEF ManagerAssumption
    <3>2. ASSUME NEW e \in Ids, Holding(e)', NEW g \in Range(resources'[e]) PROVE owner'[g] = e
      <4>1. CASE e = d
        BY <2>2, <3>2, <4>1
      <4>2. CASE e # d
        <5>1. Holding(e) /\ g \in Range(resources[e])
          BY <1>6, <2>2, <3>2, <4>2
        <5>2. g \in GPUs
          BY <5>1 DEF TypeOK, Range
        <5> QED  BY <3>1, <5>1, <5>2 DEF Books, RecordedAreOwned
      <4> QED  BY <4>1, <4>2
    <3>3. ASSUME NEW e \in Ids, NEW s \in Scales, Taking(s, e)', NEW g \in Range(batch'[s])
          PROVE  owner'[g] = e
      <4>1. Taking(s, e) /\ g \in Range(batch[s])
        BY <1>1, <3>3, ScalesStay DEF scVars
      <4>2. g \in GPUs
        BY <4>1 DEF TypeOK, Range
      <4> QED  BY <3>1, <4>1, <4>2 DEF Books, RecordedAreOwned
    <3> QED  BY <3>2, <3>3 DEF RecordedAreOwned
  <2>5. EachOnce'
    <3>1. \A s \in Scales : ~Taking(s, d)
      BY <1>1, NotFoundYet
    <3>2. ASSUME NEW e \in Ids, e # d
          PROVE  resources'[e] = resources[e] /\ (Holding(e)' <=> Holding(e))
      BY <1>6, <2>2, <3>2
    <3>3. \A s \in Scales, e \in Ids : Taking(s, e)' <=> Taking(s, e)
      BY <1>1, ScalesStay
    <3>4. batch' = batch
      BY <1>1 DEF scVars
    <3>5. EachOnce
      BY DEF Books
    <3> HIDE DEF IInv
    <3>6. ASSUME NEW e \in Ids, Holding(e)' PROVE Once(resources'[e])
      BY <2>1, <2>2, <3>2, <3>5, <3>6 DEF EachOnce
    <3>7. ASSUME NEW e \in Ids, NEW s \in Scales, Taking(s, e)'
          PROVE  /\ Once(batch'[s])
                 /\ Holding(e)' => Range(batch'[s]) \cap Range(resources'[e]) = {}
                 /\ \A u \in Scales :
                      Taking(u, e)' /\ u # s => Range(batch'[u]) \cap Range(batch'[s]) = {}
      <4>1. Taking(s, e) /\ e # d
        BY <3>1, <3>3, <3>7
      <4>2. /\ Once(batch[s])
            /\ Holding(e) => Range(batch[s]) \cap Range(resources[e]) = {}
            /\ \A u \in Scales : Taking(u, e) /\ u # s => Range(batch[u]) \cap Range(batch[s]) = {}
        BY <3>5, <4>1 DEF EachOnce
      <4> QED  BY <3>2, <3>3, <3>4, <4>1, <4>2
    <3> QED  BY <3>6, <3>7 DEF EachOnce
  <2>6. HeldIsRecorded' /\ ExecutorsApart'
    <3>1. HeldIsRecorded'
      BY <1>1, <1>2, <1>6, <2>2, ScalesStay DEF HeldIsRecorded, tmVars, scVars
    <3> QED  BY <1>1, <3>1 DEF ExecutorsApart, tmVars
  <2>7. Answers'
    <3>1. \A s \in Scales : target[s] # d
      BY <1>1, NotFoundYet
    <3>2. \A s \in Scales : sc[s] \in {"updating", "updated"} => target[s] \in Ids
      BY DEF Found
    <3>3. UNCHANGED <<sc, target, batch, gpus>> /\ \A e \in Ids : e # d => resources'[e] = resources[e]
      BY <1>1, <2>2 DEF tmVars, scVars
    <3>4. ASSUME NEW s \in Scales PROVE AnswerOf(s)'
      <4>1. AnswerOf(s)
        BY DEF Answers
      <4>2. sc[s] \in {"updating", "updated"} => resources'[target[s]] = resources[target[s]]
        BY <3>1, <3>2, <3>3
      <4>3. astray' = astray
        BY <1>1 DEF tmVars
      <4> HIDE DEF IInv
      <4> QED  BY <3>3, <4>1, <4>2, <4>3 DEF AnswerOf, Up
    <3> QED  BY <3>4 DEF Answers
  <2>8. Listed'
    BY <1>1, <1>6, <1>8 DEF Listed, TypeOK
  <2> QED  BY <1>3, <1>4, <1>5, <2>3, <2>4, <2>5, <2>6, <2>7, <2>8 DEF Books
<1> QED  BY <1>7, <1>8 DEF SpawnAllocate, Goto, TypeOK

(* GPUs of d are freed that are not in its books any more. *)
LEMMA BooksAfterFree ==
  ASSUME ManagerAssumption, TypeOK, Books, NEW d \in Ids, NEW gs, owner' = Give(owner, gs, Nobody),
         batch' = batch,
         \A e \in Ids : Holding(e)' =>
           /\ Holding(e) /\ Once(resources'[e]) /\ Range(resources'[e]) \subseteq Range(resources[e]),
         \A s \in Scales, e \in Ids : Taking(s, e)' => Taking(s, e),
         \A g \in gs : g \in GPUs /\ owner[g] = d,
         Holding(d)' => gs \cap Range(resources'[d]) = {},
         \A s \in Scales : Taking(s, d)' => gs \cap Range(batch[s]) = {}
  PROVE  Books' /\ owner' \in [GPUs -> Ids \cup {Nobody}]
<1>1. /\ \A g \in GPUs : g \notin gs => owner'[g] = owner[g]
      /\ owner' \in [GPUs -> Ids \cup {Nobody}]
  BY DEF Give, TypeOK
<1>2. /\ \A e \in Ids : \A g \in Range(resources[e]) : g \in GPUs
      /\ \A s \in Scales : \A g \in Range(batch[s]) : g \in GPUs
  BY DEF TypeOK, Range
<1>3. ASSUME NEW e \in Ids, Holding(e)', NEW g \in Range(resources'[e]) PROVE owner'[g] = e
  <2>1. Holding(e) /\ g \in Range(resources[e])
    BY <1>3
  <2>2. owner[g] = e /\ g \in GPUs
    BY <1>2, <2>1 DEF Books, RecordedAreOwned
  <2>3. g \notin gs
    BY <1>3, <2>2
  <2> QED  BY <1>1, <2>2, <2>3
<1>4. ASSUME NEW e \in Ids, NEW s \in Scales, Taking(s, e)', NEW g \in Range(batch'[s])
      PROVE  owner'[g] = e
  <2>1. Taking(s, e) /\ g \in Range(batch[s])
    BY <1>4
  <2>2. owner[g] = e /\ g \in GPUs
    BY <1>2, <2>1 DEF Books, RecordedAreOwned
  <2>3. g \notin gs
    BY <1>4, <2>1, <2>2
  <2> QED  BY <1>1, <2>2, <2>3
<1>5. RecordedAreOwned'
  BY <1>3, <1>4 DEF RecordedAreOwned
<1>6. ASSUME NEW e \in Ids, NEW s \in Scales, Taking(s, e)'
      PROVE  /\ Once(batch'[s])
             /\ Holding(e)' => Range(batch'[s]) \cap Range(resources'[e]) = {}
             /\ \A u \in Scales :
                  Taking(u, e)' /\ u # s => Range(batch'[u]) \cap Range(batch'[s]) = {}
  <2>1. Taking(s, e)
    BY <1>6
  <2>2. /\ Once(batch[s])
        /\ Holding(e) => Range(batch[s]) \cap Range(resources[e]) = {}
        /\ \A u \in Scales : Taking(u, e) /\ u # s => Range(batch[u]) \cap Range(batch[s]) = {}
    BY <2>1 DEF Books, EachOnce
  <2>3. Holding(e)' => Range(batch[s]) \cap Range(resources'[e]) = {}
    BY <2>2
  <2> QED  BY <2>2, <2>3
<1>7. EachOnce'
  BY <1>6 DEF EachOnce
<1> QED  BY <1>1, <1>5, <1>7 DEF Books

LEMMA RegisterKeeps ==
  ASSUME ClusterAssumption, ManagerAssumption, IInv, NEW d \in Ids, Register(d)
  PROVE  IInv'
<1> USE DEF IInv
<1>1. /\ dep[d] = "registering" /\ dep' \in [Ids -> DepStates]
      /\ \A e \in Ids : e # d => dep'[e] = dep[e]
      /\ dep'[d] \in {"notifying", "undo", "release"}
      /\ UNCHANGED <<owner, task_states, resources, td, scVars>>
  BY DEF Register, Goto, TypeOK, DepStates
<1>2. td[d] \notin Torn /\ gpus[d] = {}
  BY <1>1 DEF Phases, HeldIsRecorded, Serving
<1>3. Found'
  BY <1>1, NotFoundYet DEF Found, scVars, TypeOK
<1>4. Phases'
  BY <1>1, <1>2 DEF Phases
<1>5. LocksHeld'
  BY <1>1, ScalesStay DEF LocksHeld, scVars
<1>6. /\ \A e \in Ids : Holding(e)' <=> Holding(e)
      /\ \A e \in Ids : Serving(e) => Serving(e)'
      /\ \A e \in Ids : Reachable(e) => Reachable(e)'
  BY <1>1, <1>2 DEF Holding, Serving, Reachable, Torn
<1>7. Books'
  BY <1>1, <1>6, BooksStay, ScalesStay DEF scVars
<1>8. Listed'
  BY <1>1, <1>6 DEF Listed, TypeOK
<1>9. CASE /\ UNCHANGED <<gpus, executors>> /\ astray \subseteq astray'
           /\ astray' \in SUBSET Ids
  <2>1. TypeOK'
    BY <1>1, <1>9 DEF TypeOK, scVars
  <2>2. HeldIsRecorded' /\ ExecutorsApart'
    BY <1>1, <1>6, <1>9, HeldStay, ScalesStay DEF scVars
  <2>3. Answers'
    BY <1>1, <1>9, AnswersStay DEF scVars
  <2> QED  BY <1>3, <1>4, <1>5, <1>7, <1>8, <2>1, <2>2, <2>3
<1>10. CASE /\ gpus' = [gpus EXCEPT ![d] = Range(resources[d])]
            /\ executors' = [executors EXCEPT ![d] = Groups(Range(resources[d]), Sizes(d))]
            /\ dep'[d] \in {"notifying", "undo"} /\ astray' = astray
  <2> DEFINE gs == Range(resources[d])
             xs == Groups(gs, Sizes(d))
  <2>1. gs \in SUBSET GPUs
    BY DEF TypeOK, Range
  <2>2. Profile(Sizes(d))
    BY SizesAre
  <2> HIDE DEF gs
  <2>3. /\ xs \in SUBSET SUBSET GPUs
        /\ \A x \in xs : x \subseteq gs
        /\ \A x, y \in xs : x # y => x \cap y = {}
    BY <2>1, <2>2, GroupsAre
  <2> HIDE DEF xs
  <2>4. /\ gpus' \in [Ids -> SUBSET GPUs] /\ executors' \in [Ids -> SUBSET SUBSET GPUs]
        /\ gpus'[d] = gs /\ executors'[d] = xs
        /\ \A e \in Ids : e # d => gpus'[e] = gpus[e] /\ executors'[e] = executors[e]
    BY <1>10, <2>1, <2>3 DEF TypeOK, gs, xs
  <2>5. TypeOK'
    BY <1>1, <1>10, <2>4 DEF TypeOK, scVars
  <2>6. HeldIsRecorded'
    <3>1. Serving(d)'
      BY <1>1, <1>2, <1>10 DEF Serving, Torn
    <3>2. ASSUME NEW e \in Ids \ astray, NEW g \in gpus'[e]
          PROVE  g \in Range(resources'[e]) \/ \E s \in Scales : Adding(s, e)' /\ g \in Range(batch'[s])
      <4>1. CASE e = d
        BY <1>1, <2>4, <3>2, <4>1 DEF gs
      <4>2. CASE e # d
        BY <1>1, <2>4, <3>2, <4>2, ScalesStay DEF HeldIsRecorded, scVars
      <4> QED  BY <4>1, <4>2
    <3>3. ASSUME NEW e \in Ids, gpus'[e] # {} PROVE Serving(e)'
      BY <1>6, <2>4, <3>1, <3>3 DEF HeldIsRecorded
    <3> QED  BY <1>10, <3>2, <3>3 DEF HeldIsRecorded
  <2>7. ExecutorsApart'
    BY <1>10, <2>3, <2>4 DEF ExecutorsApart
  <2>8. Answers'
    <3>1. \A s \in Scales : target[s] # d
      BY <1>1, NotFoundYet
    <3>2. \A s \in Scales :
            sc[s] \in {"updating", "updated", "undoing", "undone"} => target[s] \in Ids
      BY DEF Found
    <3> QED  BY <1>1, <1>10, <2>4, <3>1, <3>2 DEF Answers, AnswerOf, scVars
  <2> QED  BY <1>3, <1>4, <1>5, <1>7, <1>8, <2>5, <2>6, <2>7, <2>8
<1> QED  BY <1>9, <1>10 DEF Register, Strays, Goto, TypeOK

LEMMA UndoKeeps ==
  ASSUME ClusterAssumption, ManagerAssumption, IInv, NEW d \in Ids, Undo(d)
  PROVE  IInv'
<1> USE DEF IInv
<1>1. /\ dep[d] = "release" /\ dep' \in [Ids -> DepStates]
      /\ \A e \in Ids : e # d => dep'[e] = dep[e]
      /\ dep'[d] = "popping"
      /\ owner' = Give(owner, Range(resources[d]), Nobody)
      /\ UNCHANGED <<task_states, resources, td, scVars, tmVars>>
  BY DEF Undo, Free, Goto, TypeOK, DepStates
<1>2. td[d] \notin Torn /\ gpus[d] = {} /\ Holding(d) /\ ~Holding(d)'
  BY <1>1 DEF Phases, HeldIsRecorded, Serving, Holding, Torn
<1>3. Found'
  BY <1>1, NotFoundYet DEF Found, scVars, TypeOK
<1>4. Phases'
  BY <1>1, <1>2 DEF Phases
<1>5. LocksHeld'
  BY <1>1, ScalesStay DEF LocksHeld, scVars
<1>6. /\ \A e \in Ids : Holding(e)' => Holding(e)
      /\ \A e \in Ids : Serving(e) => Serving(e)'
      /\ \A e \in Ids : Reachable(e) => Reachable(e)'
  BY <1>1, <1>2 DEF Holding, Serving, Reachable, Torn
<1>7. Books' /\ owner' \in [GPUs -> Ids \cup {Nobody}]
  <2>1. \A g \in Range(resources[d]) : g \in GPUs /\ owner[g] = d
    BY <1>2 DEF Books, RecordedAreOwned, TypeOK, Range
  <2>2. \A e \in Ids : Holding(e)' =>
          /\ Holding(e) /\ Once(resources'[e]) /\ Range(resources'[e]) \subseteq Range(resources[e])
    BY <1>1, <1>6 DEF Books, EachOnce
  <2>3. \A s \in Scales : ~Taking(s, d)
    BY <1>1, NotFoundYet
  <2> QED  BY <1>1, <1>2, <2>1, <2>2, <2>3, BooksAfterFree, ScalesStay DEF scVars
<1>8. Listed'
  BY <1>1, <1>6 DEF Listed, TypeOK
<1>9. TypeOK'
  BY <1>1, <1>7 DEF TypeOK, scVars, tmVars
<1>10. HeldIsRecorded' /\ ExecutorsApart'
  BY <1>1, <1>6, HeldStay, ScalesStay DEF scVars, tmVars
<1>11. Answers'
  BY <1>1, AnswersStay DEF scVars, tmVars
<1> QED  BY <1>3, <1>4, <1>5, <1>7, <1>8, <1>9, <1>10, <1>11

LEMMA PopKeeps ==
  ASSUME ClusterAssumption, ManagerAssumption, IInv, NEW d \in Ids, Pop(d)
  PROVE  IInv'
<1> USE DEF IInv
<1>1. /\ dep[d] = "popping" /\ dep' \in [Ids -> DepStates]
      /\ \A e \in Ids : e # d => dep'[e] = dep[e]
      /\ dep'[d] = "failed" /\ task_states' = task_states \ {d}
      /\ UNCHANGED <<owner, resources, td, scVars, tmVars>>
  BY DEF Pop, Goto, TypeOK, DepStates
<1>2. td[d] \notin Torn /\ gpus[d] = {} /\ ~Holding(d)
  BY <1>1 DEF Phases, HeldIsRecorded, Serving, Holding
<1>3. TypeOK'
  BY <1>1 DEF TypeOK, scVars, tmVars
<1>4. Found'
  BY <1>1, NotFoundYet DEF Found, scVars, TypeOK
<1>5. Phases'
  BY <1>1, <1>2 DEF Phases
<1>6. LocksHeld'
  BY <1>1, ScalesStay DEF LocksHeld, scVars
<1>7. /\ \A e \in Ids : Holding(e)' <=> Holding(e)
      /\ \A e \in Ids : Serving(e) => Serving(e)'
      /\ \A e \in Ids : e # d /\ Reachable(e) => Reachable(e)'
  BY <1>1, <1>2 DEF Holding, Serving, Reachable, Torn
<1>8. Books'
  BY <1>1, <1>7, BooksStay, ScalesStay DEF scVars
<1>9. HeldIsRecorded' /\ ExecutorsApart'
  BY <1>1, <1>7, HeldStay, ScalesStay DEF scVars, tmVars
<1>10. Answers'
  BY <1>1, AnswersStay DEF scVars, tmVars
<1>11. Listed'
  BY <1>1, <1>2, <1>7 DEF Listed, TypeOK
<1> QED  BY <1>3, <1>4, <1>5, <1>6, <1>8, <1>9, <1>10, <1>11

LEMMA NotifiedKeeps ==
  ASSUME ClusterAssumption, ManagerAssumption, IInv, NEW d \in Ids, Notified(d)
  PROVE  IInv'
<1> USE DEF IInv
<1>1. /\ dep[d] = "notifying" /\ dep' \in [Ids -> DepStates]
      /\ \A e \in Ids : e # d => dep'[e] = dep[e]
      /\ \/ dep'[d] = "ok" /\ task_states' = task_states
         \/ dep'[d] = "stopping" /\ task_states' = task_states \ {d} /\ d \in task_states
         \/ dep'[d] = "disowned" /\ task_states' = task_states /\ d \notin task_states
      /\ UNCHANGED <<owner, resources, td, scVars, tmVars>>
  <2>1. CASE dep' = [dep EXCEPT ![d] = "ok"] /\ task_states' = task_states
    BY <2>1 DEF Notified, TypeOK, DepStates
  <2>2. CASE dep' = [dep EXCEPT ![d] = "stopping"] /\ d \in task_states /\ task_states' = task_states \ {d}
    BY <2>2 DEF Notified, TypeOK, DepStates
  <2>3. CASE dep' = [dep EXCEPT ![d] = "disowned"] /\ d \notin task_states /\ task_states' = task_states
    BY <2>3 DEF Notified, TypeOK, DepStates
  <2> QED  BY <2>1, <2>2, <2>3 DEF Notified, Goto
<1>2. d \in task_states => td[d] \notin Torn
  BY DEF Phases
<1>3. TypeOK'
  BY <1>1 DEF TypeOK, scVars, tmVars
<1>4. Found'
  BY <1>1, NotFoundYet DEF Found, scVars, TypeOK
<1>5. Phases'
  BY <1>1, <1>2 DEF Phases
<1>6. LocksHeld'
  BY <1>1, ScalesStay DEF LocksHeld, scVars
<1>7. /\ \A e \in Ids : Holding(e)' <=> Holding(e)
      /\ \A e \in Ids : Serving(e) => Serving(e)'
      /\ \A e \in Ids : Reachable(e) => Reachable(e)'
  BY <1>1, <1>2 DEF Holding, Serving, Reachable, Torn
<1>8. Books'
  BY <1>1, <1>7, BooksStay, ScalesStay DEF scVars
<1>9. HeldIsRecorded' /\ ExecutorsApart'
  BY <1>1, <1>7, HeldStay, ScalesStay DEF scVars, tmVars
<1>10. Answers'
  BY <1>1, AnswersStay DEF scVars, tmVars
<1>11. Listed'
  BY <1>1, <1>2, <1>7 DEF Listed, TypeOK
<1> QED  BY <1>3, <1>4, <1>5, <1>6, <1>8, <1>9, <1>10, <1>11

LEMMA TeardownKeeps ==
  ASSUME ClusterAssumption, ManagerAssumption, IInv, NEW d \in Ids, Teardown(d)
  PROVE  IInv'
<1> USE DEF IInv
<1>1. PICK ended \in SUBSET Running(d) :
        /\ dep[d] # "idle" /\ td[d] = "no" /\ td' \in [Ids -> TdStates]
        /\ \A e \in Ids : e # d => td'[e] = td[e]
        /\ task_states' = task_states \ ended
        /\ td'[d] \in {"absent", "popped", "asserted"}
        /\ td'[d] = "popped" => d \in ended
        /\ \A e \in ended : td'[d] = IF e = d THEN "popped" ELSE "asserted"
        /\ UNCHANGED <<owner, resources, dep, scVars, tmVars>>
  <2>1. CASE Running(d) = {}
    <3>1. td'[d] = "absent" /\ td' = [td EXCEPT ![d] = "absent"] /\ task_states' = task_states \ {}
      BY <2>1 DEF Teardown, GotoTd, TypeOK
    <3> QED  BY <3>1 DEF Teardown, TypeOK, TdStates
  <2>2. CASE Running(d) # {}
    <3>1. PICK e \in Running(d) :
            /\ task_states' = task_states \ {e}
            /\ td' = [td EXCEPT ![d] = IF e = d THEN "popped" ELSE "asserted"]
      BY <2>2 DEF Teardown, GotoTd
    <3>2. td'[d] = IF e = d THEN "popped" ELSE "asserted"
      BY <3>1 DEF TypeOK
    <3>3. /\ {e} \in SUBSET Running(d) /\ (td'[d] = "popped" => d \in {e})
          /\ \A f \in {e} : td'[d] = IF f = d THEN "popped" ELSE "asserted"
      BY <3>2
    <3>4. td' \in [Ids -> TdStates] /\ \A f \in Ids : f # d => td'[f] = td[f]
      BY <3>1 DEF TypeOK, TdStates
    <3> QED  BY <3>1, <3>2, <3>3, <3>4 DEF Teardown
  <2> QED  BY <2>1, <2>2
<1>2. TypeOK'
  BY <1>1 DEF TypeOK, scVars, tmVars
<1>3. Found'
  BY <1>1 DEF Found, scVars
<1>4. Phases'
  <2>1. td'[d] = "popped" => dep[d] \in {"notifying", "ok"} /\ d \notin task_states'
    BY <1>1 DEF Running
  <2> QED  BY <1>1, <2>1 DEF Phases, Torn
<1>5. LocksHeld'
  <2>1. td'[d] \notin {"stopping", "freeing", "done"}
    BY <1>1
  <2> QED  BY <1>1, <2>1, LocksStay
<1>6. /\ \A e \in Ids : Holding(e)' <=> Holding(e)
      /\ \A e \in Ids : Serving(e) => Serving(e)'
  BY <1>1 DEF Holding, Serving
<1>7. Books'
  BY <1>1, <1>6, BooksStay, ScalesStay DEF scVars
<1>8. HeldIsRecorded' /\ ExecutorsApart'
  BY <1>1, <1>6, HeldStay, ScalesStay DEF scVars, tmVars
<1>9. Answers'
  BY <1>1, AnswersStay DEF scVars, tmVars
<1>10. ASSUME NEW e \in Ids, Reachable(e) PROVE Reachable(e)'
  <2>1. CASE e \in ended
    <3>1. TaskOf[e] = TaskOf[d]
      BY <1>1, <2>1 DEF Running
    <3>2. CASE e = d
      BY <1>1, <2>1, <3>2 DEF Reachable
    <3>3. CASE e # d
      <4>1. td'[d] = "asserted" /\ d \in Others(e)
        BY <1>1, <2>1, <3>1, <3>3 DEF Others
      <4> QED  BY <4>1 DEF Reachable, Others
    <3> QED  BY <3>2, <3>3
  <2>2. CASE e \notin ended
    <3>1. e \in task_states => e \in task_states'
      BY <1>1, <2>2
    <3>2. \A f \in Ids : td[f] \in {"popped", "stopping", "freeing", "asserted"} => td'[f] = td[f]
      BY <1>1
    <3>3. dep' = dep
      BY <1>1
    <3>4. \A f \in Others(e) : f \in Ids
      BY DEF Others
    <3> QED  BY <1>10, <3>1, <3>2, <3>3, <3>4 DEF Reachable, Others
  <2> QED  BY <2>1, <2>2
<1>11. Listed'
  <2>1. task_states' \subseteq task_states
    BY <1>1
  <2>2. \A e \in Ids : dep[e] = "spawning" => e \notin ended
    BY <1>1 DEF Running
  <2> QED  BY <1>1, <1>6, <1>10, <2>1, <2>2 DEF Listed
<1> QED  BY <1>2, <1>3, <1>4, <1>5, <1>7, <1>8, <1>9, <1>11

LEMMA TeardownLocksKeeps ==
  ASSUME ClusterAssumption, ManagerAssumption, IInv, NEW d \in Ids, TeardownLocks(d)
  PROVE  IInv'
<1> USE DEF IInv
<1>1. /\ td[d] = "popped" /\ td' \in [Ids -> TdStates] /\ td'[d] = "stopping"
      /\ \A e \in Ids : e # d => td'[e] = td[e]
      /\ UNCHANGED <<owner, task_states, resources, dep, scVars, tmVars>>
      /\ LockFree(d)
  BY DEF TeardownLocks, GotoTd, TypeOK, TdStates
<1>2. TypeOK'
  BY <1>1 DEF TypeOK, scVars, tmVars
<1>3. Found'
  BY <1>1 DEF Found, scVars
<1>4. Phases'
  BY <1>1 DEF Phases, Torn
<1>5. LocksHeld'
  <2>1. \A s \in Scales : ~InLock(s, d)
    BY <1>1 DEF LockFree, UpdatingBy, InLock
  <2> QED  BY <1>1, <2>1, ScalesStay DEF LocksHeld, scVars
<1>6. /\ \A e \in Ids : Holding(e)' <=> Holding(e)
      /\ \A e \in Ids : Serving(e) => Serving(e)'
      /\ \A e \in Ids : Reachable(e) => Reachable(e)'
  BY <1>1 DEF Holding, Serving, Reachable, Others
<1>7. Books'
  BY <1>1, <1>6, BooksStay, ScalesStay DEF scVars
<1>8. HeldIsRecorded' /\ ExecutorsApart'
  BY <1>1, <1>6, HeldStay, ScalesStay DEF scVars, tmVars
<1>9. Answers'
  BY <1>1, AnswersStay DEF scVars, tmVars
<1>10. Listed'
  BY <1>1, <1>6 DEF Listed
<1> QED  BY <1>2, <1>3, <1>4, <1>5, <1>7, <1>8, <1>9, <1>10

LEMMA ShutdownKeeps ==
  ASSUME ClusterAssumption, ManagerAssumption, IInv, NEW d \in Ids, Shutdown(d)
  PROVE  IInv'
<1> USE DEF IInv
<1>1. /\ \/ td[d] = "stopping" /\ td' = [td EXCEPT ![d] = "freeing"] /\ dep' = dep
         \/ dep[d] = "stopping" /\ dep' = [dep EXCEPT ![d] = "freeing"] /\ td' = td
         \/ dep[d] = "undo" /\ dep' = [dep EXCEPT ![d] = "release"] /\ td' = td
      /\ gpus' = [gpus EXCEPT ![d] = {}] /\ executors' = [executors EXCEPT ![d] = {}]
      /\ astray \subseteq astray' /\ astray' \in SUBSET Ids
      /\ UNCHANGED <<owner, task_states, resources, scVars>>
  BY DEF Shutdown, Strays, Goto, GotoTd, TypeOK
<1>2. TypeOK'
  BY <1>1 DEF TypeOK, scVars, DepStates, TdStates
<1>3. Found'
  <2>1. CASE dep' = dep
    BY <1>1, <2>1 DEF Found, scVars
  <2>2. CASE \/ dep[d] = "stopping" /\ dep' = [dep EXCEPT ![d] = "freeing"]
             \/ dep[d] = "undo" /\ dep' = [dep EXCEPT ![d] = "release"]
    <3>1. \A e \in Ids : e # d => dep'[e] = dep[e]
      BY <2>2 DEF TypeOK
    <3>2. \A s \in Scales : target[s] # d
      BY <2>2, NotFoundYet
    <3> QED  BY <1>1, <3>1, <3>2 DEF Found, scVars, TypeOK
  <2> QED  BY <1>1, <2>1, <2>2
<1>4. Phases'
  BY <1>1 DEF Phases, TypeOK, Torn
<1>5. LocksHeld'
  <2>1. \A e \in Ids : e # d => td'[e] = td[e]
    BY <1>1 DEF TypeOK
  <2>2. td[d] = "stopping" => \A s \in Scales : ~InLock(s, d)
    BY DEF LocksHeld
  <2> QED  BY <1>1, <2>1, <2>2, LocksStay
<1>6. /\ \A e \in Ids : Holding(e)' <=> Holding(e)
      /\ \A e \in Ids : e # d => (Serving(e) <=> Serving(e)')
      /\ \A e \in Ids : Reachable(e) => Reachable(e)'
  <2>1. \A e \in Ids : e # d => dep'[e] = dep[e] /\ td'[e] = td[e]
    BY <1>1 DEF TypeOK
  <2>2. Holding(d)' <=> Holding(d)
    BY <1>1 DEF Holding, TypeOK
  <2>3. \A e \in Ids : td[e] = "asserted" => td'[e] = "asserted"
    BY <1>1 DEF TypeOK
  <2>4. ASSUME Reachable(d) PROVE Reachable(d)'
    <3>1. CASE dep[d] = "undo"
      <4>1. td'[d] = td[d] /\ task_states' = task_states /\ dep[d] \notin {"stopping", "freeing"}
        BY <1>1, <3>1 DEF Phases, Torn
      <4>2. Others(d) \subseteq Ids
        BY DEF Others
      <4> QED  BY <2>3, <2>4, <4>1, <4>2 DEF Reachable, Others
    <3>2. CASE dep[d] # "undo"
      BY <1>1, <3>2 DEF Reachable, TypeOK
    <3> QED  BY <3>1, <3>2
  <2> QED  BY <1>1, <2>1, <2>2, <2>3, <2>4 DEF Holding, Serving, Reachable, Others
<1>7. Books'
  BY <1>1, <1>6, BooksStay, ScalesStay DEF scVars
<1>8. /\ gpus'[d] = {} /\ executors'[d] = {}
      /\ \A e \in Ids : e # d => gpus'[e] = gpus[e] /\ executors'[e] = executors[e]
  BY <1>1 DEF TypeOK
<1>9. HeldIsRecorded'
  <2>1. \A e \in Ids \ astray' : e \in Ids \ astray
    BY <1>1
  <2> QED  BY <1>1, <1>6, <1>8, <2>1, ScalesStay DEF HeldIsRecorded, scVars
<1>10. ExecutorsApart'
  BY <1>1, <1>8 DEF ExecutorsApart
<1>11. Answers'
  <2>1. \A s \in Scales :
          sc[s] \in {"updating", "updated", "undoing", "undone"} => target[s] \in Ids
    BY DEF Found
  <2> QED  BY <1>1, <1>8, <2>1, SMTT(30) DEF Answers, AnswerOf, scVars
<1>12. Listed'
  <2>1. \A e \in task_states : dep'[e] = dep[e] \/ dep'[e] = "release"
    BY <1>1 DEF Listed, TypeOK
  <2>2. \A e \in Ids : dep'[e] = "spawning" => dep[e] = "spawning"
    BY <1>1 DEF TypeOK
  <2> QED  BY <1>1, <1>6, <2>1, <2>2 DEF Listed
<1> QED  BY <1>2, <1>3, <1>4, <1>5, <1>7, <1>9, <1>10, <1>11, <1>12

LEMMA StoppedKeeps ==
  ASSUME ClusterAssumption, ManagerAssumption, IInv, NEW d \in Ids, Stopped(d)
  PROVE  IInv'
<1> USE DEF IInv
<1>1. /\ \/ td[d] = "freeing" /\ td' = [td EXCEPT ![d] = "done"] /\ dep' = dep
         \/ dep[d] = "freeing" /\ dep' = [dep EXCEPT ![d] = "failed"] /\ td' = td
      /\ owner' = Give(owner, Range(resources[d]), Nobody)
      /\ UNCHANGED <<task_states, resources, scVars, tmVars>>
  BY DEF Stopped, Goto, GotoTd, Free
<1>2. Holding(d) /\ ~Holding(d)' /\ gpus[d] = {} /\ \A s \in Scales : ~InLock(s, d)
  <2>1. gpus[d] = {}
    BY <1>1 DEF HeldIsRecorded, Serving
  <2>2. Holding(d) /\ ~Holding(d)'
    BY <1>1 DEF Phases, Holding, TypeOK, Torn
  <2>3. \A s \in Scales : ~InLock(s, d)
    <3>1. CASE td[d] = "freeing"
      BY <3>1 DEF LocksHeld
    <3>2. CASE dep[d] = "freeing"
      BY <3>2, NotFoundYet
    <3> QED  BY <1>1, <3>1, <3>2
  <2> QED  BY <2>1, <2>2, <2>3
<1>3. Found'
  <2>1. CASE dep' = dep
    BY <1>1, <2>1 DEF Found, scVars
  <2>2. CASE dep[d] = "freeing" /\ dep' = [dep EXCEPT ![d] = "failed"]
    <3>1. \A e \in Ids : e # d => dep'[e] = dep[e]
      BY <2>2 DEF TypeOK
    <3>2. \A s \in Scales : target[s] # d
      BY <2>2, NotFoundYet
    <3> QED  BY <1>1, <3>1, <3>2 DEF Found, scVars, TypeOK
  <2> QED  BY <1>1, <2>1, <2>2
<1>4. Phases'
  BY <1>1 DEF Phases, TypeOK, Torn
<1>5. LocksHeld'
  <2>1. \A e \in Ids : e # d => td'[e] = td[e]
    BY <1>1 DEF TypeOK
  <2> QED  BY <1>1, <1>2, <2>1, LocksStay
<1>6. /\ \A e \in Ids : Holding(e)' => Holding(e)
      /\ \A e \in Ids : e # d => (Serving(e) <=> Serving(e)')
      /\ \A e \in Ids : e # d => (Reachable(e) => Reachable(e)')
  <2>1. \A e \in Ids : e # d => dep'[e] = dep[e] /\ td'[e] = td[e]
    BY <1>1 DEF TypeOK
  <2>2. \A e \in Ids : td[e] = "asserted" => td'[e] = "asserted"
    BY <1>1 DEF TypeOK
  <2> QED  BY <1>1, <1>2, <2>1, <2>2 DEF Holding, Serving, Reachable, Others
<1>7. Books' /\ owner' \in [GPUs -> Ids \cup {Nobody}]
  <2>1. \A g \in Range(resources[d]) : g \in GPUs /\ owner[g] = d
    BY <1>2 DEF Books, RecordedAreOwned, TypeOK, Range
  <2>2. \A e \in Ids : Holding(e)' =>
          /\ Holding(e) /\ Once(resources'[e]) /\ Range(resources'[e]) \subseteq Range(resources[e])
    BY <1>1, <1>6 DEF Books, EachOnce
  <2>3. \A s \in Scales : Taking(s, d) => Range(resources[d]) \cap Range(batch[s]) = {}
    BY <1>2 DEF Books, EachOnce
  <2> QED  BY <1>1, <1>2, <2>1, <2>2, <2>3, BooksAfterFree, ScalesStay DEF scVars
<1>8. TypeOK'
  BY <1>1, <1>7 DEF TypeOK, scVars, tmVars, DepStates, TdStates
<1>9. HeldIsRecorded' /\ ExecutorsApart'
  <2>1. \A e \in Ids : Serving(e) /\ gpus[e] # {} => Serving(e)'
    BY <1>2, <1>6
  <2> QED  BY <1>1, <2>1, HeldStay, ScalesStay DEF scVars, tmVars
<1>10. Answers'
  BY <1>1, AnswersStay DEF scVars, tmVars
<1>11. Listed'
  <2>1. \A e \in task_states : dep'[e] = dep[e]
    BY <1>1 DEF Listed, TypeOK
  <2>2. \A e \in Ids : dep'[e] = "spawning" => dep[e] = "spawning"
    BY <1>1 DEF TypeOK
  <2> QED  BY <1>1, <1>2, <1>6, <2>1, <2>2 DEF Listed
<1> QED  BY <1>3, <1>4, <1>5, <1>7, <1>8, <1>9, <1>10, <1>11

(* A step of a Scale moves no other Scale. *)
Moves(s, pc) ==
  /\ sc' = [sc EXCEPT ![s] = pc] /\ pc \in ScStates
  /\ target' \in [Scales -> Ids \cup {NoId}] /\ batch' \in [Scales -> Seq(GPUs)]
  /\ \A u \in Scales : u # s => target'[u] = target[u] /\ batch'[u] = batch[u]

LEMMA OthersStay ==
  ASSUME TypeOK, NEW s \in Scales, NEW pc, Moves(s, pc)
  PROVE  /\ sc' \in [Scales -> ScStates] /\ sc'[s] = pc
         /\ \A u \in Scales : u # s => sc'[u] = sc[u]
         /\ \A u \in Scales, d \in Ids : u # s =>
              /\ Taking(u, d)' <=> Taking(u, d)
              /\ Adding(u, d)' <=> Adding(u, d)
              /\ InLock(u, d)' <=> InLock(u, d)
<1>1. sc' \in [Scales -> ScStates] /\ sc'[s] = pc /\ \A u \in Scales : u # s => sc'[u] = sc[u]
  BY DEF Moves, TypeOK
<1> QED  BY <1>1 DEF Moves, Taking, Adding, InLock, Up

LEMMA OtherAnswers ==
  ASSUME TypeOK, Found, Answers, NEW s \in Scales, NEW pc, Moves(s, pc), astray \subseteq astray',
         \A u \in Scales : u # s /\ InLock(u, target[u]) =>
           gpus'[target[u]] = gpus[target[u]] /\ resources'[target[u]] = resources[target[u]]
  PROVE  \A u \in Scales : u # s => AnswerOf(u)'
<1>1. ASSUME NEW u \in Scales, u # s PROVE AnswerOf(u)'
  <2>1. sc'[u] = sc[u] /\ target'[u] = target[u] /\ batch'[u] = batch[u]
    BY <1>1, OthersStay DEF Moves
  <2>2. AnswerOf(u)
    BY DEF Answers
  <2>3. CASE sc[u] \in {"updating", "updated", "undoing", "undone"}
    <3>1. gpus'[target[u]] = gpus[target[u]] /\ resources'[target[u]] = resources[target[u]]
      BY <1>1, <2>3 DEF InLock
    <3> QED  BY <2>1, <2>2, <3>1 DEF AnswerOf, Up
  <2>4. CASE sc[u] \notin {"updating", "updated", "undoing", "undone"}
    BY <2>1, <2>4 DEF AnswerOf
  <2> QED  BY <2>3, <2>4
<1> QED  BY <1>1

LEMMA TasksStay ==
  ASSUME UNCHANGED <<dep, td, task_states>>
  PROVE  \A d \in Ids : /\ Holding(d)' <=> Holding(d)
                        /\ Serving(d)' <=> Serving(d)
                        /\ Reachable(d)' <=> Reachable(d)
BY DEF Holding, Serving, Reachable, Others

LEMMA ListedStays ==
  ASSUME Listed, UNCHANGED <<dep, td, task_states>>
  PROVE  Listed'
BY TasksStay DEF Listed

(* A state that a Scale finds. *)
LEMMA RunningIs ==
  ASSUME TypeOK, NEW s \in Scales, MayScale(s), NEW d \in Running(s)
  PROVE  d \in Ids /\ d \in task_states /\ dep[d] = "ok" /\ TaskOf[d] = TaskOf[s]
BY DEF Running, MayScale, TypeOK, Returned

LEMMA ScaleNotRunningKeeps ==
  ASSUME ClusterAssumption, ManagerAssumption, IInv, NEW s \in Scales, ScaleNotRunning(s)
  PROVE  IInv'
<1> USE DEF IInv
<1>1. /\ sc[s] = "idle" /\ Moves(s, "ok")
      /\ UNCHANGED <<owner, task_states, resources, dep, td, target, batch, tmVars>>
  BY DEF ScaleNotRunning, GotoSc, Moves, TypeOK, ScStates
<1>2. \A d \in Ids : /\ ~Taking(s, d) /\ ~InLock(s, d) /\ ~Adding(s, d)
                     /\ ~Taking(s, d)' /\ ~InLock(s, d)' /\ ~Adding(s, d)'
  BY <1>1, OthersStay DEF Taking, InLock, Adding
<1>3. TypeOK'
  BY <1>1, OthersStay DEF TypeOK, tmVars
<1>4. Found'
  BY <1>1, OthersStay DEF Found, Up
<1>5. Phases'
  BY <1>1 DEF Phases
<1>6. LocksHeld'
  BY <1>1, <1>2, OthersStay DEF LocksHeld
<1>7. Books'
  BY <1>1, <1>2, OthersStay, TasksStay, BooksStay
<1>8. HeldIsRecorded' /\ ExecutorsApart'
  BY <1>1, <1>2, OthersStay, TasksStay, HeldStay DEF tmVars
<1>9. Answers'
  BY <1>1, OthersStay DEF Answers, AnswerOf, tmVars, Up
<1>10. Listed'
  BY <1>1, ListedStays
<1> QED  BY <1>3, <1>4, <1>5, <1>6, <1>7, <1>8, <1>9, <1>10

LEMMA ScaleDownKeeps ==
  ASSUME ClusterAssumption, ManagerAssumption, IInv, NEW s \in Scales, ScaleDown(s)
  PROVE  IInv'
<1> USE DEF IInv
<1>1. PICK d \in Running(s) :
        /\ sc[s] = "idle" /\ ~Up(s) /\ MayScale(s)
        /\ \/ sc' = [sc EXCEPT ![s] = "raised"] /\ UNCHANGED target
           \/ sc' = [sc EXCEPT ![s] = "locking"] /\ target' = [target EXCEPT ![s] = d]
        /\ UNCHANGED <<owner, task_states, resources, dep, td, batch, tmVars>>
  BY DEF ScaleDown, GotoSc
<1>2. d \in Ids /\ dep[d] = "ok" /\ TaskOf[d] = TaskOf[s] /\ d # NoId
  BY <1>1, RunningIs DEF ManagerAssumption
<1>3. PICK pc \in {"raised", "locking"} :
        /\ Moves(s, pc)
        /\ \/ pc = "raised" /\ target'[s] = target[s]
           \/ pc = "locking" /\ target'[s] = d
  <2>1. CASE sc' = [sc EXCEPT ![s] = "raised"] /\ UNCHANGED target
    <3>1. Moves(s, "raised")
      BY <1>1, <2>1 DEF Moves, TypeOK, ScStates
    <3> QED  BY <2>1, <3>1
  <2>2. CASE sc' = [sc EXCEPT ![s] = "locking"] /\ target' = [target EXCEPT ![s] = d]
    <3>1. Moves(s, "locking") /\ target'[s] = d
      BY <1>1, <1>2, <2>2 DEF Moves, TypeOK, ScStates
    <3> QED  BY <3>1
  <2> QED  BY <1>1, <2>1, <2>2
<1>4. \A e \in Ids : /\ ~Taking(s, e) /\ ~InLock(s, e) /\ ~Adding(s, e)
                     /\ ~Taking(s, e)' /\ ~InLock(s, e)' /\ ~Adding(s, e)'
  BY <1>1, <1>3, OthersStay DEF Taking, InLock, Adding, Up
<1>5. TypeOK'
  <2>1. ASSUME NEW u \in Scales, target'[u] # NoId PROVE TaskOf[target'[u]] = TaskOf[u]
    <3>1. target[u] # NoId => TaskOf[target[u]] = TaskOf[u]
      BY DEF TypeOK
    <3>2. CASE u = s
      BY <1>2, <1>3, <2>1, <3>1, <3>2
    <3>3. CASE u # s
      BY <1>3, <2>1, <3>1, <3>3 DEF Moves
    <3> QED  BY <3>2, <3>3
  <2> QED  BY <1>1, <1>3, <2>1, OthersStay DEF TypeOK, tmVars, Moves
<1>6. Found'
  BY <1>1, <1>2, <1>3, OthersStay DEF Found, Up, Moves
<1>7. Phases'
  BY <1>1 DEF Phases
<1>8. LocksHeld'
  BY <1>1, <1>3, <1>4, OthersStay DEF LocksHeld
<1>9. Books'
  BY <1>1, <1>3, <1>4, OthersStay, TasksStay, BooksStay
<1>10. HeldIsRecorded' /\ ExecutorsApart'
  BY <1>1, <1>3, <1>4, OthersStay, TasksStay, HeldStay DEF tmVars
<1>11. Answers'
  <2>1. \A u \in Scales : u # s => AnswerOf(u)'
    BY <1>1, <1>3, OtherAnswers DEF tmVars
  <2>2. AnswerOf(s)'
    BY <1>3, OthersStay DEF AnswerOf
  <2> QED  BY <2>1, <2>2 DEF Answers
<1>12. Listed'
  BY <1>1, ListedStays
<1> QED  BY <1>5, <1>6, <1>7, <1>8, <1>9, <1>10, <1>11, <1>12

LEMMA ScaleLocksKeeps ==
  ASSUME ClusterAssumption, ManagerAssumption, IInv, NEW s \in Scales, ScaleLocks(s)
  PROVE  IInv'
<1> USE DEF IInv
<1>1. PICK d \in Ids : d = target[s]
  BY DEF ScaleLocks, Found
<1>2. /\ sc[s] = "locking" /\ sc' = [sc EXCEPT ![s] = "updating"] /\ LockFree(d)
      /\ batch' = [batch EXCEPT ![s] = IF Up(s) THEN batch[s] ELSE Prefix(resources[d], -Amount[s])]
      /\ UNCHANGED <<owner, task_states, resources, dep, td, target, tmVars>>
  BY <1>1 DEF ScaleLocks, GotoSc
<1>3. /\ Moves(s, "updating")
      /\ Up(s) => batch' = batch
      /\ ~Up(s) => batch'[s] = Prefix(resources[d], -Amount[s])
  <2>1. resources[d] \in Seq(GPUs) /\ batch[s] \in Seq(GPUs)
    BY DEF TypeOK
  <2>2. ~Up(s) => Prefix(resources[d], -Amount[s]) \in Seq(GPUs)
    BY <2>1, DownIsNat, PrefixIs
  <2> QED  BY <1>2, <2>1, <2>2 DEF Moves, TypeOK, ScStates
<1>4. \A e \in Ids : /\ Taking(s, e)' <=> Taking(s, e)
                     /\ ~Adding(s, e) /\ ~Adding(s, e)'
  BY <1>2, <1>3, OthersStay DEF Taking, Adding, Up
<1>5. TypeOK'
  BY <1>2, <1>3, OthersStay DEF TypeOK, tmVars, Moves
<1>6. Found'
  BY <1>2, <1>3, OthersStay DEF Found, Up
<1>7. Phases'
  BY <1>2 DEF Phases
<1>8. LocksHeld'
  <2>1. /\ td[d] \notin {"stopping", "freeing"}
        /\ \A u \in Scales : ~InLock(u, d)
    BY <1>2 DEF LockFree, UpdatingBy, InLock
  <2>2. \A e \in Ids : InLock(s, e)' => e = d
    BY <1>1, <1>2 DEF InLock
  <2>3. ASSUME NEW e \in Ids, NEW u \in Scales, InLock(u, e)'
        PROVE  /\ \A v \in Scales : InLock(v, e)' => v = u
               /\ td'[e] \notin {"stopping", "freeing"}
               /\ sc'[u] = "updated" => td'[e] # "done"
    <3>1. CASE e = d
      <4>1. \A v \in Scales : InLock(v, d)' => v = s
        <5>1. ASSUME NEW v \in Scales, v # s PROVE ~InLock(v, d)'
          BY <1>3, <2>1, <5>1, OthersStay
        <5> QED  BY <5>1
      <4> QED  BY <1>2, <1>3, <2>1, <2>3, <3>1, <4>1, OthersStay
    <3>2. CASE e # d
      <4>1. \A v \in Scales : InLock(v, e)' => InLock(v, e) /\ v # s /\ sc'[v] = sc[v]
        BY <1>3, <2>2, <3>2, OthersStay
      <4> QED  BY <1>2, <2>3, <4>1 DEF LocksHeld
    <3> QED  BY <3>1, <3>2
  <2> QED  BY <2>3 DEF LocksHeld
<1>9. /\ \A u \in Scales, e \in Ids : Taking(u, e) => batch'[u] = batch[u]
      /\ \A u \in Scales, e \in Ids : Taking(u, e)' <=> Taking(u, e)
      /\ \A u \in Scales, e \in Ids : Adding(u, e)' <=> Adding(u, e)
  <2>1. \A e \in Ids : Taking(s, e) => Up(s)
    BY DEF Taking
  <2>2. \A u \in Scales : u # s => batch'[u] = batch[u]
    BY <1>3 DEF Moves
  <2>3. \A u \in Scales, e \in Ids : Taking(u, e) => batch'[u] = batch[u]
    BY <1>3, <2>1, <2>2
  <2> QED  BY <1>3, <1>4, <2>3, OthersStay
<1>10. RecordedAreOwned'
  BY <1>2, <1>9, TasksStay DEF Books, RecordedAreOwned
<1>11. EachOnce'
  BY <1>2, <1>9, TasksStay DEF Books, EachOnce
<1>12. HeldIsRecorded'
  <2>1. \A u \in Scales, e \in Ids : Adding(u, e) => batch'[u] = batch[u]
    BY <1>9 DEF Adding
  <2> QED  BY <1>2, <1>9, <2>1, TasksStay DEF HeldIsRecorded, tmVars
<1>13. ExecutorsApart'
  BY <1>2 DEF ExecutorsApart, tmVars
<1>14. Answers'
  <2>1. \A u \in Scales : u # s => AnswerOf(u)'
    BY <1>2, <1>3, OtherAnswers DEF tmVars
  <2>2. AnswerOf(s)'
    BY <1>1, <1>2, <1>3, OthersStay DEF AnswerOf, Up
  <2> QED  BY <2>1, <2>2 DEF Answers
<1>15. Listed'
  BY <1>2, ListedStays
<1> QED  BY <1>5, <1>6, <1>7, <1>8, <1>10, <1>11, <1>12, <1>13, <1>14, <1>15 DEF Books

(* The GPUs that a scale-up takes were nobody's, so that they are in no     *)
(* books.                                                                   *)
LEMMA BooksAfterTaking ==
  ASSUME ManagerAssumption, TypeOK, Books, NEW gs, UNCHANGED <<dep, td, task_states, resources>>,
         \A g \in gs : g \in GPUs /\ owner[g] = Nobody,
         \A g \in GPUs : g \notin gs => owner'[g] = owner[g]
  PROVE  /\ \A d \in Ids : Holding(d) =>
              /\ \A g \in Range(resources[d]) : g \notin gs /\ owner'[g] = d
         /\ \A s \in Scales, d \in Ids : Taking(s, d) =>
              /\ \A g \in Range(batch[s]) : g \notin gs /\ owner'[g] = d
<1>1. /\ \A e \in Ids : \A g \in Range(resources[e]) : g \in GPUs
      /\ \A s \in Scales : \A g \in Range(batch[s]) : g \in GPUs
  BY DEF TypeOK, Range
<1>2. Nobody \notin Ids
  BY DEF ManagerAssumption
<1> QED  BY <1>1, <1>2 DEF Books, RecordedAreOwned

LEMMA ScaleUpKeeps ==
  ASSUME ClusterAssumption, ManagerAssumption, IInv, NEW s \in Scales, ScaleUp(s)
  PROVE  IInv'
<1> USE DEF IInv
<1>1. PICK d \in Running(s) :
        LET a == ScaleUpBy(owner, d, Amount[s], Sizes(d))
        IN  /\ sc[s] = "idle" /\ Up(s) /\ MayScale(s)
            /\ owner' = a.own
            /\ target' = [target EXCEPT ![s] = d]
            /\ batch' = [batch EXCEPT ![s] = a.got]
            /\ \E pc \in {"raised", "locking"} : sc' = [sc EXCEPT ![s] = pc]
            /\ UNCHANGED <<task_states, resources, dep, td, tmVars>>
  BY DEF ScaleUp, GotoSc
<1> DEFINE a == ScaleUpBy(owner, d, Amount[s], Sizes(d))
           gs == Range(a.got)
<1>2. d \in Ids /\ dep[d] = "ok" /\ TaskOf[d] = TaskOf[s] /\ d # NoId
  BY <1>1, RunningIs DEF ManagerAssumption
<1>3. /\ a.own \in [GPUs -> Ids \cup {Nobody}] /\ a.got \in Seq(GPUs)
      /\ Once(a.got)
      /\ \A g \in gs : g \in GPUs /\ owner[g] = Nobody /\ a.own[g] = d
      /\ \A g \in GPUs : g \notin gs => a.own[g] = owner[g]
  BY <1>1, <1>2, ScaleUpTakes
<1>4. owner' = a.own
  BY <1>1
<1> DEFINE got == a.got
<1> HIDE DEF a
<1>5. PICK pc \in {"raised", "locking"} :
        Moves(s, pc) /\ target'[s] = d /\ batch'[s] = got
  <2>1. target' = [target EXCEPT ![s] = d] /\ batch' = [batch EXCEPT ![s] = got]
    BY <1>1 DEF a
  <2>2. PICK pc \in {"raised", "locking"} : sc' = [sc EXCEPT ![s] = pc]
    BY <1>1
  <2>3. Moves(s, pc) /\ target'[s] = d /\ batch'[s] = got
    BY <1>2, <1>3, <2>1, <2>2 DEF Moves, TypeOK, ScStates
  <2> QED  BY <2>3
<1> HIDE DEF got
<1>6. UNCHANGED <<task_states, resources, dep, td, tmVars>> /\ sc[s] = "idle" /\ Up(s)
  BY <1>1
<1>7. /\ \A e \in Ids : /\ ~Taking(s, e) /\ ~InLock(s, e) /\ ~Adding(s, e)
                        /\ ~InLock(s, e)' /\ ~Adding(s, e)'
      /\ \A e \in Ids : Taking(s, e)' => e = d
  BY <1>5, <1>6, OthersStay DEF Taking, InLock, Adding
<1>8. TypeOK'
  <2>1. ASSUME NEW u \in Scales, target'[u] # NoId PROVE TaskOf[target'[u]] = TaskOf[u]
    <3>1. target[u] # NoId => TaskOf[target[u]] = TaskOf[u]
      BY DEF TypeOK
    <3>2. CASE u = s
      BY <1>2, <1>5, <3>2
    <3>3. CASE u # s
      BY <1>5, <2>1, <3>1, <3>3 DEF Moves
    <3> QED  BY <3>2, <3>3
  <2> QED  BY <1>3, <1>4, <1>5, <1>6, <2>1, OthersStay DEF TypeOK, tmVars, Moves
<1>9. Found'
  <2>1. dep' = dep
    BY <1>6
  <2>2. /\ sc'[s] \in {"locking", "updating", "updated", "undoing", "undone"} => target'[s] \in Ids
        /\ target'[s] # NoId => dep'[target'[s]] = "ok"
        /\ sc'[s] \notin {"undoing", "undone"}
    BY <1>2, <1>5, <2>1, OthersStay DEF Found
  <2>3. \A u \in Scales : u # s => sc'[u] = sc[u] /\ target'[u] = target[u]
    BY <1>5, OthersStay DEF Moves
  <2> QED  BY <2>1, <2>2, <2>3 DEF Found, Up
<1>10. Phases'
  BY <1>6 DEF Phases
<1>11. LocksHeld'
  BY <1>5, <1>6, <1>7, OthersStay DEF LocksHeld
<1>12. /\ \A e \in Ids : Holding(e) =>
            /\ \A g \in Range(resources[e]) : g \notin gs /\ owner'[g] = e
       /\ \A u \in Scales, e \in Ids : Taking(u, e) =>
            /\ \A g \in Range(batch[u]) : g \notin gs /\ owner'[g] = e
  <2>1. /\ \A g \in gs : g \in GPUs /\ owner[g] = Nobody
        /\ \A g \in GPUs : g \notin gs => owner'[g] = owner[g]
    BY <1>3, <1>4
  <2> HIDE DEF gs
  <2> QED  BY <1>6, <2>1, BooksAfterTaking
<1>13. \A u \in Scales, e \in Ids : u # s =>
         /\ Taking(u, e)' <=> Taking(u, e)
         /\ batch'[u] = batch[u]
  BY <1>5, OthersStay DEF Moves
<1>14. \A e \in Ids : Taking(s, e)' => e = d /\ batch'[s] = got
  BY <1>5, <1>7
<1>15. \A e \in Ids : /\ Holding(e)' <=> Holding(e)
                      /\ resources'[e] = resources[e]
  BY <1>6, TasksStay
<1>16. RecordedAreOwned'
  <2>1. ASSUME NEW e \in Ids, NEW u \in Scales, Taking(u, e)', NEW g \in Range(batch'[u])
        PROVE  owner'[g] = e
    <3>1. CASE u = s
      BY <1>3, <1>4, <1>14, <2>1, <3>1 DEF got
    <3>2. CASE u # s
      BY <1>12, <1>13, <2>1, <3>2
    <3> QED  BY <3>1, <3>2
  <2> QED  BY <1>12, <1>15, <2>1 DEF RecordedAreOwned
<1>17. EachOnce'
  <2>1. EachOnce
    BY DEF Books
  <2> HIDE DEF IInv
  <2>2. ASSUME NEW e \in Ids, NEW u \in Scales, Taking(u, e)'
        PROVE  /\ Once(batch'[u])
               /\ Holding(e)' => Range(batch'[u]) \cap Range(resources'[e]) = {}
               /\ \A v \in Scales :
                    Taking(v, e)' /\ v # u => Range(batch'[v]) \cap Range(batch'[u]) = {}
    <3>1. CASE u = s
      <4>1. e = d /\ batch'[u] = got /\ gs = Range(got)
        BY <1>14, <2>2, <3>1 DEF got
      <4>2. Once(batch'[u])
        BY <1>3, <4>1 DEF got
      <4>3. Holding(e)' => Range(batch'[u]) \cap Range(resources'[e]) = {}
        BY <1>12, <1>15, <4>1
      <4>4. \A v \in Scales : Taking(v, e)' /\ v # u => Range(batch'[v]) \cap Range(batch'[u]) = {}
        BY <1>12, <1>13, <3>1, <4>1
      <4> QED  BY <4>2, <4>3, <4>4
    <3>2. CASE u # s
      <4>1. Taking(u, e) /\ batch'[u] = batch[u]
        BY <1>13, <2>2, <3>2
      <4>2. /\ Once(batch[u])
            /\ Holding(e) => Range(batch[u]) \cap Range(resources[e]) = {}
            /\ \A v \in Scales : Taking(v, e) /\ v # u => Range(batch[v]) \cap Range(batch[u]) = {}
        BY <2>1, <4>1 DEF EachOnce
      <4>3. ASSUME NEW v \in Scales, Taking(v, e)', v # u
            PROVE  Range(batch'[v]) \cap Range(batch'[u]) = {}
        <5>1. CASE v = s
          <6>1. batch'[v] = got /\ gs = Range(got)
            BY <1>14, <4>3, <5>1 DEF got
          <6> QED  BY <1>12, <4>1, <6>1
        <5>2. CASE v # s
          BY <1>13, <4>1, <4>2, <4>3, <5>2
        <5> QED  BY <5>1, <5>2
      <4> QED  BY <1>15, <4>1, <4>2, <4>3
    <3> QED  BY <3>1, <3>2
  <2>3. \A e \in Ids : Holding(e)' => Once(resources'[e])
    BY <1>15, <2>1 DEF EachOnce
  <2> QED  BY <2>2, <2>3 DEF EachOnce
<1>18. HeldIsRecorded'
  <2>1. \A u \in Scales, e \in Ids : Adding(u, e) => Adding(u, e)' /\ batch'[u] = batch[u]
    BY <1>5, <1>7, <1>13, OthersStay
  <2> QED  BY <1>6, <2>1, TasksStay DEF HeldIsRecorded, tmVars
<1>19. ExecutorsApart'
  BY <1>6 DEF ExecutorsApart, tmVars
<1>20. Answers'
  <2>1. \A u \in Scales : u # s => AnswerOf(u)'
    BY <1>5, <1>6, OtherAnswers DEF tmVars
  <2>2. AnswerOf(s)'
    BY <1>5, OthersStay DEF AnswerOf
  <2> QED  BY <2>1, <2>2 DEF Answers
<1>21. Listed'
  BY <1>6, ListedStays
<1> QED  BY <1>8, <1>9, <1>10, <1>11, <1>16, <1>17, <1>18, <1>19, <1>20, <1>21 DEF Books

LEMMA UpdateKeeps ==
  ASSUME ClusterAssumption, ManagerAssumption, IInv, NEW s \in Scales, Update(s)
  PROVE  IInv'
<1> USE DEF IInv
<1>1. PICK d \in Ids : d = target[s]
  BY DEF Update, Found
<1> DEFINE these  == Range(batch[s])
           adding == Up(s) /\ sc[s] = "updating"
           add    == IF adding THEN these ELSE {}
           remove == IF adding THEN {} ELSE these
           good   == IF sc[s] = "undoing" THEN "undone" ELSE "updated"
           bad    == IF sc[s] = "undoing" THEN "undone" ELSE IF Up(s) THEN "undoing" ELSE "failed"
           Refused == /\ sc' = [sc EXCEPT ![s] = bad] /\ UNCHANGED <<gpus, executors>>
                      /\ astray' = IF sc[s] = "undoing" /\ remove \cap gpus[d] # {}
                                   THEN astray \cup {d} ELSE astray
           wanted(busy) == Groups(Idle(d, add, remove, busy), Sizes(d))
           Done(busy, up, stuck, pc) ==
             /\ ~Gone(d) /\ remove \subseteq gpus[d] /\ add \cap gpus[d] = {}
             /\ UpdateResources(d, add, remove, up, busy \cup stuck)
             /\ sc' = [sc EXCEPT ![s] = pc]
           Updating == \E busy \in SUBSET Losing(d, remove) :
                         \E up \in SUBSET wanted(busy) : \E stuck \in SUBSET (wanted(busy) \ up) :
                           \E pc \in {good, bad} : Done(busy, up, stuck, pc)
<1>2. /\ sc[s] \in {"updating", "undoing"}
      /\ Refused \/ Updating
      /\ UNCHANGED <<owner, task_states, resources, dep, td, target, batch>>
  <2>1. sc[s] \in {"updating", "undoing"}
    BY <1>1 DEF Update
  <2>2. UNCHANGED <<owner, task_states, resources, dep, td, target, batch>>
    BY <1>1 DEF Update
  <2>3. Refused \/ Updating
    BY <1>1, ZenonT(60) DEF Update, GotoSc
  <2> QED  BY <2>1, <2>2, <2>3
<1>3. /\ these \subseteq GPUs /\ gpus[d] \subseteq GPUs /\ dep[d] = "ok"
      /\ sc[s] = "undoing" => Up(s)
      /\ d # NoId
  BY <1>1 DEF TypeOK, Found, Range, ManagerAssumption
<1>4. InLock(s, d) /\ td[d] \notin {"stopping", "freeing"} /\ \A u \in Scales : InLock(u, d) => u = s
  BY <1>1, <1>2 DEF InLock, LocksHeld
<1>5. ASSUME NEW pc \in {good, bad}, sc' = [sc EXCEPT ![s] = pc],
             pc = "updated" => ~Gone(d),
             gpus' \in [Ids -> SUBSET GPUs], executors' \in [Ids -> SUBSET SUBSET GPUs],
             astray \subseteq astray', astray' \in SUBSET Ids,
             \A e \in Ids : e # d => gpus'[e] = gpus[e] /\ executors'[e] = executors[e],
             gpus'[d] # {} => ~Gone(d),
             \A g \in gpus'[d] : g \in gpus[d] \/ (adding /\ g \in these),
             adding => pc = "updated" \/ pc = "undoing",
             d \notin astray' /\ ~adding /\ pc \in {"updated", "undone"} => these \cap gpus'[d] = {},
             d \notin astray' => /\ \A x \in executors'[d] : x \subseteq gpus'[d]
                                /\ \A x, y \in executors'[d] : x # y => x \cap y = {}
      PROVE  IInv'
  <2> HIDE DEF these
  <2>1. Moves(s, pc)
    BY <1>2, <1>5 DEF Moves, TypeOK, ScStates
  <2>2. /\ sc' \in [Scales -> ScStates] /\ sc'[s] = pc
        /\ \A u \in Scales : u # s => sc'[u] = sc[u]
    BY <2>1, OthersStay
  <2>3. /\ pc \in {"updated", "undoing", "undone", "failed"}
        /\ pc \in {"undoing", "undone"} => Up(s)
        /\ pc = "failed" => ~Up(s)
        /\ pc = "updated" => sc[s] = "updating"
        /\ pc = "undoing" => adding
        /\ pc = "undone" => sc[s] = "undoing"
    BY <1>2, <1>3, <1>5
  <2>4. \A u \in Scales, e \in Ids : Taking(u, e)' <=> Taking(u, e)
    <3>1. \A e \in Ids : Taking(s, e)' <=> Taking(s, e)
      BY <1>2, <2>2, <2>3 DEF Taking, Up
    <3> QED  BY <2>1, <3>1, OthersStay
  <2>5. TypeOK'
    BY <1>2, <1>5, <2>2 DEF TypeOK
  <2>6. Found'
    BY <1>1, <1>2, <2>2, <2>3 DEF Found, Up
  <2>7. Phases'
    BY <1>2 DEF Phases
  <2>8. LocksHeld'
    <3>1. \A u \in Scales, e \in Ids : InLock(u, e)' => InLock(u, e)
      <4>1. \A e \in Ids : InLock(s, e)' => InLock(s, e)
        BY <1>2, <2>2 DEF InLock
      <4> QED  BY <2>1, <4>1, OthersStay
    <3>2. ASSUME NEW e \in Ids, NEW u \in Scales, InLock(u, e)', sc'[u] = "updated"
          PROVE  td'[e] # "done"
      <4>1. CASE u = s
        BY <1>1, <1>2, <1>5, <2>2, <3>2, <4>1 DEF InLock, Gone
      <4>2. CASE u # s
        BY <1>2, <2>2, <3>1, <3>2, <4>2 DEF LocksHeld
      <4> QED  BY <4>1, <4>2
    <3> QED  BY <1>2, <3>1, <3>2 DEF LocksHeld
  <2>9. Books'
    BY <1>2, <2>4, TasksStay, BooksStay
  <2>10. HeldIsRecorded'
    <3>1. \A u \in Scales, e \in Ids : u # s => (Adding(u, e)' <=> Adding(u, e))
      BY <2>1, OthersStay
    <3>2. ASSUME NEW e \in Ids \ astray', NEW g \in gpus'[e]
          PROVE  g \in Range(resources[e]) \/ \E u \in Scales : Adding(u, e)' /\ g \in Range(batch[u])
      <4>1. CASE e # d
        <5>1. g \in gpus[e]
          BY <1>5, <3>2, <4>1
        <5>2. g \in Range(resources[e]) \/ \E u \in Scales : Adding(u, e) /\ g \in Range(batch[u])
          BY <1>5, <3>2, <5>1 DEF HeldIsRecorded
        <5>3. ~Adding(s, e)
          BY <1>1, <4>1 DEF Adding, Taking
        <5> QED  BY <3>1, <5>2, <5>3
      <4>2. CASE e = d /\ g \in gpus[d]
        <5>1. g \in Range(resources[d]) \/ \E u \in Scales : Adding(u, d) /\ g \in Range(batch[u])
          BY <1>5, <3>2, <4>2 DEF HeldIsRecorded
        <5>2. ASSUME Adding(s, d), g \in Range(batch[s]) PROVE FALSE
          <6>1. sc[s] = "undoing"
            BY <1>2, <5>2 DEF Adding
          <6>2. pc = "undone" /\ ~adding
            BY <1>5, <6>1
          <6> QED  BY <1>5, <3>2, <4>2, <5>2, <6>2 DEF these
        <5> QED  BY <3>1, <4>2, <5>1, <5>2
      <4>3. CASE e = d /\ adding /\ g \in these
        <5>1. Adding(s, d)'
          BY <1>1, <1>2, <1>5, <2>2, <4>3 DEF Adding, Taking, Up
        <5> QED  BY <4>3, <5>1 DEF these
      <4> QED  BY <1>5, <3>2, <4>1, <4>2, <4>3
    <3>3. ASSUME NEW e \in Ids, gpus'[e] # {} PROVE Serving(e)'
      <4>1. CASE e = d
        BY <1>2, <1>3, <1>5, <3>3, <4>1 DEF Serving, Gone
      <4>2. CASE e # d
        BY <1>2, <1>5, <3>3, <4>2, TasksStay DEF HeldIsRecorded
      <4> QED  BY <4>1, <4>2
    <3> QED  BY <1>2, <3>2, <3>3 DEF HeldIsRecorded
  <2>11. ExecutorsApart'
    BY <1>5 DEF ExecutorsApart
  <2>12. Answers'
    <3>1. ASSUME NEW u \in Scales, u # s, InLock(u, target[u])
          PROVE  gpus'[target[u]] = gpus[target[u]] /\ resources'[target[u]] = resources[target[u]]
      <4>1. target[u] \in Ids
        BY <3>1 DEF InLock, Found
      <4>2. target[u] # d
        BY <1>4, <3>1
      <4> QED  BY <1>2, <1>5, <4>1, <4>2
    <3>2. \A u \in Scales : u # s => AnswerOf(u)'
      <4>1. \A u \in Scales : u # s /\ InLock(u, target[u]) =>
              gpus'[target[u]] = gpus[target[u]] /\ resources'[target[u]] = resources[target[u]]
        BY <3>1
      <4>2. astray \subseteq astray'
        BY <1>5
      <4> HIDE DEF AnswerOf, InLock
      <4> QED  BY <2>1, <4>1, <4>2, OtherAnswers
    <3>3. AnswerOf(s)'
      <4>1. target'[s] = d /\ batch'[s] = batch[s] /\ resources' = resources
        BY <1>1, <1>2
      <4>2. CASE pc = "updated"
        <5>1. ~Up(s) => batch[s] = Prefix(resources[d], -Amount[s])
          BY <1>1, <2>3, <4>2 DEF Answers, AnswerOf
        <5> QED  BY <1>5, <2>2, <4>1, <4>2, <5>1 DEF AnswerOf, Up, these
      <4>3. CASE pc = "undoing"
        BY <1>5, <2>2, <2>3, <4>1, <4>3 DEF AnswerOf, these
      <4>4. CASE pc = "undone"
        BY <1>5, <2>2, <2>3, <4>1, <4>4 DEF AnswerOf, these
      <4>5. CASE pc = "failed"
        BY <2>2, <4>5 DEF AnswerOf
      <4> QED  BY <2>3, <4>2, <4>3, <4>4, <4>5
    <3> QED  BY <3>2, <3>3 DEF Answers
  <2>13. Listed'
    BY <1>2, ListedStays
  <2> QED  BY <2>5, <2>6, <2>7, <2>8, <2>9, <2>10, <2>11, <2>12, <2>13
<1>6. Gone(d) => gpus[d] = {}
  BY DEF HeldIsRecorded, Serving, Gone
<1>7. CASE Refused
  <2>1. gpus' = gpus /\ executors' = executors /\ astray \subseteq astray' /\ astray' \in SUBSET Ids
    BY <1>7 DEF TypeOK
  <2>2. gpus' \in [Ids -> SUBSET GPUs] /\ executors' \in [Ids -> SUBSET SUBSET GPUs]
    BY <2>1 DEF TypeOK
  <2>3. d \notin astray' => /\ \A x \in executors[d] : x \subseteq gpus[d]
                           /\ \A x, y \in executors[d] : x # y => x \cap y = {}
    BY <2>1 DEF ExecutorsApart
  <2>4. d \notin astray' /\ bad = "undone" => these \cap gpus[d] = {}
    <3>1. CASE sc[s] = "undoing" /\ remove \cap gpus[d] # {}
      BY <1>7, <3>1
    <3>2. CASE sc[s] = "undoing" /\ remove \cap gpus[d] = {}
      BY <3>2
    <3>3. CASE sc[s] # "undoing"
      BY <3>3
    <3> QED  BY <3>1, <3>2, <3>3
  <2>5. (adding => bad = "undoing") /\ bad # "updated"
    OBVIOUS
  <2>6. sc' = [sc EXCEPT ![s] = bad]
    BY <1>7
  <2> DEFINE pc == bad
  <2>7. pc \in {good, bad}
    OBVIOUS
  <2> HIDE DEF these, adding, pc
  <2> QED  BY <1>5, <1>6, <2>1, <2>2, <2>3, <2>4, <2>5, <2>6, <2>7 DEF pc
<1>8. CASE Updating
  <2>1. PICK busy \in SUBSET Losing(d, remove) :
          \E up \in SUBSET wanted(busy) : \E stuck \in SUBSET (wanted(busy) \ up) :
            \E pc \in {good, bad} : Done(busy, up, stuck, pc)
    BY <1>8
  <2>1a. PICK up \in SUBSET wanted(busy) :
           \E stuck \in SUBSET (wanted(busy) \ up) : \E pc \in {good, bad} : Done(busy, up, stuck, pc)
    BY <2>1
  <2>1b. PICK stuck \in SUBSET (wanted(busy) \ up) : \E pc \in {good, bad} : Done(busy, up, stuck, pc)
    BY <2>1a
  <2>2. PICK pc \in {good, bad} : Done(busy, up, stuck, pc)
    BY <2>1b
  <2> DEFINE left == (gpus[d] \ remove) \cup add
             kept == Kept(d, remove)
             idle == Idle(d, add, remove, busy)
             xs   == kept \cup up \cup (busy \cup stuck)
  <2>3. /\ sc' = [sc EXCEPT ![s] = pc] /\ ~Gone(d) /\ add \cap gpus[d] = {}
        /\ gpus' = [gpus EXCEPT ![d] = left]
        /\ executors' = [executors EXCEPT ![d] = xs]
        /\ astray' = IF busy \cup stuck = {} THEN astray ELSE astray \cup {d}
    BY <2>2 DEF UpdateResources, Strays
  <2>4. left \subseteq GPUs /\ idle \in SUBSET GPUs /\ idle \subseteq left
    BY <1>3 DEF Idle
  <2>5. /\ \A x \in wanted(busy) : x \subseteq idle
        /\ \A x, y \in wanted(busy) : x # y => x \cap y = {}
    <3>1. Profile(Sizes(d))
      BY SizesAre
    <3>2. idle \in SUBSET GPUs
      BY <2>4
    <3> HIDE DEF idle
    <3>3. /\ \A x \in Groups(idle, Sizes(d)) : x \subseteq idle
          /\ \A x, y \in Groups(idle, Sizes(d)) : x # y => x \cap y = {}
      BY <3>1, <3>2, GroupsAre
    <3> QED  BY <3>3 DEF idle
  <2>6. kept \subseteq executors[d] /\ busy \subseteq executors[d] /\ executors[d] \in SUBSET SUBSET GPUs
    BY DEF Kept, Losing, TypeOK
  <2>7. xs \in SUBSET SUBSET GPUs
    <3> DEFINE w == wanted(busy)
    <3>1. up \subseteq w /\ stuck \subseteq w /\ \A x \in w : x \subseteq idle
      BY <2>2, <2>5
    <3> HIDE DEF w, kept, idle
    <3> QED  BY <2>4, <2>6, <3>1
  <2>8. ASSUME d \notin astray'
        PROVE  /\ \A x \in xs : x \subseteq left
               /\ \A x, y \in xs : x # y => x \cap y = {}
    <3>1. busy = {} /\ stuck = {} /\ d \notin astray
      BY <2>3, <2>8
    <3>2. /\ \A x \in executors[d] : x \subseteq gpus[d]
          /\ \A x, y \in executors[d] : x # y => x \cap y = {}
      BY <3>1 DEF ExecutorsApart
    <3>3. \A x \in kept : x \subseteq gpus[d] \ remove
      BY <2>6, <3>2 DEF Kept
    <3>4. \A x \in kept : x \cap idle = {}
      BY <2>3, <3>3 DEF Idle
    <3>5. \A x \in kept : x \subseteq left
      BY <3>3
    <3> DEFINE w == wanted(busy)
    <3>6. up \subseteq w /\ (\A x \in w : x \subseteq idle) /\ \A x, y \in w : x # y => x \cap y = {}
      BY <2>2, <2>5
    <3>7. xs = kept \cup up
      BY <3>1
    <3> HIDE DEF w, kept, idle, left, xs
    <3>8. \A x \in xs : x \subseteq left
      BY <2>4, <3>5, <3>6, <3>7
    <3>9. \A x, y \in up : x # y => x \cap y = {}
      BY <3>6
    <3>10. \A x, y \in kept : x # y => x \cap y = {}
      BY <2>6, <3>2
    <3>11. \A x \in kept, y \in up : x \cap y = {}
      BY <3>4, <3>6
    <3> QED  BY <3>7, <3>8, <3>9, <3>10, <3>11
  <2> HIDE DEF kept, idle, xs
  <2>9. /\ gpus' \in [Ids -> SUBSET GPUs] /\ executors' \in [Ids -> SUBSET SUBSET GPUs]
        /\ gpus'[d] = left /\ executors'[d] = xs
        /\ \A e \in Ids : e # d => gpus'[e] = gpus[e] /\ executors'[e] = executors[e]
    <3> HIDE DEF left
    <3> QED  BY <2>3, <2>4, <2>7 DEF TypeOK
  <2>10. \A g \in left : g \in gpus[d] \/ (adding /\ g \in these)
    OBVIOUS
  <2>11. adding => pc = "updated" \/ pc = "undoing"
    OBVIOUS
  <2>12. ~adding => these \cap left = {}
    OBVIOUS
  <2>13. astray \subseteq astray' /\ astray' \in SUBSET Ids
    BY <2>3 DEF TypeOK
  <2> HIDE DEF left, these, adding
  <2>14. \A g \in gpus'[d] : g \in gpus[d] \/ (adding /\ g \in these)
    BY <2>9, <2>10
  <2>15. d \notin astray' /\ ~adding /\ pc \in {"updated", "undone"} => these \cap gpus'[d] = {}
    BY <2>9, <2>12
  <2>16. d \notin astray' => /\ \A x \in executors'[d] : x \subseteq gpus'[d]
                            /\ \A x, y \in executors'[d] : x # y => x \cap y = {}
    BY <2>8, <2>9
  <2>17. sc' = [sc EXCEPT ![s] = pc] /\ ~Gone(d) /\ pc \in {good, bad}
    BY <2>2, <2>3
  <2> QED  BY <1>5, <2>9, <2>11, <2>13, <2>14, <2>15, <2>16, <2>17
<1> QED  BY <1>2, <1>7, <1>8

(* A Scale that ends no longer counts among those under way. *)
LEMMA EndsHolding ==
  ASSUME ManagerAssumption, IInv, NEW s \in Scales, NEW d \in Ids, d = target[s],
         sc[s] \in {"updated", "undone"}, NEW pc \in {"ok", "failed"}, Moves(s, pc),
         UNCHANGED <<task_states, dep, td, target, batch, tmVars>>
  PROVE  /\ Found' /\ Phases' /\ LocksHeld' /\ ExecutorsApart' /\ Listed'
         /\ \A u \in Scales : u # s => ~InLock(u, d)
         /\ \A e \in Ids : ~Taking(s, e)' /\ ~Adding(s, e)'
         /\ \A u \in Scales, e \in Ids : u # s =>
              /\ Taking(u, e)' <=> Taking(u, e)
              /\ Adding(u, e)' <=> Adding(u, e)
         /\ sc[s] = "updated" => Holding(d)
<1> USE DEF IInv
<1>1. /\ sc' \in [Scales -> ScStates] /\ sc'[s] = pc
      /\ \A u \in Scales : u # s => sc'[u] = sc[u]
      /\ \A u \in Scales, e \in Ids : u # s =>
              /\ Taking(u, e)' <=> Taking(u, e)
              /\ Adding(u, e)' <=> Adding(u, e)
              /\ InLock(u, e)' <=> InLock(u, e)
  BY OthersStay
<1>2. Found'
  BY <1>1 DEF Found, Up
<1>3. Phases'
  BY DEF Phases
<1>4. \A e \in Ids : ~Taking(s, e)' /\ ~Adding(s, e)' /\ ~InLock(s, e)'
  BY <1>1 DEF Taking, Adding, InLock
<1>5. LocksHeld'
  BY <1>1, <1>4 DEF LocksHeld
<1>6. ExecutorsApart'
  BY DEF ExecutorsApart, tmVars
<1>7. Listed'
  BY ListedStays
<1>8. InLock(s, d)
  BY DEF InLock
<1>9. \A u \in Scales : u # s => ~InLock(u, d)
  BY <1>8 DEF LocksHeld
<1>10. sc[s] = "updated" => Holding(d)
  <2>1. d # NoId
    BY DEF ManagerAssumption
  <2>2. dep[d] = "ok"
    BY <2>1 DEF Found
  <2> QED  BY <1>8, <2>2 DEF LocksHeld, Holding
<1> QED  BY <1>1, <1>2, <1>3, <1>4, <1>5, <1>6, <1>7, <1>9, <1>10

LEMMA UpdatedUpKeeps ==
  ASSUME ClusterAssumption, ManagerAssumption, IInv, NEW s \in Scales, Updated(s), Up(s)
  PROVE  IInv'
<1> USE DEF IInv
<1>1. PICK d \in Ids : d = target[s]
  BY DEF Updated, Found
<1> DEFINE new == resources[d] \o batch[s]
<1>2. /\ sc[s] = "updated" /\ sc' = [sc EXCEPT ![s] = "ok"]
      /\ resources' = [resources EXCEPT ![d] = new]
      /\ UNCHANGED <<owner, task_states, dep, td, target, batch, tmVars>>
  BY <1>1 DEF Updated, GotoSc
<1>3. Moves(s, "ok")
  BY <1>2 DEF Moves, TypeOK, ScStates
<1>4. /\ Found' /\ Phases' /\ LocksHeld' /\ ExecutorsApart' /\ Listed'
      /\ \A u \in Scales : u # s => ~InLock(u, d)
      /\ \A e \in Ids : ~Taking(s, e)' /\ ~Adding(s, e)'
      /\ \A u \in Scales, e \in Ids : u # s =>
           /\ Taking(u, e)' <=> Taking(u, e)
           /\ Adding(u, e)' <=> Adding(u, e)
      /\ Holding(d)
  BY <1>1, <1>2, <1>3, EndsHolding
<1>5. Taking(s, d)
  BY <1>1, <1>2 DEF Taking
<1>6. /\ Once(resources[d]) /\ Once(batch[s])
      /\ Range(resources[d]) \cap Range(batch[s]) = {}
      /\ resources[d] \in Seq(GPUs) /\ batch[s] \in Seq(GPUs)
  BY <1>4, <1>5 DEF Books, EachOnce, TypeOK
<1>7. new \in Seq(GPUs) /\ Once(new) /\ Range(new) = Range(resources[d]) \cup Range(batch[s])
  <2> DEFINE r == resources[d]
             b == batch[s]
  <2>1. r \in Seq(GPUs) /\ b \in Seq(GPUs) /\ OneToOne(r, Len(r)) /\ OneToOne(b, Len(b)) /\ Range(r) \cap Range(b) = {}
    BY <1>6 DEF Once
  <2> HIDE DEF r, b
  <2>2. r \o b \in Seq(GPUs) /\ OneToOne(r \o b, Len(r \o b)) /\ Range(r \o b) = Range(r) \cup Range(b)
    BY <2>1, AppendedIs
  <2> QED  BY <2>2 DEF r, b, Once
<1> HIDE DEF new
<1>8. /\ resources' \in [Ids -> Seq(GPUs)] /\ resources'[d] = new
      /\ \A e \in Ids : e # d => resources'[e] = resources[e]
  BY <1>2, <1>7 DEF TypeOK
<1>9. TypeOK'
  BY <1>2, <1>3, <1>8, OthersStay DEF TypeOK, tmVars
<1>10. /\ batch' = batch /\ owner' = owner /\ gpus' = gpus
       /\ \A e \in Ids : (Holding(e)' <=> Holding(e)) /\ (Serving(e)' <=> Serving(e))
  BY <1>2, TasksStay DEF tmVars
<1>11. /\ \A e \in Ids : Holding(e) => \A g \in Range(resources[e]) : owner[g] = e
       /\ \A u \in Scales, e \in Ids : Taking(u, e) => \A g \in Range(batch[u]) : owner[g] = e
  BY DEF Books, RecordedAreOwned
<1>12. \A u \in Scales, e \in Ids : Taking(u, e)' => u # s /\ Taking(u, e)
  BY <1>4
<1>13. RecordedAreOwned'
  <2>1. ASSUME NEW e \in Ids, Holding(e)', NEW g \in Range(resources'[e]) PROVE owner[g] = e
    <3>1. CASE e = d
      BY <1>4, <1>5, <1>7, <1>8, <1>11, <2>1, <3>1
    <3>2. CASE e # d
      BY <1>8, <1>10, <1>11, <2>1, <3>2
    <3> QED  BY <3>1, <3>2
  <2> QED  BY <1>10, <1>11, <1>12, <2>1 DEF RecordedAreOwned
<1>14. EachOnce'
  <2>1. EachOnce
    BY DEF Books
  <2> HIDE DEF IInv
  <2>2. ASSUME NEW e \in Ids, Holding(e)' PROVE Once(resources'[e])
    BY <1>7, <1>8, <1>10, <2>1, <2>2 DEF EachOnce
  <2>3. ASSUME NEW e \in Ids, NEW u \in Scales, Taking(u, e)'
        PROVE  /\ Once(batch'[u])
               /\ Holding(e)' => Range(batch'[u]) \cap Range(resources'[e]) = {}
               /\ \A v \in Scales :
                    Taking(v, e)' /\ v # u => Range(batch'[v]) \cap Range(batch'[u]) = {}
    <3>1. u # s /\ Taking(u, e)
      BY <1>12, <2>3
    <3>2. /\ Once(batch[u])
          /\ Holding(e) => Range(batch[u]) \cap Range(resources[e]) = {}
          /\ \A v \in Scales : Taking(v, e) /\ v # u => Range(batch[v]) \cap Range(batch[u]) = {}
      BY <2>1, <3>1 DEF EachOnce
    <3>3. ASSUME Holding(e) PROVE Range(batch[u]) \cap Range(resources'[e]) = {}
      <4>1. CASE e = d
        <5>1. Range(batch[u]) \cap Range(batch[s]) = {}
          BY <1>5, <3>1, <3>2, <4>1
        <5> QED  BY <1>7, <1>8, <3>2, <3>3, <4>1, <5>1
      <4>2. CASE e # d
        BY <1>8, <3>2, <3>3, <4>2
      <4> QED  BY <4>1, <4>2
    <3> QED  BY <1>10, <1>12, <3>2, <3>3
  <2> QED  BY <2>2, <2>3 DEF EachOnce
<1>15. HeldIsRecorded'
  <2>1. ASSUME NEW e \in Ids \ astray, NEW g \in gpus[e]
        PROVE  g \in Range(resources'[e]) \/ \E u \in Scales : Adding(u, e)' /\ g \in Range(batch[u])
    <3>1. g \in Range(resources[e]) \/ \E u \in Scales : Adding(u, e) /\ g \in Range(batch[u])
      BY DEF HeldIsRecorded
    <3>2. Adding(s, e) => e = d
      BY <1>1 DEF Adding, Taking
    <3>3. \A f \in Ids : Range(resources[f]) \subseteq Range(resources'[f])
      BY <1>7, <1>8
    <3>4. \A u \in Scales : u # s /\ Adding(u, e) => Adding(u, e)'
      BY <1>4
    <3>5. Range(batch[s]) \subseteq Range(resources'[d])
      BY <1>7, <1>8
    <3> QED  BY <3>1, <3>2, <3>3, <3>4, <3>5
  <2> QED  BY <1>2, <1>10, <2>1 DEF HeldIsRecorded, tmVars
<1>16. Answers'
  <2>1. ASSUME NEW u \in Scales, u # s, InLock(u, target[u])
        PROVE  gpus'[target[u]] = gpus[target[u]] /\ resources'[target[u]] = resources[target[u]]
    <3>1. target[u] \in Ids
      BY <2>1 DEF InLock, Found
    <3>2. target[u] # d
      BY <1>4, <2>1
    <3> QED  BY <1>8, <1>10, <3>1, <3>2
  <2>2. \A u \in Scales : u # s => AnswerOf(u)'
    <3>1. \A u \in Scales : u # s /\ InLock(u, target[u]) =>
            gpus'[target[u]] = gpus[target[u]] /\ resources'[target[u]] = resources[target[u]]
      BY <2>1
    <3>2. astray \subseteq astray'
      BY <1>2 DEF tmVars
    <3> QED  BY <1>3, <3>1, <3>2, OtherAnswers
  <2>3. AnswerOf(s)'
    BY <1>3, OthersStay DEF AnswerOf
  <2> QED  BY <2>2, <2>3 DEF Answers
<1> QED  BY <1>4, <1>9, <1>13, <1>14, <1>15, <1>16 DEF Books

LEMMA UpdatedDownKeeps ==
  ASSUME ClusterAssumption, ManagerAssumption, IInv, NEW s \in Scales, Updated(s), ~Up(s)
  PROVE  IInv'
<1> USE DEF IInv
<1>1. PICK d \in Ids : d = target[s]
  BY DEF Updated, Found
<1> DEFINE n   == -Amount[s]
           new == SubSeq(resources[d], n + 1, Len(resources[d]))
           gs  == Range(batch[s])
<1>2. /\ sc[s] = "updated" /\ sc' = [sc EXCEPT ![s] = "ok"]
      /\ resources' = [resources EXCEPT ![d] = new]
      /\ owner' = Give(owner, gs, Nobody)
      /\ UNCHANGED <<task_states, dep, td, target, batch, tmVars>>
  BY <1>1 DEF Updated, GotoSc, Free
<1>3. Moves(s, "ok")
  BY <1>2 DEF Moves, TypeOK, ScStates
<1>4. /\ Found' /\ Phases' /\ LocksHeld' /\ ExecutorsApart' /\ Listed'
      /\ \A u \in Scales : u # s => ~InLock(u, d)
      /\ \A e \in Ids : ~Taking(s, e)' /\ ~Adding(s, e)'
      /\ \A u \in Scales, e \in Ids : u # s =>
           /\ Taking(u, e)' <=> Taking(u, e)
           /\ Adding(u, e)' <=> Adding(u, e)
      /\ Holding(d)
  BY <1>1, <1>2, <1>3, EndsHolding
<1>5. batch[s] = Prefix(resources[d], n) /\ (d \notin astray => gs \cap gpus[d] = {})
  BY <1>1, <1>2 DEF Answers, AnswerOf
<1>6. Once(resources[d]) /\ resources[d] \in Seq(GPUs)
  BY <1>4 DEF Books, EachOnce, TypeOK
<1>7. n \in Nat
  BY DownIsNat
<1>8. /\ new \in Seq(GPUs) /\ Once(new)
      /\ Range(resources[d]) = gs \cup Range(new) /\ gs \cap Range(new) = {}
  <2> DEFINE r == resources[d]
             t == SubSeq(r, n + 1, Len(r))
             p == Prefix(r, n)
  <2> HIDE DEF n
  <2>1. Once(r) /\ r \in Seq(GPUs)
    BY <1>6
  <2> HIDE DEF r
  <2>2. /\ t \in Seq(GPUs) /\ Once(t)
        /\ Range(r) = Range(p) \cup Range(t) /\ Range(p) \cap Range(t) = {}
    BY <1>7, <2>1, PrefixIs
  <2>3. gs = Range(p) /\ t = new
    BY <1>5 DEF r
  <2> HIDE DEF t, p, new, gs
  <2> QED  BY <2>2, <2>3 DEF r
<1> HIDE DEF n, new, gs
<1>9. /\ resources' \in [Ids -> Seq(GPUs)] /\ resources'[d] = new
      /\ \A e \in Ids : e # d => resources'[e] = resources[e]
  BY <1>2, <1>8 DEF TypeOK
<1>10. /\ batch' = batch /\ gpus' = gpus
       /\ \A e \in Ids : (Holding(e)' <=> Holding(e)) /\ (Serving(e)' <=> Serving(e))
  BY <1>2, TasksStay DEF tmVars
<1>11. \A u \in Scales, e \in Ids : Taking(u, e)' => u # s /\ Taking(u, e)
  BY <1>4
<1>12. Books' /\ owner' \in [GPUs -> Ids \cup {Nobody}]
  <2>1. \A g \in gs : g \in GPUs /\ owner[g] = d
    <3>1. \A g \in Range(resources[d]) : g \in GPUs /\ owner[g] = d
      BY <1>4 DEF Books, RecordedAreOwned, TypeOK, Range
    <3> QED  BY <1>8, <3>1
  <2>2. \A e \in Ids : Holding(e)' =>
          /\ Holding(e) /\ Once(resources'[e]) /\ Range(resources'[e]) \subseteq Range(resources[e])
    <3>1. ASSUME NEW e \in Ids, Holding(e)'
          PROVE  Holding(e) /\ Once(resources'[e]) /\ Range(resources'[e]) \subseteq Range(resources[e])
      <4>1. Holding(e)
        BY <1>10, <3>1
      <4>2. CASE e = d
        BY <1>8, <1>9, <4>1, <4>2
      <4>3. CASE e # d
        BY <1>9, <4>1, <4>3 DEF Books, EachOnce
      <4> QED  BY <4>1, <4>2, <4>3
    <3> QED  BY <3>1
  <2>3. \A u \in Scales : Taking(u, d)' => gs \cap Range(batch[u]) = {}
    <3>1. \A u \in Scales : Taking(u, d) => Range(resources[d]) \cap Range(batch[u]) = {}
      BY <1>4 DEF Books, EachOnce
    <3> QED  BY <1>8, <1>11, <3>1
  <2>4. gs \cap Range(resources'[d]) = {}
    BY <1>8, <1>9
  <2>5. \A u \in Scales, e \in Ids : Taking(u, e)' => Taking(u, e)
    BY <1>11
  <2> QED  BY <1>2, <1>10, <2>1, <2>2, <2>3, <2>4, <2>5, BooksAfterFree
<1>13. TypeOK'
  BY <1>2, <1>3, <1>9, <1>12, OthersStay DEF TypeOK, tmVars
<1>14. HeldIsRecorded'
  <2>1. ASSUME NEW e \in Ids \ astray, NEW g \in gpus[e]
        PROVE  g \in Range(resources'[e]) \/ \E u \in Scales : Adding(u, e)' /\ g \in Range(batch[u])
    <3>1. g \in Range(resources[e]) \/ \E u \in Scales : Adding(u, e) /\ g \in Range(batch[u])
      BY DEF HeldIsRecorded
    <3>2. g \in Range(resources[e]) => g \in Range(resources'[e])
      BY <1>5, <1>8, <1>9
    <3>3. \A u \in Scales : Adding(u, e) => Adding(u, e)'
      <4>1. ~Adding(s, e)
        BY DEF Adding, Taking
      <4> QED  BY <1>4, <4>1
    <3> QED  BY <3>1, <3>2, <3>3
  <2> QED  BY <1>2, <1>10, <2>1 DEF HeldIsRecorded, tmVars
<1>15. Answers'
  <2>1. ASSUME NEW u \in Scales, u # s, InLock(u, target[u])
        PROVE  gpus'[target[u]] = gpus[target[u]] /\ resources'[target[u]] = resources[target[u]]
    <3>1. target[u] \in Ids
      BY <2>1 DEF InLock, Found
    <3>2. target[u] # d
      BY <1>4, <2>1
    <3> QED  BY <1>9, <1>10, <3>1, <3>2
  <2>2. \A u \in Scales : u # s => AnswerOf(u)'
    <3>1. \A u \in Scales : u # s /\ InLock(u, target[u]) =>
            gpus'[target[u]] = gpus[target[u]] /\ resources'[target[u]] = resources[target[u]]
      BY <2>1
    <3>2. astray \subseteq astray'
      BY <1>2 DEF tmVars
    <3> QED  BY <1>3, <3>1, <3>2, OtherAnswers
  <2>3. AnswerOf(s)'
    BY <1>3, OthersStay DEF AnswerOf
  <2> QED  BY <2>2, <2>3 DEF Answers
<1> QED  BY <1>4, <1>12, <1>13, <1>14, <1>15

LEMMA ScaleUpFailedKeeps ==
  ASSUME ClusterAssumption, ManagerAssumption, IInv, NEW s \in Scales, ScaleUpFailed(s)
  PROVE  IInv'
<1> USE DEF IInv
<1>1. PICK d \in Ids : d = target[s]
  BY DEF ScaleUpFailed, Found
<1> DEFINE gs  == Range(batch[s])
<1>2. /\ sc[s] = "undone" /\ sc' = [sc EXCEPT ![s] = "failed"]
      /\ owner' = Give(owner, gs, Nobody)
      /\ UNCHANGED <<task_states, resources, dep, td, target, batch, tmVars>>
  BY <1>1 DEF ScaleUpFailed, GotoSc, Free
<1>3. Moves(s, "failed")
  BY <1>2 DEF Moves, TypeOK, ScStates
<1>4. /\ Found' /\ Phases' /\ LocksHeld' /\ ExecutorsApart' /\ Listed'
      /\ \A u \in Scales : u # s => ~InLock(u, d)
      /\ \A e \in Ids : ~Taking(s, e)' /\ ~Adding(s, e)'
      /\ \A u \in Scales, e \in Ids : u # s =>
           /\ Taking(u, e)' <=> Taking(u, e)
           /\ Adding(u, e)' <=> Adding(u, e)
  BY <1>1, <1>2, <1>3, EndsHolding
<1>5. Taking(s, d)
  BY <1>1, <1>2 DEF Taking, Found
<1> HIDE DEF gs
<1>6. /\ batch' = batch /\ gpus' = gpus
      /\ \A e \in Ids : (Holding(e)' <=> Holding(e)) /\ (Serving(e)' <=> Serving(e))
  BY <1>2, TasksStay DEF tmVars
<1>7. \A u \in Scales, e \in Ids : Taking(u, e)' => u # s /\ Taking(u, e)
  BY <1>4
<1>8. Books' /\ owner' \in [GPUs -> Ids \cup {Nobody}]
  <2>1. \A g \in gs : g \in GPUs /\ owner[g] = d
    BY <1>5 DEF Books, RecordedAreOwned, TypeOK, Range, gs
  <2>2. \A e \in Ids : Holding(e)' =>
          /\ Holding(e) /\ Once(resources'[e]) /\ Range(resources'[e]) \subseteq Range(resources[e])
    BY <1>2, <1>6 DEF Books, EachOnce
  <2>3. \A u \in Scales : Taking(u, d)' => gs \cap Range(batch[u]) = {}
    BY <1>5, <1>7 DEF Books, EachOnce, gs
  <2>4. Holding(d)' => gs \cap Range(resources'[d]) = {}
    BY <1>2, <1>5, <1>6 DEF Books, EachOnce, gs
  <2>5. \A u \in Scales, e \in Ids : Taking(u, e)' => Taking(u, e)
    BY <1>7
  <2> QED  BY <1>2, <1>6, <2>1, <2>2, <2>3, <2>4, <2>5, BooksAfterFree
<1>9. TypeOK'
  BY <1>2, <1>3, <1>8, OthersStay DEF TypeOK, tmVars
<1>10. HeldIsRecorded'
  <2>1. \A u \in Scales, e \in Ids : Adding(u, e) => Adding(u, e)'
    <3>1. \A e \in Ids : ~Adding(s, e)
      BY <1>2 DEF Adding
    <3> QED  BY <1>4, <3>1
  <2> QED  BY <1>2, <1>6, <2>1 DEF HeldIsRecorded, tmVars
<1>11. Answers'
  <2>1. \A u \in Scales : u # s => AnswerOf(u)'
    <3>1. \A u \in Scales : u # s /\ InLock(u, target[u]) =>
            gpus'[target[u]] = gpus[target[u]] /\ resources'[target[u]] = resources[target[u]]
      BY <1>2, <1>6
    <3>2. astray \subseteq astray'
      BY <1>2 DEF tmVars
    <3> QED  BY <1>3, <3>1, <3>2, OtherAnswers
  <2>2. AnswerOf(s)'
    BY <1>3, OthersStay DEF AnswerOf
  <2> QED  BY <2>1, <2>2 DEF Answers
<1> QED  BY <1>4, <1>8, <1>9, <1>10, <1>11

-----------------------------------------------------------------------------
LEMMA InitHolds ==
  ASSUME ClusterAssumption, ManagerAssumption, Init
  PROVE  IInv
<1>1. <<>> \in Seq(GPUs)
  OBVIOUS
<1>2. TypeOK
  BY <1>1 DEF Init, TypeOK, DepStates, TdStates, ScStates
<1>3. /\ \A d \in Ids : ~Holding(d) /\ dep[d] = "idle" /\ td[d] = "no" /\ gpus[d] = {} /\ executors[d] = {}
      /\ \A s \in Scales : sc[s] = "idle" /\ target[s] = NoId
      /\ task_states = {}
  BY DEF Init, Holding
<1>4. \A s \in Scales, d \in Ids : ~Taking(s, d) /\ ~InLock(s, d)
  BY <1>3 DEF Taking, InLock
<1>5. Found /\ Phases /\ LocksHeld
  BY <1>3, <1>4 DEF Found, Phases, LocksHeld, Torn
<1>6. Books
  BY <1>3, <1>4 DEF Books, RecordedAreOwned, EachOnce
<1>7. HeldIsRecorded /\ Answers /\ ExecutorsApart
  BY <1>3 DEF HeldIsRecorded, Answers, AnswerOf, ExecutorsApart
<1>8. Listed
  BY <1>3 DEF Listed
<1> QED  BY <1>2, <1>5, <1>6, <1>7, <1>8 DEF IInv

LEMMA StutterHolds ==
  ASSUME IInv, UNCHANGED vars
  PROVE  IInv'
<1> USE DEF IInv
<1>1. /\ UNCHANGED <<owner, task_states, resources, dep, td, sc, target, batch, gpus, executors, astray>>
      /\ UNCHANGED scVars
  BY DEF vars, scVars
<1>2. TypeOK'
  BY <1>1 DEF TypeOK
<1>3. Found' /\ Phases'
  BY <1>1 DEF Found, Phases, Up
<1>4. LocksHeld'
  BY <1>1, LocksStay
<1>5. Books'
  BY <1>1, ScalesStay, TasksStay, BooksStay
<1>6. HeldIsRecorded' /\ ExecutorsApart'
  BY <1>1, ScalesStay, TasksStay, HeldStay
<1>7. Answers'
  BY <1>1, AnswersStay
<1>8. Listed'
  BY <1>1, ListedStays
<1> QED  BY <1>2, <1>3, <1>4, <1>5, <1>6, <1>7, <1>8

LEMMA StepHolds ==
  ASSUME ClusterAssumption, ManagerAssumption, IInv, [Next]_vars
  PROVE  IInv'
<1>1. ASSUME NEW d \in Ids,
             \/ Deploy(d) \/ SpawnAllocate(d) \/ Register(d) \/ Undo(d) \/ Pop(d) \/ Notified(d)
             \/ Teardown(d) \/ TeardownLocks(d) \/ Shutdown(d) \/ Stopped(d)
      PROVE  IInv'
  BY <1>1, DeployKeeps, SpawnAllocateKeeps, RegisterKeeps, UndoKeeps, PopKeeps, NotifiedKeeps,
     TeardownKeeps, TeardownLocksKeeps, ShutdownKeeps, StoppedKeeps
<1>2. ASSUME NEW s \in Scales,
             \/ ScaleNotRunning(s) \/ ScaleUp(s) \/ ScaleDown(s) \/ ScaleLocks(s) \/ Update(s)
             \/ Updated(s) \/ ScaleUpFailed(s)
      PROVE  IInv'
  BY <1>2, ScaleNotRunningKeeps, ScaleUpKeeps, ScaleDownKeeps, ScaleLocksKeeps, UpdateKeeps,
     UpdatedUpKeeps, UpdatedDownKeeps, ScaleUpFailedKeeps
<1>3. CASE UNCHANGED vars
  BY <1>3, StutterHolds
<1> QED  BY <1>1, <1>2, <1>3 DEF Next, GatewayCalls, Progress, Stop

LEMMA Invariant == Spec => []IInv
<1>1. Init => IInv
  BY InitHolds, ClusterAssumption, ManagerAssumption
<1>2. IInv /\ [Next]_vars => IInv'
  BY StepHolds, ClusterAssumption, ManagerAssumption
<1> QED  BY <1>1, <1>2, PTL DEF Spec

LEMMA UsedFollows ==
  ASSUME IInv
  PROVE  UsedAreOwned
<1> USE DEF IInv
<1>1. ASSUME NEW d \in Ids \ astray, NEW g \in gpus[d] PROVE owner[g] = d
  <2>1. Holding(d)
    BY <1>1 DEF HeldIsRecorded, Serving, Holding
  <2>2. g \in Range(resources[d]) \/ \E s \in Scales : Taking(s, d) /\ g \in Range(batch[s])
    BY <1>1 DEF HeldIsRecorded, Adding
  <2> QED  BY <2>1, <2>2 DEF Books, RecordedAreOwned
<1> QED  BY <1>1 DEF UsedAreOwned, ExecutorsApart

(* No GPU is used by two: every GPU that a task manager has is allocated to *)
(* it by the Resource Manager, and its executors share none; whatever calls *)
(* run at the same time, whichever are refused, and whichever answers are   *)
(* lost, for any cluster and any tasks.  The task managers are excepted     *)
(* that a Shutdown, an undone scale-up or a killed executor leaves astray.  *)
THEOREM NoneIsSharedOut == Spec => []UsedAreOwned
<1>1. Spec => []IInv
  BY Invariant
<1>2. IInv => UsedAreOwned
  BY UsedFollows
<1> QED  BY <1>1, <1>2, PTL

-----------------------------------------------------------------------------
(* That the books miss nothing is an invariant of its own.                  *)
InBooks(g, d) ==
  \/ Holding(d) /\ g \in Range(resources[d])
  \/ \E s \in Scales : Taking(s, d) /\ g \in Range(batch[s])
AllRecorded == \A g \in GPUs, d \in Ids : owner[g] = d => InBooks(g, d)

LEMMA NotLostFollows ==
  ASSUME IInv, AllRecorded
  PROVE  NoGPULost
<1>1. ASSUME NEW d \in Ids PROVE { g \in GPUs : owner[g] = d } = Recorded(d) \cup Dropped(d)
  <2>1. \A g : g \in Recorded(d) \cup Dropped(d) <=> InBooks(g, d)
    BY DEF Recorded, Dropped, TakenBy, InBooks
  <2>2. ASSUME NEW g, InBooks(g, d) PROVE g \in GPUs /\ owner[g] = d
    <3>1. RecordedAreOwned /\ resources \in [Ids -> Seq(GPUs)] /\ batch \in [Scales -> Seq(GPUs)]
      BY DEF IInv, Books, TypeOK
    <3>2. \A s \in Scales : \A x \in Range(batch[s]) : x \in GPUs
      BY <3>1 DEF Range
    <3>3. \A x \in Range(resources[d]) : x \in GPUs
      BY <3>1 DEF Range
    <3> QED  BY <2>2, <3>1, <3>2, <3>3 DEF InBooks, RecordedAreOwned
  <2> QED  BY <2>1, <2>2 DEF AllRecorded
<1> QED  BY <1>1 DEF NoGPULost, IInv, Listed

(* A step that marks no more GPUs and strikes none from the books. *)
LEMMA NoneLost ==
  ASSUME AllRecorded,
         \A g \in GPUs, d \in Ids : owner'[g] = d => owner[g] = d /\ (InBooks(g, d) => InBooks(g, d)')
  PROVE  AllRecorded'
BY DEF AllRecorded

LEMMA NothingMoves ==
  ASSUME AllRecorded, UNCHANGED <<owner, resources, batch>>,
         \A d \in Ids : Holding(d) => Holding(d)',
         \A s \in Scales, d \in Ids : Taking(s, d) => Taking(s, d)'
  PROVE  AllRecorded'
<1>1. \A g \in GPUs, d \in Ids : InBooks(g, d) => InBooks(g, d)'
  BY DEF InBooks
<1> QED  BY <1>1, NoneLost

LEMMA GiveIs ==
  ASSUME TypeOK, NEW gs, owner' = Give(owner, gs, Nobody), Nobody \notin Ids
  PROVE  \A g \in GPUs, d \in Ids : owner'[g] = d => owner[g] = d /\ g \notin gs
BY DEF Give, TypeOK

LEMMA TasksLoseNothing ==
  ASSUME ClusterAssumption, ManagerAssumption, IInv, AllRecorded, NEW d \in Ids,
         \/ Deploy(d) \/ Register(d) \/ Pop(d) \/ Notified(d)
         \/ Teardown(d) \/ TeardownLocks(d) \/ Shutdown(d)
  PROVE  AllRecorded'
<1>1. UNCHANGED <<owner, resources, scVars>>
  BY DEF Deploy, Register, Pop, Notified, Teardown, TeardownLocks, Shutdown
<1>2. \A e \in Ids : Holding(e) => Holding(e)'
  <2> USE DEF IInv, TypeOK, Holding, Goto, GotoTd
  <2>1. CASE Deploy(d)
    BY <2>1 DEF Deploy
  <2>2. CASE Register(d)
    BY <2>2 DEF Register
  <2>3. CASE Pop(d)
    BY <2>3 DEF Pop
  <2>4. CASE Notified(d)
    BY <2>4 DEF Notified
  <2>5. CASE Teardown(d)
    BY <2>5 DEF Teardown
  <2>6. CASE TeardownLocks(d)
    BY <2>6 DEF TeardownLocks
  <2>7. CASE Shutdown(d)
    BY <2>7 DEF Shutdown
  <2> QED  BY <2>1, <2>2, <2>3, <2>4, <2>5, <2>6, <2>7
<1> QED  BY <1>1, <1>2, NothingMoves, ScalesStay DEF scVars

LEMMA SpawnLosesNothing ==
  ASSUME ClusterAssumption, ManagerAssumption, IInv, AllRecorded, NEW d \in Ids, SpawnAllocate(d)
  PROVE  AllRecorded'
<1> USE DEF IInv
<1>1. /\ dep[d] = "spawning" /\ td[d] \notin Torn /\ ~Holding(d)
      /\ \A e \in Ids : e # d => dep'[e] = dep[e]
      /\ UNCHANGED <<task_states, td, scVars>>
  BY DEF SpawnAllocate, Goto, TypeOK, Phases, Holding
<1>2. \A e \in Ids : Holding(e) => e # d /\ Holding(e)'
  BY <1>1 DEF Holding
<1>3. CASE UNCHANGED <<owner, resources>>
  BY <1>1, <1>2, <1>3, NothingMoves, ScalesStay DEF scVars
<1>4. CASE /\ resources' = [resources EXCEPT ![d] = Picked(owner, d, Least(d))]
           /\ owner' = Give(owner, Range(Picked(owner, d, Least(d))), d)
           /\ dep'[d] = "registering"
  <2> DEFINE p == Picked(owner, d, Least(d))
  <2> HIDE DEF p
  <2>1. /\ resources'[d] = p /\ \A e \in Ids : e # d => resources'[e] = resources[e]
        /\ \A g \in GPUs : owner'[g] = IF g \in Range(p) THEN d ELSE owner[g]
    BY <1>4 DEF p, Give, TypeOK
  <2>2. Holding(d)'
    BY <1>1, <1>4 DEF Holding, Torn
  <2>3. ASSUME NEW g \in GPUs, NEW e \in Ids, owner'[g] = e PROVE InBooks(g, e)'
    <3>1. CASE g \in Range(p)
      <4>1. e = d
        BY <2>1, <2>3, <3>1
      <4> QED  BY <2>1, <2>2, <3>1, <4>1 DEF InBooks
    <3>2. CASE g \notin Range(p)
      <4>1. InBooks(g, e)
        BY <2>1, <2>3, <3>2 DEF AllRecorded
      <4> QED  BY <1>1, <1>2, <2>1, <4>1, ScalesStay DEF InBooks, scVars
    <3> QED  BY <3>1, <3>2
  <2> QED  BY <2>3 DEF AllRecorded
<1> QED  BY <1>3, <1>4 DEF SpawnAllocate, Goto, TypeOK

(* The books are struck out of the GPUs that are freed, and of no others.   *)
LEMMA FreeingLosesNothing ==
  ASSUME ClusterAssumption, ManagerAssumption, IInv, AllRecorded, NEW d \in Ids,
         Undo(d) \/ Stopped(d)
  PROVE  AllRecorded'
<1> USE DEF IInv
<1>1. /\ owner' = Give(owner, Range(resources[d]), Nobody)
      /\ UNCHANGED <<resources, scVars>>
  BY DEF Undo, Stopped, Free
<1>2. \A e \in Ids : e # d => dep'[e] = dep[e] /\ td'[e] = td[e]
  BY DEF Undo, Stopped, Goto, GotoTd, TypeOK
<1>3. \A e \in Ids : e # d /\ Holding(e) => Holding(e)'
  BY <1>2 DEF Holding
<1>4. \A g \in GPUs, e \in Ids : owner'[g] = e => owner[g] = e /\ g \notin Range(resources[d])
  BY <1>1, GiveIs DEF ManagerAssumption
<1>5. ASSUME NEW g \in GPUs, NEW e \in Ids, owner'[g] = e, InBooks(g, e) PROVE InBooks(g, e)'
  <2>1. g \notin Range(resources[d])
    BY <1>4, <1>5
  <2> QED  BY <1>1, <1>3, <1>5, <2>1, ScalesStay DEF InBooks, scVars
<1> QED  BY <1>4, <1>5, NoneLost

LEMMA ScalesLoseNothing ==
  ASSUME ClusterAssumption, ManagerAssumption, IInv, AllRecorded, NEW s \in Scales,
         \/ ScaleNotRunning(s) \/ ScaleDown(s) \/ ScaleLocks(s) \/ Update(s)
         \/ Updated(s) \/ ScaleUpFailed(s)
  PROVE  AllRecorded'
<1> USE DEF IInv
<1>1. UNCHANGED <<dep, td, task_states>>
  BY DEF ScaleNotRunning, ScaleDown, ScaleLocks, Update, Updated, ScaleUpFailed
<1>2. \A d \in Ids : Holding(d)' <=> Holding(d)
  BY <1>1, TasksStay
<1>3. \A u \in Scales : u # s => sc'[u] = sc[u] /\ target'[u] = target[u] /\ batch'[u] = batch[u]
  <2>1. CASE ScaleNotRunning(s) \/ ScaleDown(s) \/ ScaleLocks(s)
    BY <2>1, SMTT(30) DEF ScaleNotRunning, ScaleDown, ScaleLocks, GotoSc, TypeOK
  <2>2. CASE Update(s)
    <3>1. target' = target /\ batch' = batch
      BY <2>2 DEF Update
    <3>2. \E pc \in {"updated", "undoing", "undone", "failed"} : sc' = [sc EXCEPT ![s] = pc]
      <4>1. \E pc \in {"updated", "undoing", "undone", "failed"} : GotoSc(s, pc)
        BY <2>2, ZenonT(30) DEF Update
      <4> QED  BY <4>1 DEF GotoSc
    <3> QED  BY <3>1, <3>2 DEF TypeOK
  <2>3. CASE Updated(s) \/ ScaleUpFailed(s)
    BY <2>3 DEF Updated, ScaleUpFailed, GotoSc, TypeOK
  <2> QED  BY <2>1, <2>2, <2>3
<1>4. \A u \in Scales, d \in Ids : u # s => (Taking(u, d)' <=> Taking(u, d))
  BY <1>3 DEF Taking, Up
<1>5. CASE ScaleNotRunning(s) \/ ScaleDown(s) \/ ScaleLocks(s) \/ Update(s)
  <2>1. UNCHANGED <<owner, resources>>
    BY <1>5 DEF ScaleNotRunning, ScaleDown, ScaleLocks, Update
  <2>2. \A d \in Ids : Taking(s, d) => Taking(s, d)' /\ batch'[s] = batch[s]
    <3>1. CASE ScaleNotRunning(s) \/ ScaleDown(s)
      BY <3>1 DEF ScaleNotRunning, ScaleDown, Taking
    <3>2. CASE ScaleLocks(s)
      <4>1. target' = target /\ sc'[s] = "updating" /\ (Up(s) => batch'[s] = batch[s])
        BY <3>2 DEF ScaleLocks, GotoSc, TypeOK
      <4> QED  BY <4>1 DEF Taking, Up
    <3>3. CASE Update(s)
      <4>1. target' = target /\ batch' = batch
        BY <3>3 DEF Update
      <4>2. Up(s) => sc'[s] \in {"updated", "undoing", "undone"}
        <5> HIDE DEF IInv
        <5>1. \E pc \in {"updated", "undoing", "undone", "failed"} :
                sc' = [sc EXCEPT ![s] = pc] /\ (pc = "failed" => ~Up(s))
          BY <3>3 DEF Update, GotoSc
        <5>2. sc \in [Scales -> ScStates]
          BY DEF IInv, TypeOK
        <5> QED  BY <5>1, <5>2
      <4> QED  BY <4>1, <4>2 DEF Taking, Up
    <3> QED  BY <1>5, <3>1, <3>2, <3>3
  <2>3. \A g \in GPUs, d \in Ids : InBooks(g, d) => InBooks(g, d)'
    <3>1. \A u \in Scales, d \in Ids : Taking(u, d) => Taking(u, d)' /\ batch'[u] = batch[u]
      BY <1>3, <1>4, <2>2
    <3> QED  BY <1>2, <2>1, <3>1 DEF InBooks
  <2> QED  BY <2>1, <2>3, NoneLost
<1>6. CASE Updated(s) /\ Up(s)
  <2>1. PICK d \in Ids : d = target[s]
    BY <1>6 DEF Updated, Found
  <2>2. /\ owner' = owner
        /\ resources' = [resources EXCEPT ![d] = resources[d] \o batch[s]]
        /\ sc[s] = "updated" /\ sc'[s] = "ok"
    BY <1>6, <2>1 DEF Updated, GotoSc, TypeOK
  <2>3. resources[d] \in Seq(GPUs) /\ batch[s] \in Seq(GPUs)
    BY DEF TypeOK
  <2>4. Range(resources[d] \o batch[s]) = Range(resources[d]) \cup Range(batch[s])
    <3>1. Moves(s, "ok")
      BY <1>6, <2>2 DEF Updated, GotoSc, Moves, TypeOK, ScStates
    <3>2. Holding(d) /\ Taking(s, d)
      <4>1. UNCHANGED <<task_states, dep, td, target, batch, tmVars>>
        BY <1>6 DEF Updated
      <4> QED  BY <1>6, <2>1, <2>2, <3>1, <4>1, EndsHolding DEF Taking
    <3> DEFINE r == resources[d]
               b == batch[s]
    <3>3. /\ r \in Seq(GPUs) /\ b \in Seq(GPUs) /\ OneToOne(r, Len(r)) /\ OneToOne(b, Len(b))
          /\ Range(r) \cap Range(b) = {}
      BY <2>3, <3>2 DEF Books, EachOnce, Once
    <3> HIDE DEF r, b
    <3>4. Range(r \o b) = Range(r) \cup Range(b)
      BY <3>3, AppendedIs, SMTT(30)
    <3> QED  BY <3>4 DEF r, b
  <2>5. /\ Range(resources'[d]) = Range(resources[d]) \cup Range(batch[s])
        /\ \A e \in Ids : e # d => resources'[e] = resources[e]
    BY <2>2, <2>4 DEF TypeOK
  <2>6. Holding(d)
    <3>1. Moves(s, "ok") /\ UNCHANGED <<task_states, dep, td, target, batch, tmVars>>
      BY <1>6, <2>2 DEF Updated, GotoSc, Moves, TypeOK, ScStates
    <3> QED  BY <2>1, <2>2, <3>1, EndsHolding
  <2>7. ASSUME NEW g \in GPUs, NEW e \in Ids, InBooks(g, e) PROVE InBooks(g, e)'
    <3>1. CASE Holding(e) /\ g \in Range(resources[e])
      BY <1>2, <2>5, <3>1 DEF InBooks
    <3>2. CASE Taking(s, e) /\ g \in Range(batch[s])
      <4>1. e = d
        BY <2>1, <3>2 DEF Taking
      <4> QED  BY <1>2, <2>5, <2>6, <3>2, <4>1 DEF InBooks
    <3>3. CASE \E u \in Scales : u # s /\ Taking(u, e) /\ g \in Range(batch[u])
      BY <1>3, <1>4, <3>3 DEF InBooks
    <3> QED  BY <2>7, <3>1, <3>2, <3>3 DEF InBooks
  <2> QED  BY <2>2, <2>7, NoneLost
<1>7. CASE Updated(s) /\ ~Up(s)
  <2>1. PICK d \in Ids : d = target[s]
    BY <1>7 DEF Updated, Found
  <2> DEFINE n   == -Amount[s]
             r   == resources[d]
             new == SubSeq(r, n + 1, Len(r))
             gs  == Range(batch[s])
  <2>2. owner' = Give(owner, gs, Nobody) /\ resources' = [resources EXCEPT ![d] = new]
    BY <1>7, <2>1 DEF Updated, Free
  <2>3. batch[s] = Prefix(r, n)
    BY <1>7, <2>1 DEF Updated, Answers, AnswerOf
  <2>4. r \in Seq(GPUs) /\ n \in Nat
    BY <1>7, DownIsNat DEF TypeOK
  <2>5. Range(r) = gs \cup Range(new)
    <3> HIDE DEF n, r
    <3> QED  BY <2>3, <2>4, PrefixIs
  <2> HIDE DEF new, gs
  <2>6. resources'[d] = new /\ \A e \in Ids : e # d => resources'[e] = resources[e]
    BY <2>2 DEF TypeOK
  <2>7. \A g \in GPUs, e \in Ids : owner'[g] = e => owner[g] = e /\ g \notin gs
    BY <2>2, GiveIs DEF ManagerAssumption
  <2>8. ASSUME NEW g \in GPUs, NEW e \in Ids, owner'[g] = e, InBooks(g, e) PROVE InBooks(g, e)'
    <3>1. g \notin gs
      BY <2>7, <2>8
    <3>2. ~Taking(s, e)
      BY <1>7 DEF Taking
    <3>3. g \in Range(resources[e]) => g \in Range(resources'[e])
      BY <2>5, <2>6, <3>1
    <3> QED  BY <1>2, <1>3, <1>4, <2>8, <3>2, <3>3 DEF InBooks
  <2> QED  BY <2>7, <2>8, NoneLost
<1>8. CASE ScaleUpFailed(s)
  <2>1. owner' = Give(owner, Range(batch[s]), Nobody) /\ resources' = resources
    BY <1>8 DEF ScaleUpFailed, Free
  <2>2. \A g \in GPUs, e \in Ids : owner'[g] = e => owner[g] = e /\ g \notin Range(batch[s])
    BY <2>1, GiveIs DEF ManagerAssumption
  <2>3. ASSUME NEW g \in GPUs, NEW e \in Ids, owner'[g] = e, InBooks(g, e) PROVE InBooks(g, e)'
    <3>1. g \notin Range(batch[s])
      BY <2>2, <2>3
    <3> QED  BY <1>2, <1>3, <1>4, <2>1, <2>3, <3>1 DEF InBooks
  <2> QED  BY <2>2, <2>3, NoneLost
<1> QED  BY <1>5, <1>6, <1>7, <1>8

LEMMA ScaleUpLosesNothing ==
  ASSUME ClusterAssumption, ManagerAssumption, IInv, AllRecorded, NEW s \in Scales, ScaleUp(s)
  PROVE  AllRecorded'
<1> USE DEF IInv
<1>1. PICK d \in Running(s) :
        LET a == ScaleUpBy(owner, d, Amount[s], Sizes(d))
        IN  /\ owner' = a.own
            /\ target' = [target EXCEPT ![s] = d]
            /\ batch' = [batch EXCEPT ![s] = a.got]
            /\ \E pc \in {"raised", "locking"} : sc' = [sc EXCEPT ![s] = pc]
  BY DEF ScaleUp, GotoSc
<1>2. sc[s] = "idle" /\ Up(s) /\ MayScale(s) /\ UNCHANGED <<task_states, resources, dep, td>>
  BY DEF ScaleUp
<1>3. d \in Ids
  BY <1>1, <1>2, RunningIs
<1> DEFINE a == ScaleUpBy(owner, d, Amount[s], Sizes(d))
           got == a.got
<1>4. /\ got \in Seq(GPUs)
      /\ \A g \in GPUs : /\ g \in Range(got) => a.own[g] = d
                         /\ g \notin Range(got) => a.own[g] = owner[g]
  BY <1>2, <1>3, ScaleUpTakes
<1>5. owner' = a.own /\ batch' = [batch EXCEPT ![s] = got]
  BY <1>1
<1> HIDE DEF a
<1>6. /\ \A e \in Ids : Holding(e)' <=> Holding(e)
      /\ \A e \in Ids : ~Taking(s, e)
  BY <1>2, TasksStay DEF Taking
<1>7. /\ sc'[s] \in {"raised", "locking"} /\ target'[s] = d /\ batch'[s] = got
      /\ \A u \in Scales : u # s => sc'[u] = sc[u] /\ target'[u] = target[u] /\ batch'[u] = batch[u]
  BY <1>1, <1>5 DEF TypeOK
<1> HIDE DEF got
<1>8. Taking(s, d)'
  BY <1>2, <1>7 DEF Taking, Up
<1>9. \A u \in Scales, e \in Ids : Taking(u, e) => Taking(u, e)' /\ batch'[u] = batch[u]
  BY <1>6, <1>7 DEF Taking, Up
<1>10. ASSUME NEW g \in GPUs, NEW e \in Ids, owner'[g] = e PROVE InBooks(g, e)'
  <2>1. CASE g \in Range(got)
    <3>1. e = d
      BY <1>4, <1>5, <1>10, <2>1
    <3> QED  BY <1>7, <1>8, <2>1, <3>1 DEF InBooks
  <2>2. CASE g \notin Range(got)
    <3>1. InBooks(g, e)
      BY <1>4, <1>5, <1>10, <2>2 DEF AllRecorded
    <3> QED  BY <1>2, <1>6, <1>9, <3>1 DEF InBooks
  <2> QED  BY <2>1, <2>2
<1> QED  BY <1>10 DEF AllRecorded

LEMMA StepLosesNothing ==
  ASSUME ClusterAssumption, ManagerAssumption, IInv, AllRecorded, [Next]_vars
  PROVE  AllRecorded'
<1>1. ASSUME NEW d \in Ids,
             \/ Deploy(d) \/ SpawnAllocate(d) \/ Register(d) \/ Undo(d) \/ Pop(d) \/ Notified(d)
             \/ Teardown(d) \/ TeardownLocks(d) \/ Shutdown(d) \/ Stopped(d)
      PROVE  AllRecorded'
  BY <1>1, TasksLoseNothing, SpawnLosesNothing, FreeingLosesNothing
<1>2. ASSUME NEW s \in Scales,
             \/ ScaleNotRunning(s) \/ ScaleUp(s) \/ ScaleDown(s) \/ ScaleLocks(s) \/ Update(s)
             \/ Updated(s) \/ ScaleUpFailed(s)
      PROVE  AllRecorded'
  BY <1>2, ScalesLoseNothing, ScaleUpLosesNothing
<1>3. CASE UNCHANGED vars
  <2>1. UNCHANGED <<owner, resources, batch, dep, td, sc, target, task_states>> /\ UNCHANGED scVars
    BY <1>3 DEF vars, scVars
  <2> QED  BY <2>1, NothingMoves, TasksStay, ScalesStay
<1> QED  BY <1>1, <1>2, <1>3 DEF Next, GatewayCalls, Progress, Stop

LEMMA NothingIsOwnedFirst ==
  ASSUME ManagerAssumption, Init
  PROVE  AllRecorded
BY DEF Init, AllRecorded, ManagerAssumption

(* No GPU is lost: every GPU that somebody owns is in the books of that     *)
(* owner, and the owner can be found, whatever calls fail beside each       *)
(* other; except for those that a scale-up had taken when it raised, which  *)
(* stay the owner's (and a task manager that a Teardown popped for another  *)
(* instance's sake); for any cluster, any tasks and any number of calls.    *)
THEOREM NoneIsLost == Spec => []NoGPULost
<1> DEFINE Inv == IInv /\ AllRecorded
<1>1. Init => Inv
  BY InitHolds, NothingIsOwnedFirst, ClusterAssumption, ManagerAssumption
<1>2. Inv /\ [Next]_vars => Inv'
  BY StepHolds, StepLosesNothing, ClusterAssumption, ManagerAssumption
<1>3. Inv => NoGPULost
  BY NotLostFollows
<1> QED  BY <1>1, <1>2, <1>3, PTL DEF Spec

-----------------------------------------------------------------------------
(* GPU.free() raises for a GPU that is free, and would free one that has a  *)
(* new owner: a list of GPUs may be freed when each is owned by the one     *)
(* that gives it back and is in the list once.                              *)
MayFree(list, d) == Once(list) /\ \A g \in Range(list) : owner[g] = d

FreesItsOwn ==
  /\ \A d \in Ids : Undo(d) \/ Stopped(d) => MayFree(resources[d], d)
  /\ \A s \in Scales :
       ScaleUpFailed(s) \/ (Updated(s) /\ ~Up(s)) => MayFree(batch[s], target[s])

LEMMA PrefixIsOnce ==
  ASSUME NEW S, NEW s \in Seq(S), NEW n \in Nat, Once(s)
  PROVE  Once(Prefix(s, n))
<1> DEFINE m == IF n < Len(s) THEN n ELSE Len(s)
<1>1. m \in Nat /\ m <= Len(s) /\ Prefix(s, n) = SubSeq(s, 1, m)
  BY DEF Prefix
<1> HIDE DEF m
<1>2. Prefix(s, n) = [i \in 1 .. m |-> s[i]] /\ Len(Prefix(s, n)) = m
  BY <1>1
<1>3. \A i \in 1 .. m : i \in 1 .. Len(s) /\ Prefix(s, n)[i] = s[i]
  BY <1>1, <1>2
<1> QED  BY <1>2, <1>3 DEF Once, OneToOne

LEMMA FreesFollows ==
  ASSUME ManagerAssumption, IInv
  PROVE  FreesItsOwn
<1> USE DEF IInv, Books
<1>1. ASSUME NEW d \in Ids, Undo(d) \/ Stopped(d) PROVE MayFree(resources[d], d)
  <2>1. Holding(d)
    BY <1>1 DEF Undo, Stopped, Holding, Phases, Torn
  <2> QED  BY <2>1 DEF MayFree, RecordedAreOwned, EachOnce
<1>2. ASSUME NEW s \in Scales, ScaleUpFailed(s) PROVE MayFree(batch[s], target[s])
  <2>1. PICK d \in Ids : d = target[s]
    BY <1>2 DEF ScaleUpFailed, Found
  <2>2. Taking(s, d)
    BY <1>2, <2>1 DEF ScaleUpFailed, Taking, Found
  <2> QED  BY <2>1, <2>2 DEF MayFree, RecordedAreOwned, EachOnce
<1>3. ASSUME NEW s \in Scales, Updated(s), ~Up(s) PROVE MayFree(batch[s], target[s])
  <2>1. PICK d \in Ids : d = target[s]
    BY <1>3 DEF Updated, Found
  <2>2. Holding(d)
    <3>1. sc[s] = "updated" /\ d # NoId
      BY <1>3 DEF Updated, ManagerAssumption
    <3>2. dep[d] = "ok" /\ td[d] # "done"
      BY <2>1, <3>1 DEF Found, LocksHeld, InLock
    <3> QED  BY <3>2 DEF Holding
  <2> DEFINE r == resources[d]
             n == -Amount[s]
  <2>3. r \in Seq(GPUs) /\ n \in Nat /\ Once(r) /\ \A g \in Range(r) : owner[g] = d
    BY <1>3, <2>2, DownIsNat DEF TypeOK, RecordedAreOwned, EachOnce
  <2>4. batch[s] = Prefix(r, n)
    BY <1>3, <2>1 DEF Updated, Answers, AnswerOf
  <2> HIDE DEF r, n
  <2>5. Once(batch[s]) /\ Range(batch[s]) \subseteq Range(r)
    <3>1. Once(Prefix(r, n))
      BY <2>3, PrefixIsOnce
    <3>2. Range(r) = Range(Prefix(r, n)) \cup Range(SubSeq(r, n + 1, Len(r)))
      BY <2>3, PrefixIs
    <3> QED  BY <2>4, <3>1, <3>2
  <2> QED  BY <2>1, <2>3, <2>5 DEF MayFree
<1> QED  BY <1>1, <1>2, <1>3 DEF FreesItsOwn

(* No call of GPU.free() raises, and none frees a GPU of somebody else: a   *)
(* failed Deploy or Scale and a Teardown give back what is theirs, once.    *)
THEOREM GivenBackOnce == Spec => [][FreesItsOwn]_vars
<1>1. Spec => []IInv
  BY Invariant
<1>2. IInv => FreesItsOwn
  BY FreesFollows, ManagerAssumption
<1> QED  BY <1>1, <1>2, PTL

=============================================================================
