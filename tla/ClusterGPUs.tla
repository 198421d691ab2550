----------------------------- MODULE ClusterGPUs ----------------------------
(***************************************************************************)
(* The GPUs of a cluster and how they are handed out (services/resource.py *)
(* and the loop over batch sizes of ResourceManager.scale_up_unit_task),   *)
(* and how a task manager groups the GPUs it has for its executors         *)
(* (task_manager/manager.py).  GPUs are named by their global rank, and    *)
(* `own` is the owner of each.  The ranks of a node grow with the local    *)
(* rank, and nodes are numbered in the order of their names.               *)
(***************************************************************************)
EXTENDS Integers, FiniteSets, SequencesExt

CONSTANTS
  NumGPUs,
  NodeOf     (* [GPUs -> Nat]                                              *)

GPUs   == 0 .. NumGPUs - 1
Nodes  == { NodeOf[g] : g \in GPUs }
Nobody == "nobody"

ASSUME ClusterAssumption == NumGPUs \in Nat /\ NodeOf \in [GPUs -> Nat]

(* The elements of a set of numbers in increasing order. *)
Sorted(S) ==
  [i \in 1 .. Cardinality(S) |->
     CHOOSE x \in S : Cardinality({ y \in S : y < x }) = i - 1]

FreeGPUs(own)       == { g \in GPUs : own[g] = Nobody }
FreeOn(own, v)      == { g \in FreeGPUs(own) : NodeOf[g] = v }
OwnedOn(own, id, v) == { g \in GPUs : own[g] = id /\ NodeOf[g] = v }

(* Take the GPUs of the node whoever owns them. *)
FreeOnAny(own, v) == { g \in GPUs : NodeOf[g] = v }

(* The head of the heap: the most free GPUs, then the fewest of the owner   *)
(* ("spread"), then the name.                                               *)
Prefer(own, id, v, w) ==
  LET free(x) == Cardinality(FreeOn(own, x))
      mine(x) == Cardinality(OwnedOn(own, id, x))
  IN  \/ free(v) > free(w)
      \/ free(v) = free(w) /\ mine(v) < mine(w)
      \/ free(v) = free(w) /\ mine(v) = mine(w) /\ v <= w

BestNode(own, id) == CHOOSE v \in Nodes : \A w \in Nodes : Prefer(own, id, v, w)

(* Resource.allocate with must_colocate: why it raises, or the n GPUs of    *)
(* one node that it marks as the owner's.                                   *)
NotEnough(own, n)         == n > Cardinality(FreeGPUs(own))
CannotColocate(own, id, n) == n > Cardinality(FreeOn(own, BestNode(own, id)))

Picked(own, id, n) == SubSeq(Sorted(FreeOn(own, BestNode(own, id))), 1, n)

Give(own, gs, id) == [g \in GPUs |-> IF g \in gs THEN id ELSE own[g]]

-----------------------------------------------------------------------------
(* The allocation of scale_up_unit_task.  `sizes` are the numbers of GPUs   *)
(* the profile of the task has an entry for; fewer GPUs than the smallest   *)
(* are refused at once.                                                     *)

Descending(sizes) == Reverse(Sorted(sizes))

(* One batch of c GPUs, the j-th of k (from 0).  A batch that cannot be     *)
(* colocated leaves the GPUs of the rest of the batches to smaller ones,    *)
(* and the loop goes on; NotEnoughGPUsError leaves the whole method.        *)
TryBatch(a, c, k, j, id) ==
  IF a.raised THEN a
  ELSE IF NotEnough(a.own, c) THEN [a EXCEPT !.raised = TRUE]
  ELSE IF CannotColocate(a.own, id, c) THEN [a EXCEPT !.left = @ + c * (k - j)]
  ELSE LET gs == Picked(a.own, id, c)
       IN  [a EXCEPT !.own = Give(@, Range(gs), id), !.got = @ \o gs]

(* All batches of c GPUs that the number left makes. *)
TrySize(a, c, id) ==
  LET k == IF a.raised THEN 0 ELSE a.left \div c
      after[j \in 0 .. k] == IF j = 0 THEN [a EXCEPT !.left = @ % c]
                             ELSE TryBatch(after[j - 1], c, k, j - 1, id)
  IN  after[k]

ScaleUpBy(own, id, n, sizes) ==
  LET ds == Descending(sizes)
      after[i \in 0 .. Len(ds)] ==
        IF i = 0
        THEN [own |-> own, got |-> <<>>, left |-> n, raised |-> \A c \in sizes : n < c]
        ELSE TrySize(after[i - 1], ds[i], id)
  IN  after[Len(ds)]

-----------------------------------------------------------------------------
(* TaskManager.update_resources: node by node, executors of the largest     *)
(* sizes first, each on the next GPUs of the node.                          *)
Executor(s, k, c) == { s[k + x] : x \in 1 .. c }

(* What is left of n GPUs after the executors of the first i sizes. *)
Left(n, ds) ==
  LET left[i \in 0 .. Len(ds)] == IF i = 0 THEN n ELSE left[i - 1] % ds[i]
  IN  left

GroupsOnNode(gs, sizes) ==
  LET s    == Sorted(gs)
      ds   == Descending(sizes)
      left == Left(Len(s), ds)
  IN  UNION { { Executor(s, Len(s) - left[i - 1] + ds[i] * (j - 1), ds[i]) :
                  j \in 1 .. left[i - 1] \div ds[i] } : i \in 1 .. Len(ds) }

Groups(gs, sizes) ==
  UNION { GroupsOnNode({ g \in gs : NodeOf[g] = v }, sizes) : v \in Nodes }

=============================================================================
