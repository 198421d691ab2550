-------------------------- MODULE ClusterGPUs_proofs ------------------------
(***************************************************************************)
(* What the operators of ClusterGPUs compute, for any cluster: how the     *)
(* GPUs of a task manager are grouped, and which GPUs an allocation takes. *)
(* An induction over data is a counterexample that would have a least one. *)
(***************************************************************************)
EXTENDS ClusterGPUs, FiniteSetTheorems, SequenceTheorems, WellFoundedInduction, TLAPS

LEMMA LeastExists ==
  ASSUME NEW T, T \subseteq Nat, T # {}
  PROVE  \E x \in T : \A y \in T : x <= y
<1> DEFINE R == { ss \in Nat \X Nat : ss[1] < ss[2] }
<1>1. IsWellFoundedOn(R, Nat)
  BY NatLessThanWellFounded DEF OpToRel
<1>2. \A a, b \in Nat : a < b => <<a, b>> \in R
  OBVIOUS
<1> HIDE DEF R
<1>3. PICK x \in T : \A y \in T : ~(<<y, x>> \in R)
  BY <1>1, WFMin
<1>4. ASSUME NEW y \in T PROVE x <= y
  <2>1. x \in Nat /\ y \in Nat
    OBVIOUS
  <2>2. ~(y < x)
    BY <2>1, <1>2, <1>3
  <2> QED  BY <2>1, <2>2
<1> QED  BY <1>4

(* A recursion over the numbers up to n has a function. *)
Recurs(f, a, step, n) == f[0] = a /\ \A i \in 1 .. n : f[i] = step[<<i, f[i - 1]>>]

LEMMA RecursionHolds ==
  ASSUME NEW S, NEW a \in S, NEW step \in [Nat \X S -> S], NEW n \in Nat
  PROVE  \E f \in [0 .. n -> S] : Recurs(f, a, step, n)
<1> DEFINE Is(m, f) == f[0] = a /\ \A i \in 1 .. m : f[i] = step[<<i, f[i - 1]>>]
           T == { m \in Nat : ~\E f \in [0 .. m -> S] : Is(m, f) }
<1>1. SUFFICES T = {}
  BY DEF Recurs
<1>2. SUFFICES ASSUME T # {} PROVE FALSE
  OBVIOUS
<1>3. PICK m \in T : \A k \in T : m <= k
  BY <1>2, LeastExists
<1>4. m # 0
  <2>1. Is(0, [i \in 0 .. 0 |-> a])
    OBVIOUS
  <2>2. [i \in 0 .. 0 |-> a] \in [0 .. 0 -> S]
    OBVIOUS
  <2> QED  BY <2>1, <2>2
<1>5. m - 1 \in Nat /\ m - 1 \notin T
  BY <1>3, <1>4
<1>6. PICK f \in [0 .. m - 1 -> S] : Is(m - 1, f)
  BY <1>5
<1> DEFINE g == [i \in 0 .. m |-> IF i = m THEN step[<<m, f[m - 1]>>] ELSE f[i]]
<1>7. g \in [0 .. m -> S]
  BY <1>4, <1>5
<1>8. /\ g[m] = step[<<m, g[m - 1]>>] /\ g[0] = a
      /\ \A i \in 0 .. m - 1 : g[i] = f[i]
  <2>1. m \in Nat /\ m \in 0 .. m
    BY <1>3
  <2>2. \A i \in 0 .. m - 1 : i \in 0 .. m /\ i # m
    BY <2>1
  <2>3. 0 \in 0 .. m - 1 /\ m - 1 \in 0 .. m - 1
    BY <1>4, <1>5
  <2>4. g[m] = step[<<m, f[m - 1]>>]
    BY <2>1
  <2>5. \A i \in 0 .. m - 1 : g[i] = f[i]
    BY <2>2
  <2>6. f[0] = a
    BY <1>6
  <2> HIDE DEF g
  <2> QED  BY <2>3, <2>4, <2>5, <2>6
<1> HIDE DEF g
<1>9. ASSUME NEW i \in 1 .. m PROVE g[i] = step[<<i, g[i - 1]>>]
  <2>1. CASE i = m
    BY <1>8, <2>1
  <2>2. CASE i # m
    <3>1. i \in 1 .. m - 1 /\ i \in 0 .. m - 1 /\ i - 1 \in 0 .. m - 1
      BY <2>2
    <3>2. f[i] = step[<<i, f[i - 1]>>]
      BY <1>6, <3>1
    <3> QED  BY <1>8, <3>1, <3>2
  <2> QED  BY <2>1, <2>2
<1>10. Is(m, g)
  BY <1>8, <1>9
<1> QED  BY <1>7, <1>10

LEMMA Division ==
  ASSUME NEW v \in Nat, NEW c \in Nat \ {0}
  PROVE  /\ v % c \in Nat /\ v \div c \in Nat
         /\ v = c * (v \div c) + (v % c) /\ v % c < c /\ v % c <= v
         /\ \A j \in 1 .. v \div c : c * (j - 1) + c <= v - (v % c)
<1>1. v = c * (v \div c) + (v % c) /\ v % c \in 0 .. c - 1
  OBVIOUS
<1>2. v \div c \in Nat
  OBVIOUS
<1>3. v % c <= v
  OBVIOUS
<1>4. ASSUME NEW j \in 1 .. v \div c
      PROVE  c * (j - 1) + c <= v - (v % c)
  <2>1. c * (j - 1) + c = c * j /\ v - (v % c) = c * (v \div c)
    BY <1>1, <1>2
  <2>2. c * j <= c * (v \div c)
    BY <1>2
  <2> QED  BY <1>1, <1>2, <2>1, <2>2
<1> QED  BY <1>1, <1>2, <1>3, <1>4

LEMMA Farther ==
  ASSUME NEW n \in Nat, NEW a \in Nat, NEW b \in Nat, b <= a
  PROVE  n - a <= n - b /\ n - a \in Int /\ n - b \in Int
OBVIOUS

LEMMA ProductIsNat ==
  ASSUME NEW a \in Nat, NEW b \in Nat
  PROVE  a * b \in Nat
OBVIOUS

(* A place in a stretch that ends before another begins is not in the other. *)
LEMMA Apart ==
  ASSUME NEW k \in Nat, NEW m \in Nat, NEW c \in Nat, NEW u \in Int, NEW v \in Int,
         NEW x \in Nat, NEW y \in Nat,
         k + c <= u, u <= v, v <= m, x <= c, 1 <= y
  PROVE  k + x < m + y
<1>1. k + x <= u
  OBVIOUS
<1>2. v < m + y
  OBVIOUS
<1> QED  BY <1>1, <1>2

LEMMA LeftIs ==
  ASSUME NEW n \in Nat, NEW ds \in Seq(Nat \ {0})
  PROVE  /\ Left(n, ds) \in [0 .. Len(ds) -> Nat] /\ Left(n, ds)[0] = n
         /\ \A i \in 1 .. Len(ds) : Left(n, ds)[i] = Left(n, ds)[i - 1] % ds[i]
<1> DEFINE step == [z \in Nat \X Nat |-> IF z[1] \in 1 .. Len(ds) THEN z[2] % ds[z[1]] ELSE 0]
           Is(f) == f = [i \in 0 .. Len(ds) |-> IF i = 0 THEN n ELSE f[i - 1] % ds[i]]
<1>1. step \in [Nat \X Nat -> Nat]
  <2>1. ASSUME NEW i \in 1 .. Len(ds), NEW v \in Nat PROVE v % ds[i] \in Nat
    <3>1. ds[i] \in Nat \ {0}
      OBVIOUS
    <3> QED  BY <3>1, Division
  <2> QED  BY <2>1
<1>2. Len(ds) \in Nat
  OBVIOUS
<1>3. \A i \in 1 .. Len(ds), v \in Nat : step[<<i, v>>] = v % ds[i]
  OBVIOUS
<1> HIDE DEF step
<1>4. PICK f \in [0 .. Len(ds) -> Nat] : f[0] = n /\ \A i \in 1 .. Len(ds) : f[i] = step[<<i, f[i - 1]>>]
  <2>1. \E f \in [0 .. Len(ds) -> Nat] : Recurs(f, n, step, Len(ds))
    BY <1>1, <1>2, RecursionHolds
  <2> QED  BY <2>1 DEF Recurs
<1>5. \A i \in 1 .. Len(ds) : f[i] = f[i - 1] % ds[i]
  <2>1. \A i \in 1 .. Len(ds) : f[i - 1] \in Nat
    OBVIOUS
  <2> QED  BY <1>3, <1>4, <2>1
<1>6. Is(f)
  <2>1. \A i \in 0 .. Len(ds) : f[i] = IF i = 0 THEN n ELSE f[i - 1] % ds[i]
    BY <1>4, <1>5
  <2> QED  BY <2>1
<1>7. Left(n, ds) = CHOOSE g : Is(g)
  BY DEF Left
<1>8. Is(Left(n, ds))
  BY <1>6, <1>7
<1> DEFINE L == Left(n, ds)
<1> HIDE DEF L
<1>9. L = [i \in 0 .. Len(ds) |-> IF i = 0 THEN n ELSE L[i - 1] % ds[i]]
  BY <1>8 DEF L
<1>10. /\ L[0] = n
       /\ \A i \in 1 .. Len(ds) : L[i] = L[i - 1] % ds[i]
  <2>1. \A i \in 0 .. Len(ds) : L[i] = IF i = 0 THEN n ELSE L[i - 1] % ds[i]
    BY <1>9, Zenon
  <2>2. 0 \in 0 .. Len(ds) /\ \A i \in 1 .. Len(ds) : i \in 0 .. Len(ds) /\ i # 0
    BY <1>2
  <2> QED  BY <2>1, <2>2
<1>11. \A i \in 0 .. Len(ds) : L[i] = f[i]
  <2> DEFINE T == { i \in 0 .. Len(ds) : L[i] # f[i] }
  <2>1. SUFFICES ASSUME T # {} PROVE FALSE
    OBVIOUS
  <2>2. T \subseteq Nat
    BY <1>2
  <2>3. PICK i \in T : \A k \in T : i <= k
    BY <2>1, <2>2, LeastExists
  <2>4. i # 0
    BY <1>4, <1>10
  <2>5. i - 1 \in 0 .. Len(ds) /\ i \in 1 .. Len(ds) /\ i - 1 \notin T
    BY <2>3, <2>4
  <2> QED  BY <1>5, <1>10, <2>5
<1>12. L \in [0 .. Len(ds) -> Nat]
  <2>1. DOMAIN L = 0 .. Len(ds) /\ L = [i \in DOMAIN L |-> L[i]]
    BY <1>9
  <2>2. \A i \in 0 .. Len(ds) : L[i] \in Nat
    BY <1>11
  <2> QED  BY <2>1, <2>2
<1> QED  BY <1>10, <1>12 DEF L

(* No size leaves more than the one before it.                              *)
LEMMA LeftFalls ==
  ASSUME NEW n \in Nat, NEW ds \in Seq(Nat \ {0}), NEW i \in 0 .. Len(ds), NEW j \in i .. Len(ds)
  PROVE  Left(n, ds)[j] <= Left(n, ds)[i]
<1> DEFINE L == Left(n, ds)
           T == { k \in i .. Len(ds) : ~(L[k] <= L[i]) }
<1>1. /\ L \in [0 .. Len(ds) -> Nat]
      /\ \A k \in 1 .. Len(ds) : L[k] = L[k - 1] % ds[k]
  BY LeftIs
<1> HIDE DEF L
<1>2. SUFFICES ASSUME T # {} PROVE FALSE
  BY DEF L
<1>3. T \subseteq Nat /\ Len(ds) \in Nat
  OBVIOUS
<1>4. PICK k \in T : \A m \in T : k <= m
  BY <1>2, <1>3, LeastExists
<1>5. k # i
  BY <1>1
<1>6. k \in Nat /\ i \in Nat /\ Len(ds) \in Nat /\ i <= k /\ k <= Len(ds)
  BY <1>3
<1>7. k \in 1 .. Len(ds) /\ k - 1 \in i .. Len(ds) /\ k - 1 \notin T
  BY <1>4, <1>5, <1>6
<1>8. k \in 0 .. Len(ds) /\ k - 1 \in 0 .. Len(ds)
  BY <1>5, <1>6
<1>9. L[k] <= L[k - 1]
  <2>1. L[k - 1] \in Nat /\ ds[k] \in Nat \ {0}
    <3>1. ds[k] \in Nat \ {0}
      BY <1>7
    <3>2. L[k - 1] \in Nat
      BY <1>1, <1>8
    <3> QED  BY <3>1, <3>2
  <2>2. L[k] = L[k - 1] % ds[k]
    BY <1>1, <1>7
  <2> QED  BY <2>1, <2>2, Division
<1>10. L[k] \in Nat /\ L[k - 1] \in Nat /\ L[i] \in Nat
  BY <1>1, <1>8
<1>11. L[k - 1] <= L[i]
  BY <1>7
<1>12. ~(L[k] <= L[i])
  BY <1>4
<1> HIDE DEF T
<1> QED  BY <1>9, <1>10, <1>11, <1>12

OneToOne(s, n) == \A i, j \in 1 .. n : s[i] = s[j] => i = j

(* How many elements of a set of numbers are below a number. *)
Rank(S, x) == Cardinality({ y \in S : y < x })

(* The elements of a set of numbers, each once. *)
Ranked(s, S, n) == \A i \in 1 .. n : Rank(S, s[i]) = i - 1

LEMMA SortedIs ==
  ASSUME NEW S, S \subseteq Nat, IsFiniteSet(S)
  PROVE  /\ Cardinality(S) \in Nat /\ Sorted(S) \in [1 .. Cardinality(S) -> S]
         /\ OneToOne(Sorted(S), Cardinality(S))
         /\ Ranked(Sorted(S), S, Cardinality(S))
<1> DEFINE below(x) == { y \in S : y < x }
           n == Cardinality(S)
           T == { i \in 1 .. n : ~\E x \in S : Cardinality(below(x)) = i - 1 }
<1>1. n \in Nat
  BY FS_CardinalityType
<1> HIDE DEF n
<1>2. \A x \in S : IsFiniteSet(below(x)) /\ x \notin below(x) /\ below(x) \subseteq S
  BY FS_Subset
<1>3. T = {}
  <2>1. SUFFICES ASSUME T # {} PROVE FALSE
    OBVIOUS
  <2>2. T \subseteq Nat
    BY <1>1
  <2>3. PICK i \in T : \A k \in T : i <= k
    BY <2>1, <2>2, LeastExists
  <2>4. CASE i = 1
    <3>1. S # {}
      BY <2>3, <2>4, FS_EmptySet DEF n
    <3>2. PICK x \in S : \A y \in S : x <= y
      BY <3>1, LeastExists
    <3>3. below(x) = {}
      <4>1. \A y \in S : ~(y < x)
        BY <3>2
      <4> QED  BY <4>1
    <3>4. Cardinality(below(x)) = 0
      BY <3>3, FS_EmptySet
    <3> QED  BY <2>3, <2>4, <3>4
  <2>5. CASE i # 1
    <3>1. i - 1 \in 1 .. n /\ i - 1 \notin T
      BY <1>1, <2>3, <2>5
    <3>2. PICK x \in S : Cardinality(below(x)) = i - 2
      BY <3>1
    <3> DEFINE upto == below(x) \cup {x}
               above == { y \in S : x < y }
    <3>3. IsFiniteSet(upto) /\ Cardinality(upto) = i - 1
      <4>1. IsFiniteSet(below(x)) /\ x \notin below(x)
        BY <1>2
      <4>2. IsFiniteSet(upto) /\ Cardinality(upto) = Cardinality(below(x)) + 1
        BY <4>1, FS_AddElement
      <4>3. i \in Nat
        BY <2>2, <2>3
      <4> QED  BY <3>2, <4>2, <4>3
    <3>4. above # {}
      <4>1. ASSUME above = {} PROVE FALSE
        <5>1. \A y \in S : y < x \/ y = x
          BY <4>1
        <5>2. S = upto
          BY <5>1
        <5> QED  BY <1>1, <2>3, <3>3, <5>2 DEF n
      <4> QED  BY <4>1
    <3>5. PICK y \in above : \A z \in above : y <= z
      BY <3>4, LeastExists
    <3>6. below(y) = upto
      <4>1. \A z \in S : z < y <=> z < x \/ z = x
        <5>1. ASSUME NEW z \in S PROVE z < y <=> z < x \/ z = x
          <6>1. z \in Nat /\ x \in Nat /\ y \in Nat /\ x < y
            BY <3>5
          <6>2. x < z => y <= z
            BY <3>5
          <6> QED  BY <6>1, <6>2
        <5> QED  BY <5>1
      <4> QED  BY <4>1
    <3>7. Cardinality(below(y)) = i - 1
      BY <3>3, <3>6
    <3> QED  BY <2>3, <3>5, <3>7
  <2> QED  BY <2>4, <2>5
<1>4. \A i \in 1 .. n : Sorted(S)[i] \in S /\ Cardinality(below(Sorted(S)[i])) = i - 1
  <2>1. ASSUME NEW i \in 1 .. n
        PROVE  Sorted(S)[i] \in S /\ Cardinality(below(Sorted(S)[i])) = i - 1
    <3>1. Sorted(S)[i] = CHOOSE x \in S : Cardinality(below(x)) = i - 1
      BY DEF Sorted, n
    <3>2. \E x \in S : Cardinality(below(x)) = i - 1
      BY <1>3
    <3> QED  BY <3>1, <3>2
  <2> QED  BY <2>1
<1>5. Sorted(S) \in [1 .. n -> S]
  <2>1. Sorted(S) = [i \in 1 .. n |-> CHOOSE x \in S : Cardinality(below(x)) = i - 1]
    BY DEF Sorted, n
  <2>2. DOMAIN Sorted(S) = 1 .. n /\ Sorted(S) = [i \in 1 .. n |-> Sorted(S)[i]]
    BY <2>1
  <2> QED  BY <1>4, <2>2
<1>6. \A i, j \in 1 .. n : Sorted(S)[i] = Sorted(S)[j] => i = j
  <2>1. ASSUME NEW i \in 1 .. n, NEW j \in 1 .. n, Sorted(S)[i] = Sorted(S)[j]
        PROVE  i = j
    <3>1. i - 1 = j - 1
      BY <1>4, <2>1
    <3> QED  BY <3>1
  <2> QED  BY <2>1
<1>7. OneToOne(Sorted(S), n)
  BY <1>6 DEF OneToOne
<1>8. Ranked(Sorted(S), S, n)
  BY <1>4 DEF Ranked, Rank
<1> QED  BY <1>1, <1>5, <1>7, <1>8 DEF n

(* Sorted(S) is S in increasing order. *)
LEMMA SizesDescend ==
  ASSUME NEW sizes, sizes \subseteq Nat \ {0}, IsFiniteSet(sizes)
  PROVE  Descending(sizes) \in Seq(sizes)
<1> DEFINE n == Cardinality(sizes)
           s == Sorted(sizes)
<1>1. n \in Nat /\ s \in [1 .. n -> sizes]
  <2>1. sizes \subseteq Nat
    OBVIOUS
  <2> QED  BY <2>1, SortedIs
<1> HIDE DEF n, s
<1>2. s \in Seq(sizes) /\ Len(s) = n
  BY <1>1
<1>3. Reverse(s) = [i \in 1 .. n |-> s[(n - i) + 1]]
  BY <1>2 DEF Reverse
<1>4. \A i \in 1 .. n : s[(n - i) + 1] \in sizes
  <2>1. \A i \in 1 .. n : (n - i) + 1 \in 1 .. n
    BY <1>1
  <2> QED  BY <1>1, <2>1
<1>5. Reverse(s) \in [1 .. n -> sizes]
  BY <1>3, <1>4
<1> QED  BY <1>1, <1>5 DEF Descending, s

(* The GPUs of an executor are as many as its size, each from the sequence. *)
LEMMA ExecutorIs ==
  ASSUME NEW S, NEW n \in Nat, NEW s \in [1 .. n -> S],
         OneToOne(s, n),
         NEW k \in Nat, NEW c \in Nat, k + c <= n
  PROVE  /\ Executor(s, k, c) \subseteq S
         /\ IsFiniteSet(Executor(s, k, c)) /\ Cardinality(Executor(s, k, c)) = c
<1> DEFINE f == [x \in 1 .. c |-> s[k + x]]
           E == Executor(s, k, c)
<1>1. \A x \in 1 .. c : k + x \in 1 .. n
  OBVIOUS
<1>2. E \subseteq S
  BY <1>1 DEF Executor
<1>3. f \in Bijection(1 .. c, E)
  <2>1. f \in [1 .. c -> E]
    BY DEF Executor
  <2>2. \A x, y \in 1 .. c : f[x] = f[y] => x = y
    <3>1. ASSUME NEW x \in 1 .. c, NEW y \in 1 .. c, f[x] = f[y] PROVE x = y
      <4>1. s[k + x] = s[k + y]
        BY <3>1
      <4>2. k + x = k + y
        BY <1>1, <4>1 DEF OneToOne
      <4> QED  BY <4>2
    <3> QED  BY <3>1
  <2>3. \A e \in E : \E x \in 1 .. c : f[x] = e
    BY DEF Executor
  <2> HIDE DEF f, E
  <2> QED  BY <2>1, <2>2, <2>3 DEF Bijection, Injection, Surjection, IsInjective
<1>4. IsFiniteSet(1 .. c) /\ Cardinality(1 .. c) = c
  BY FS_Interval
<1>5. ExistsBijection(1 .. c, E)
  BY <1>3 DEF ExistsBijection
<1>6. IsFiniteSet(E) /\ Cardinality(E) = c
  BY <1>4, <1>5, FS_Bijection
<1> QED  BY <1>2, <1>6

Numbers(S) == S \subseteq Nat /\ IsFiniteSet(S)
Profile(S) == S \subseteq Nat \ {0} /\ IsFiniteSet(S)

(* The executors of a node: where they begin in the sequence of its GPUs.   *)
LEMMA NodeIsDivided ==
  ASSUME NEW gs, Numbers(gs), NEW sizes, Profile(sizes),
         NEW e \in GroupsOnNode(gs, sizes)
  PROVE  /\ e \subseteq gs /\ IsFiniteSet(e) /\ Cardinality(e) \in sizes
         /\ \A f \in GroupsOnNode(gs, sizes) : e # f => e \cap f = {}
<1> DEFINE n  == Cardinality(gs)
           s  == Sorted(gs)
           ds == Descending(sizes)
           L  == Left(n, ds)
           At(i, j) == n - L[i - 1] + ds[i] * (j - 1)
           J(i) == 1 .. L[i - 1] \div ds[i]
<1>1. gs \subseteq Nat /\ IsFiniteSet(gs) /\ sizes \subseteq Nat \ {0} /\ IsFiniteSet(sizes)
  BY DEF Numbers, Profile
<1>2. /\ n \in Nat /\ s \in [1 .. n -> gs] /\ Len(s) = n
      /\ OneToOne(s, n)
  <2>1. n \in Nat /\ s \in [1 .. n -> gs]
    BY <1>1, SortedIs
  <2>2. OneToOne(s, n)
    BY <1>1, SortedIs
  <2> HIDE DEF n, s
  <2> QED  BY <2>1, <2>2
<1>3. ds \in Seq(Nat \ {0}) /\ Len(ds) \in Nat /\ \A i \in 1 .. Len(ds) : ds[i] \in sizes /\ ds[i] \in Nat \ {0}
  <2>1. ds \in Seq(sizes)
    BY <1>1, SizesDescend
  <2> HIDE DEF ds
  <2>2. Len(ds) \in Nat /\ ds \in [1 .. Len(ds) -> sizes]
    BY <2>1
  <2>3. ds \in [1 .. Len(ds) -> Nat \ {0}]
    BY <1>1, <2>2
  <2>4. ds \in Seq(Nat \ {0})
    BY <2>2, <2>3
  <2> QED  BY <1>1, <2>2, <2>3, <2>4
<1>4. GroupsOnNode(gs, sizes) =
        UNION { { Executor(s, At(i, j), ds[i]) : j \in 1 .. L[i - 1] \div ds[i] } : i \in 1 .. Len(ds) }
  BY <1>2 DEF GroupsOnNode
<1> HIDE DEF n, s, ds
<1>5. /\ L \in [0 .. Len(ds) -> Nat] /\ L[0] = n
      /\ \A i \in 1 .. Len(ds) : L[i] = L[i - 1] % ds[i]
  BY <1>2, <1>3, LeftIs
<1>6. \A i \in 0 .. Len(ds), j \in 0 .. Len(ds) : i <= j => L[j] <= L[i]
  <2>1. ASSUME NEW i \in 0 .. Len(ds), NEW j \in 0 .. Len(ds), i <= j PROVE L[j] <= L[i]
    <3>1. j \in i .. Len(ds)
      BY <2>1
    <3> QED  BY <1>2, <1>3, <3>1, LeftFalls
  <2> QED  BY <2>1
<1> HIDE DEF L
<1>7. \A i \in 1 .. Len(ds) : i \in 0 .. Len(ds) /\ i - 1 \in 0 .. Len(ds) /\ L[i] \in Nat /\ L[i - 1] \in Nat
  <2>1. \A i \in 1 .. Len(ds) : i \in 0 .. Len(ds) /\ i - 1 \in 0 .. Len(ds)
    BY <1>3
  <2> QED  BY <1>5, <2>1
<1>8. ASSUME NEW i \in 1 .. Len(ds), NEW j \in J(i)
      PROVE  /\ At(i, j) \in Nat /\ n - L[i - 1] <= At(i, j)
             /\ At(i, j) + ds[i] <= n - L[i] /\ n - L[i] <= n
  <2>1. ds[i] \in Nat \ {0} /\ L[i - 1] \in Nat /\ L[i] \in Nat /\ L[i] = L[i - 1] % ds[i]
    BY <1>3, <1>5, <1>7
  <2>2. ds[i] * (j - 1) + ds[i] <= L[i - 1] - (L[i - 1] % ds[i])
    BY <2>1, Division
  <2>3. L[i - 1] <= n
    <3>1. 0 \in 0 .. Len(ds) /\ 0 <= i - 1
      BY <1>3
    <3> QED  BY <1>5, <1>6, <1>7, <3>1
  <2>4. ds[i] * (j - 1) \in Nat
    <3>1. j - 1 \in Nat
      OBVIOUS
    <3> QED  BY <2>1, <3>1, ProductIsNat
  <2> DEFINE m == ds[i] * (j - 1)
  <2>5. At(i, j) = n - L[i - 1] + m
    OBVIOUS
  <2>6. m \in Nat /\ m + ds[i] <= L[i - 1] - L[i]
    BY <2>1, <2>2, <2>4
  <2> HIDE DEF m, At, J
  <2>7. n \in Nat /\ ds[i] \in Nat
    BY <1>2, <2>1
  <2>8. At(i, j) \in Nat /\ n - L[i - 1] <= At(i, j)
    BY <2>1, <2>3, <2>5, <2>6, <2>7
  <2>9. At(i, j) + ds[i] <= n - L[i]
    BY <2>1, <2>5, <2>6, <2>7
  <2> QED  BY <2>1, <2>7, <2>8, <2>9
<1>9. PICK i \in 1 .. Len(ds) : \E j \in J(i) : e = Executor(s, At(i, j), ds[i])
  BY <1>4
<1>10. PICK j \in J(i) : e = Executor(s, At(i, j), ds[i])
  BY <1>9
<1> HIDE DEF At, J
<1>11. e \subseteq gs /\ IsFiniteSet(e) /\ Cardinality(e) \in sizes
  <2> DEFINE k == At(i, j)
             c == ds[i]
  <2>1. c \in Nat /\ L[i] \in Nat /\ n \in Nat
    BY <1>2, <1>3, <1>7
  <2>2. k \in Nat /\ k + c <= n - L[i] /\ n - L[i] <= n
    BY <1>8
  <2>3. e = Executor(s, k, c)
    BY <1>10
  <2> HIDE DEF k, c
  <2>4. k + c <= n
    BY <2>1, <2>2
  <2>5. e \subseteq gs /\ IsFiniteSet(e) /\ Cardinality(e) = c
    <3>1. s \in [1 .. n -> gs]
      BY <1>2
    <3>2. OneToOne(s, n)
      BY <1>2
    <3>3. n \in Nat /\ k \in Nat /\ c \in Nat /\ k + c <= n
      BY <2>1, <2>2, <2>4
    <3>4. /\ Executor(s, k, c) \subseteq gs
          /\ IsFiniteSet(Executor(s, k, c)) /\ Cardinality(Executor(s, k, c)) = c
      BY <3>1, <3>2, <3>3, ExecutorIs, SMTT(30)
    <3> QED  BY <2>3, <3>4
  <2> QED  BY <1>3, <2>5 DEF c
<1>12. ASSUME NEW f \in GroupsOnNode(gs, sizes), e \cap f # {} PROVE e = f
  <2>1. PICK a \in 1 .. Len(ds) : \E b \in J(a) : f = Executor(s, At(a, b), ds[a])
    BY <1>4 DEF At, J
  <2>2. PICK b \in J(a) : f = Executor(s, At(a, b), ds[a])
    BY <2>1
  <2> DEFINE k == At(i, j)
             m == At(a, b)
  <2>3. PICK x \in 1 .. ds[i], y \in 1 .. ds[a] : s[k + x] = s[m + y]
    BY <1>10, <1>12, <2>2 DEF Executor
  <2>4. /\ ds[i] \in Nat /\ ds[a] \in Nat /\ L[i] \in Nat /\ L[a] \in Nat
        /\ L[i - 1] \in Nat /\ L[a - 1] \in Nat /\ n \in Nat
    BY <1>2, <1>3, <1>7
  <2>5. k \in Nat /\ n - L[i - 1] <= k /\ k + ds[i] <= n - L[i]
    BY <1>8
  <2>6. m \in Nat /\ n - L[a - 1] <= m /\ m + ds[a] <= n - L[a]
    BY <1>8
  <2> HIDE DEF k, m
  <2>7. x \in Nat /\ y \in Nat /\ 1 <= x /\ x <= ds[i] /\ 1 <= y /\ y <= ds[a]
    BY <2>4
  <2>8. k + x = m + y
    <3>1. k + x \in 1 .. n
      BY <2>4, <2>5, <2>7
    <3>2. m + y \in 1 .. n
      BY <2>4, <2>6, <2>7
    <3> QED  BY <1>2, <2>3, <3>1, <3>2 DEF OneToOne
  <2>9. i = a
    <3>1. ASSUME i < a PROVE FALSE
      <4>1. i <= a - 1
        BY <3>1
      <4>2. L[a - 1] <= L[i]
        BY <1>6, <1>7, <4>1
      <4>3. n - L[i] <= n - L[a - 1] /\ n - L[i] \in Int /\ n - L[a - 1] \in Int
        BY <2>4, <4>2, Farther
      <4>4. k + x < m + y
        BY <2>4, <2>5, <2>6, <2>7, <4>3, Apart
      <4> QED  BY <2>5, <2>7, <2>8, <4>4
    <3>2. ASSUME a < i PROVE FALSE
      <4>1. a <= i - 1
        BY <3>2
      <4>2. L[i - 1] <= L[a]
        BY <1>6, <1>7, <4>1
      <4>3. n - L[a] <= n - L[i - 1] /\ n - L[a] \in Int /\ n - L[i - 1] \in Int
        BY <2>4, <4>2, Farther
      <4>4. m + y < k + x
        BY <2>4, <2>5, <2>6, <2>7, <4>3, Apart
      <4> QED  BY <2>6, <2>7, <2>8, <4>4
    <3> QED  BY <3>1, <3>2
  <2>10. j = b
    <3> DEFINE d == ds[i]
               u == d * (j - 1)
               w == d * (b - 1)
               z == n - L[i - 1]
    <3>1. k = z + u /\ m = z + w
      BY <2>9 DEF k, m, At
    <3>2. z \in Int
      BY <2>4
    <3>3. d \in Nat /\ x <= d /\ y <= d
      BY <2>4, <2>9, <2>7
    <3>4. u \in Nat /\ w \in Nat
      <4>1. j - 1 \in Nat /\ b - 1 \in Nat
        BY DEF J
      <4> QED  BY <3>3, <4>1
    <3> HIDE DEF u, w, z
    <3>5. u + x = w + y
      BY <2>4, <2>8, <2>7, <3>1, <3>4, <3>2
    <3>6. d * (j - 1) + x = d * (b - 1) + y /\ x \in 1 .. d /\ y \in 1 .. d
      BY <2>7, <3>5, <3>3 DEF u, w
    <3>7. d \in Nat /\ j \in Nat \ {0} /\ b \in Nat \ {0}
      BY <3>3 DEF J
    <3> HIDE DEF d
    <3>8. ASSUME j < b PROVE FALSE
      <4>1. d * j <= d * (b - 1)
        BY <3>7, <3>8
      <4>2. d * j = d * (j - 1) + d
        BY <3>7
      <4> QED  BY <3>6, <3>7, <4>1, <4>2
    <3>9. ASSUME b < j PROVE FALSE
      <4>1. d * b <= d * (j - 1)
        BY <3>7, <3>9
      <4>2. d * b = d * (b - 1) + d
        BY <3>7
      <4> QED  BY <3>6, <3>7, <4>1, <4>2
    <3> QED  BY <3>7, <3>8, <3>9
  <2> QED  BY <1>10, <2>2, <2>9, <2>10
<1> QED  BY <1>11, <1>12

(* However the GPUs are spread over the nodes, the groups are disjoint sets *)
(* of them, each of a size of the profile.                                  *)
LEMMA GroupsDivide ==
  ASSUME ClusterAssumption, NEW gs \in SUBSET GPUs, NEW sizes, Profile(sizes),
         NEW e \in Groups(gs, sizes)
  PROVE  /\ e \subseteq gs /\ e # {} /\ IsFiniteSet(e) /\ Cardinality(e) \in sizes
         /\ \A f \in Groups(gs, sizes) : e # f => e \cap f = {}
<1> DEFINE On(v) == { g \in gs : NodeOf[g] = v }
<1>1. IsFiniteSet(GPUs) /\ GPUs \subseteq Nat
  BY FS_Interval DEF GPUs, ClusterAssumption
<1>2. \A v \in Nodes : On(v) \subseteq Nat /\ IsFiniteSet(On(v))
  <2>1. ASSUME NEW v \in Nodes PROVE On(v) \subseteq Nat /\ IsFiniteSet(On(v))
    <3>1. On(v) \subseteq GPUs
      OBVIOUS
    <3> QED  BY <1>1, <3>1, FS_Subset
  <2> QED  BY <2>1
<1>3. Groups(gs, sizes) = UNION { GroupsOnNode(On(v), sizes) : v \in Nodes }
  BY DEF Groups
<1>4. ASSUME NEW v \in Nodes, NEW a \in GroupsOnNode(On(v), sizes)
      PROVE  /\ a \subseteq On(v) /\ IsFiniteSet(a) /\ Cardinality(a) \in sizes
             /\ \A f \in GroupsOnNode(On(v), sizes) : a # f => a \cap f = {}
  <2> DEFINE S == On(v)
  <2>1. Numbers(S)
    BY <1>2 DEF Numbers
  <2>2. a \in GroupsOnNode(S, sizes)
    OBVIOUS
  <2> HIDE DEF On, S
  <2>3. a \subseteq S /\ IsFiniteSet(a) /\ Cardinality(a) \in sizes
    BY <2>1, <2>2, NodeIsDivided
  <2>4. \A f \in GroupsOnNode(S, sizes) : a # f => a \cap f = {}
    BY <2>1, <2>2, NodeIsDivided
  <2> QED  BY <2>4, <2>3 DEF S
<1> HIDE DEF On
<1>5. PICK v \in Nodes : e \in GroupsOnNode(On(v), sizes)
  BY <1>3
<1>6. e \subseteq On(v) /\ IsFiniteSet(e) /\ Cardinality(e) \in sizes
  BY <1>5, <1>4
<1>7. ASSUME NEW f \in Groups(gs, sizes), e # f PROVE e \cap f = {}
  <2>1. PICK w \in Nodes : f \in GroupsOnNode(On(w), sizes)
    BY <1>3
  <2>2. CASE w = v
    BY <1>5, <1>7, <1>4, <2>1, <2>2
  <2>3. CASE w # v
    <3>1. f \subseteq On(w)
      BY <1>4, <2>1
    <3> QED  BY <1>6, <2>3, <3>1 DEF On
  <2> QED  BY <2>2, <2>3
<1>8. e # {}
  BY <1>6, FS_EmptySet DEF Profile
<1> QED  BY <1>6, <1>7, <1>8 DEF On

-----------------------------------------------------------------------------
(* Two functions on the numbers up to n that begin alike and go on alike.   *)
Follows(F, f, n) == F[0] = f[0] /\ \A i \in 1 .. n : F[i - 1] = f[i - 1] => F[i] = f[i]
SameTo(F, f, n)  == \A i \in 0 .. n : F[i] = f[i]

LEMMA Agree ==
  ASSUME NEW n \in Nat, NEW f, NEW F, Follows(F, f, n)
  PROVE  SameTo(F, f, n)
<1> DEFINE T == { i \in 0 .. n : F[i] # f[i] }
<1>1. SUFFICES ASSUME T # {} PROVE FALSE
  BY DEF SameTo
<1>2. T \subseteq Nat
  OBVIOUS
<1>3. PICK i \in T : \A k \in T : i <= k
  BY <1>1, <1>2, LeastExists
<1>4. i # 0
  BY DEF Follows
<1>5. i \in 1 .. n /\ i - 1 \in 0 .. n /\ i - 1 \notin T
  BY <1>3, <1>4
<1> QED  BY <1>5 DEF Follows

LEMMA GPUsAreNumbers ==
  ASSUME ClusterAssumption, NEW S, S \subseteq GPUs
  PROVE  S \subseteq Nat /\ IsFiniteSet(S) /\ Cardinality(S) \in Nat
<1>1. IsFiniteSet(GPUs) /\ GPUs \subseteq Nat
  BY FS_Interval DEF GPUs, ClusterAssumption
<1>2. IsFiniteSet(S)
  BY <1>1, FS_Subset
<1> QED  BY <1>1, <1>2, FS_CardinalityType

(* The GPUs that an allocation marks were free, and each is named once.     *)
LEMMA PickedIs ==
  ASSUME ClusterAssumption, NEW own, NEW id, NEW n \in Nat, ~CannotColocate(own, id, n)
  PROVE  /\ Picked(own, id, n) \in Seq(GPUs) /\ Len(Picked(own, id, n)) = n
         /\ OneToOne(Picked(own, id, n), n)
         /\ Range(Picked(own, id, n)) \subseteq FreeGPUs(own)
<1> DEFINE S == FreeOn(own, BestNode(own, id))
           s == Sorted(S)
           m == Cardinality(S)
           p == Picked(own, id, n)
<1>1. S \subseteq FreeGPUs(own) /\ FreeGPUs(own) \subseteq GPUs
  BY DEF FreeOn, FreeGPUs
<1>2. S \subseteq Nat /\ IsFiniteSet(S) /\ m \in Nat
  BY <1>1, GPUsAreNumbers
<1>3. s \in [1 .. m -> S] /\ OneToOne(s, m)
  BY <1>2, SortedIs
<1>4. n <= m
  BY <1>2 DEF CannotColocate
<1>5. p = SubSeq(s, 1, n)
  BY DEF Picked
<1> HIDE DEF S, s, m, p
<1>6. s \in Seq(S) /\ Len(s) = m
  BY <1>2, <1>3
<1>7. p = [i \in 1 .. n |-> s[i]]
  BY <1>2, <1>4, <1>5, <1>6
<1>8. \A i \in 1 .. n : i \in 1 .. m /\ s[i] \in S
  BY <1>2, <1>3, <1>4
<1>9. p \in [1 .. n -> S]
  BY <1>7, <1>8
<1>10. p \in Seq(GPUs) /\ Len(p) = n
  BY <1>1, <1>9
<1>11. OneToOne(p, n)
  BY <1>3, <1>7, <1>8 DEF OneToOne
<1>12. Range(p) \subseteq S
  BY <1>9 DEF Range
<1> QED  BY <1>1, <1>10, <1>11, <1>12 DEF p

(* One sequence after another, of other elements. *)
LEMMA AppendedIs ==
  ASSUME NEW S, NEW s \in Seq(S), NEW t \in Seq(S),
         OneToOne(s, Len(s)), OneToOne(t, Len(t)), Range(s) \cap Range(t) = {}
  PROVE  /\ s \o t \in Seq(S) /\ OneToOne(s \o t, Len(s \o t))
         /\ Range(s \o t) = Range(s) \cup Range(t)
<1> DEFINE r == s \o t
           k == Len(s)
           m == Len(t)
<1>1. /\ r \in Seq(S) /\ Len(r) = k + m /\ k \in Nat /\ m \in Nat
      /\ \A i \in 1 .. k : r[i] = s[i]
      /\ \A i \in k + 1 .. k + m : r[i] = t[i - k]
  OBVIOUS
<1>2. DOMAIN r = 1 .. k + m /\ DOMAIN s = 1 .. k /\ DOMAIN t = 1 .. m
  OBVIOUS
<1> HIDE DEF r, k, m
<1>3. \A i \in 1 .. k : s[i] \in Range(s)
  BY <1>2 DEF Range
<1>4. \A i \in 1 .. m : t[i] \in Range(t)
  BY <1>2 DEF Range
<1>5. \A i \in 1 .. k + m : i \in 1 .. k \/ (i \in k + 1 .. k + m /\ i - k \in 1 .. m)
  BY <1>1
<1>6. Range(r) = Range(s) \cup Range(t)
  <2>1. Range(r) \subseteq Range(s) \cup Range(t)
    <3>1. ASSUME NEW i \in 1 .. k + m PROVE r[i] \in Range(s) \cup Range(t)
      BY <1>1, <1>3, <1>4, <1>5
    <3> QED  BY <1>2, <3>1 DEF Range
  <2>2. Range(s) \subseteq Range(r)
    <3>1. ASSUME NEW i \in 1 .. k PROVE s[i] \in Range(r)
      <4>1. i \in 1 .. k + m /\ r[i] = s[i]
        BY <1>1
      <4> QED  BY <1>2, <4>1 DEF Range
    <3> QED  BY <1>2, <3>1 DEF Range
  <2>3. Range(t) \subseteq Range(r)
    <3>1. ASSUME NEW i \in 1 .. m PROVE t[i] \in Range(r)
      <4>1. k + i \in k + 1 .. k + m /\ k + i \in 1 .. k + m /\ (k + i) - k = i
        BY <1>1
      <4>2. r[k + i] = t[i]
        BY <1>1, <4>1
      <4> QED  BY <1>2, <4>1, <4>2 DEF Range
    <3> QED  BY <1>2, <3>1 DEF Range
  <2> QED  BY <2>1, <2>2, <2>3
<1>7. ASSUME NEW i \in 1 .. k + m, NEW j \in 1 .. k + m, r[i] = r[j] PROVE i = j
  <2>1. CASE i \in 1 .. k /\ j \in 1 .. k
    BY <1>1, <1>7, <2>1 DEF OneToOne, k
  <2>2. CASE i \in k + 1 .. k + m /\ j \in k + 1 .. k + m
    <3>1. i - k \in 1 .. m /\ j - k \in 1 .. m /\ t[i - k] = t[j - k]
      BY <1>1, <1>7, <2>2
    <3>2. i - k = j - k
      BY <3>1 DEF OneToOne, m
    <3> QED  BY <1>1, <3>2
  <2>3. CASE i \in 1 .. k /\ j \in k + 1 .. k + m
    <3>1. j - k \in 1 .. m
      BY <1>1, <2>3
    <3> QED  BY <1>1, <1>3, <1>4, <1>7, <2>3, <3>1
  <2>4. CASE j \in 1 .. k /\ i \in k + 1 .. k + m
    <3>1. i - k \in 1 .. m
      BY <1>1, <2>4
    <3> QED  BY <1>1, <1>3, <1>4, <1>7, <2>4, <3>1
  <2> QED  BY <1>5, <2>1, <2>2, <2>3, <2>4
<1>8. OneToOne(r, Len(r))
  BY <1>1, <1>7 DEF OneToOne
<1> QED  BY <1>1, <1>6, <1>8 DEF r

(* A state of the loop of a scale-up for `id` that began with the owners    *)
(* `own`: it has marked the GPUs that it has got, which were free, and      *)
(* nothing else.                                                            *)
Taken(O, own, id) ==
  { a \in [own : [GPUs -> O], got : Seq(GPUs), left : Nat, raised : BOOLEAN] :
      /\ a.own = Give(own, Range(a.got), id)
      /\ OneToOne(a.got, Len(a.got))
      /\ Range(a.got) \subseteq FreeGPUs(own) }

LEMMA TryBatchIs ==
  ASSUME ClusterAssumption, NEW O, NEW own \in [GPUs -> O], NEW id \in O, id # Nobody,
         NEW a \in Taken(O, own, id), NEW c \in Nat, NEW k \in Nat, NEW j \in 0 .. k
  PROVE  TryBatch(a, c, k, j, id) \in Taken(O, own, id)
<1> DEFINE b == TryBatch(a, c, k, j, id)
           R == [own : [GPUs -> O], got : Seq(GPUs), left : Nat, raised : BOOLEAN]
           gs == Picked(a.own, id, c)
<1>1. /\ a \in R /\ a.own = Give(own, Range(a.got), id)
      /\ OneToOne(a.got, Len(a.got)) /\ Range(a.got) \subseteq FreeGPUs(own)
  BY DEF Taken
<1>2. CASE a.raised
  BY <1>2 DEF TryBatch
<1>3. CASE ~a.raised /\ NotEnough(a.own, c)
  <2>1. b = [a EXCEPT !.raised = TRUE]
    BY <1>3 DEF TryBatch
  <2>2. b \in R /\ b.own = a.own /\ b.got = a.got
    BY <1>1, <2>1
  <2> QED  BY <1>1, <2>2 DEF Taken
<1>4. CASE ~a.raised /\ ~NotEnough(a.own, c) /\ CannotColocate(a.own, id, c)
  <2>1. b = [a EXCEPT !.left = @ + c * (k - j)]
    BY <1>4 DEF TryBatch
  <2>2. c * (k - j) \in Nat
    <3>1. k - j \in Nat
      OBVIOUS
    <3> QED  BY <3>1, ProductIsNat
  <2> DEFINE u == a.left + c * (k - j)
  <2>3. b = [a EXCEPT !.left = u] /\ u \in Nat
    <3>1. a.left \in Nat
      BY <1>1
    <3> QED  BY <2>1, <2>2, <3>1
  <2> HIDE DEF b, u
  <2>4. b \in R /\ b.own = a.own /\ b.got = a.got
    BY <1>1, <2>3
  <2> QED  BY <1>1, <2>4 DEF Taken, b
<1>5. CASE ~a.raised /\ ~NotEnough(a.own, c) /\ ~CannotColocate(a.own, id, c)
  <2>1. b = [a EXCEPT !.own = Give(a.own, Range(gs), id), !.got = a.got \o gs]
    BY <1>5 DEF TryBatch
  <2>2. /\ gs \in Seq(GPUs) /\ OneToOne(gs, Len(gs))
        /\ Range(gs) \subseteq FreeGPUs(a.own)
    BY <1>5, PickedIs
  <2> HIDE DEF b, gs
  <2>3. FreeGPUs(a.own) \cap Range(a.got) = {} /\ FreeGPUs(a.own) \subseteq FreeGPUs(own)
    BY <1>1 DEF FreeGPUs, Give
  <2> DEFINE r == a.got \o gs
  <2>4. r \in Seq(GPUs) /\ OneToOne(r, Len(r)) /\ Range(r) = Range(a.got) \cup Range(gs)
    <3>1. a.got \in Seq(GPUs) /\ OneToOne(a.got, Len(a.got)) /\ Range(a.got) \cap Range(gs) = {}
      BY <1>1, <2>2, <2>3
    <3>2. gs \in Seq(GPUs) /\ OneToOne(gs, Len(gs))
      BY <2>2
    <3> DEFINE s == a.got
    <3>3. s \in Seq(GPUs) /\ OneToOne(s, Len(s)) /\ Range(s) \cap Range(gs) = {} /\ r = s \o gs
      BY <3>1 DEF r
    <3> HIDE DEF R, s
    <3>4. r \in Seq(GPUs) /\ OneToOne(r, Len(r)) /\ Range(r) = Range(s) \cup Range(gs)
      BY <3>2, <3>3, AppendedIs
    <3> QED  BY <3>4 DEF s
  <2> HIDE DEF r
  <2>5. Give(a.own, Range(gs), id) = Give(own, Range(r), id)
    BY <1>1, <2>4 DEF Give
  <2>6. Give(own, Range(r), id) \in [GPUs -> O]
    BY DEF Give
  <2>7. b = [a EXCEPT !.own = Give(own, Range(r), id), !.got = r]
    BY <2>1, <2>5 DEF r
  <2>8. b \in R /\ b.own = Give(own, Range(r), id) /\ b.got = r
    BY <1>1, <2>4, <2>6, <2>7
  <2>9. Range(r) \subseteq FreeGPUs(own)
    BY <1>1, <2>2, <2>3, <2>4
  <2> HIDE DEF R
  <2> QED  BY <2>4, <2>8, <2>9 DEF Taken, b, R
<1> QED  BY <1>2, <1>3, <1>4, <1>5

(* The batches of one size, one after the other. *)
BatchesOf(a, c) == IF a.raised THEN 0 ELSE a.left \div c

Tries(f, a, c, id) ==
  /\ f[0] = [a EXCEPT !.left = a.left % c]
  /\ \A j \in 1 .. BatchesOf(a, c) :
       f[j] = TryBatch(f[j - 1], c, BatchesOf(a, c), j - 1, id)
  /\ TrySize(a, c, id) = f[BatchesOf(a, c)]

LEMMA TrySizeIs ==
  ASSUME ClusterAssumption, NEW O, NEW own \in [GPUs -> O], NEW id \in O, id # Nobody,
         NEW a \in Taken(O, own, id), NEW c \in Nat \ {0}
  PROVE  /\ BatchesOf(a, c) \in Nat
         /\ \E f \in [0 .. BatchesOf(a, c) -> Taken(O, own, id)] : Tries(f, a, c, id)
<1> DEFINE T == Taken(O, own, id)
           k == BatchesOf(a, c)
           b == [a EXCEPT !.left = a.left % c]
           step == [z \in Nat \X T |-> IF z[1] \in 1 .. k
                                       THEN TryBatch(z[2], c, k, z[1] - 1, id) ELSE z[2]]
           Is(f) == f = [j \in 0 .. k |-> IF j = 0 THEN b ELSE TryBatch(f[j - 1], c, k, j - 1, id)]
           F == CHOOSE f : Is(f)
<1>1. a.left \in Nat /\ a.left % c \in Nat /\ a.left \div c \in Nat
  <2>1. a.left \in Nat
    BY DEF Taken
  <2> QED  BY <2>1, Division
<1>2. k \in Nat
  BY <1>1 DEF BatchesOf
<1>3. b \in T
  <2> DEFINE l == a.left % c
  <2>1. l \in Nat /\ b = [a EXCEPT !.left = l]
    BY <1>1
  <2> HIDE DEF l, b
  <2> QED  BY <2>1 DEF Taken
<1>4. TrySize(a, c, id) = F[k]
  BY DEF TrySize, BatchesOf
<1> HIDE DEF k, b
<1>5. \A j \in 1 .. k, x \in T : TryBatch(x, c, k, j - 1, id) \in T
  <2>1. ASSUME NEW j \in 1 .. k, NEW x \in T PROVE TryBatch(x, c, k, j - 1, id) \in T
    <3>1. j - 1 \in 0 .. k
      BY <1>2
    <3> QED  BY <1>2, <3>1, TryBatchIs
  <2> QED  BY <2>1
<1> HIDE DEF T
<1>6. /\ step \in [Nat \X T -> T]
      /\ \A j \in 1 .. k, x \in T : step[<<j, x>>] = TryBatch(x, c, k, j - 1, id)
  BY <1>2, <1>5
<1> HIDE DEF step
<1>7. PICK f \in [0 .. k -> T] : f[0] = b /\ \A j \in 1 .. k : f[j] = step[<<j, f[j - 1]>>]
  <2>1. \E f \in [0 .. k -> T] : Recurs(f, b, step, k)
    BY <1>2, <1>3, <1>6, RecursionHolds
  <2> QED  BY <2>1 DEF Recurs
<1>8. \A j \in 1 .. k : f[j] = TryBatch(f[j - 1], c, k, j - 1, id)
  <2>1. \A j \in 1 .. k : f[j - 1] \in T
    BY <1>2
  <2> QED  BY <1>6, <1>7, <2>1
<1>9. Is(f)
  <2>1. \A j \in 0 .. k : f[j] = IF j = 0 THEN b ELSE TryBatch(f[j - 1], c, k, j - 1, id)
    BY <1>2, <1>7, <1>8
  <2> QED  BY <2>1
<1>10. F = [j \in 0 .. k |-> IF j = 0 THEN b ELSE TryBatch(F[j - 1], c, k, j - 1, id)]
  <2>1. Is(F)
    BY <1>9
  <2> HIDE DEF F
  <2> QED  BY <2>1
<1> HIDE DEF F, Is
<1>11. F[0] = b /\ \A j \in 1 .. k : F[j] = TryBatch(F[j - 1], c, k, j - 1, id)
  <2>1. \A j \in 0 .. k : F[j] = IF j = 0 THEN b ELSE TryBatch(F[j - 1], c, k, j - 1, id)
    BY <1>10, Zenon
  <2>2. 0 \in 0 .. k /\ \A j \in 1 .. k : j \in 0 .. k /\ j # 0
    BY <1>2
  <2> QED  BY <2>1, <2>2
<1>12. F[k] = f[k]
  <2>1. \A j \in 1 .. k : F[j - 1] = f[j - 1] => F[j] = f[j]
    BY <1>8, <1>11
  <2>2. F[0] = f[0]
    BY <1>7, <1>11
  <2>3. Follows(F, f, k)
    BY <2>1, <2>2 DEF Follows
  <2>4. SameTo(F, f, k)
    BY <1>2, <2>3, Agree
  <2> QED  BY <1>2, <2>4 DEF SameTo
<1> QED  BY <1>2, <1>4, <1>7, <1>8, <1>12 DEF k, T, b, Tries

(* The sizes, one after the other. *)
Begun(own, n, sizes) ==
  [own |-> own, got |-> <<>>, left |-> n, raised |-> \A c \in sizes : n < c]

LEMMA BegunIs ==
  ASSUME NEW O, NEW own \in [GPUs -> O], NEW id, NEW n \in Nat, NEW sizes
  PROVE  Begun(own, n, sizes) \in Taken(O, own, id)
<1> DEFINE r == \A c \in sizes : n < c
           b == [own |-> own, got |-> <<>>, left |-> n, raised |-> r]
<1>1. r \in BOOLEAN
  OBVIOUS
<1> HIDE DEF r
<1>2. b \in [own : [GPUs -> O], got : Seq(GPUs), left : Nat, raised : BOOLEAN]
  BY <1>1
<1>3. Range(<<>>) = {} /\ OneToOne(<<>>, Len(<<>>))
  BY DEF Range, OneToOne
<1>4. own = Give(own, {}, id)
  BY DEF Give
<1>5. b.own = own /\ b.got = <<>>
  OBVIOUS
<1> HIDE DEF b
<1>6. b \in Taken(O, own, id)
  BY <1>2, <1>3, <1>4, <1>5 DEF Taken
<1> QED  BY <1>6 DEF Begun, b, r

GoesDown(f, own, id, n, sizes) ==
  /\ f[0] = Begun(own, n, sizes)
  /\ \A i \in 1 .. Len(Descending(sizes)) : f[i] = TrySize(f[i - 1], Descending(sizes)[i], id)
  /\ ScaleUpBy(own, id, n, sizes) = f[Len(Descending(sizes))]

LEMMA ScaleUpSteps ==
  ASSUME ClusterAssumption, NEW O, NEW own \in [GPUs -> O], NEW id \in O, id # Nobody,
         NEW n \in Nat, NEW sizes, Profile(sizes)
  PROVE  /\ Descending(sizes) \in Seq(sizes)
         /\ \E f \in [0 .. Len(Descending(sizes)) -> Taken(O, own, id)] :
              GoesDown(f, own, id, n, sizes)
<1> DEFINE T == Taken(O, own, id)
           ds == Descending(sizes)
           m == Len(ds)
           b == Begun(own, n, sizes)
           step == [z \in Nat \X T |-> IF z[1] \in 1 .. m
                                       THEN TrySize(z[2], ds[z[1]], id) ELSE z[2]]
           Is(f) == f = [i \in 0 .. m |-> IF i = 0 THEN b ELSE TrySize(f[i - 1], ds[i], id)]
           F == CHOOSE f : Is(f)
<1>1. ds \in Seq(sizes) /\ sizes \subseteq Nat \ {0}
  BY SizesDescend DEF Profile
<1>2. ScaleUpBy(own, id, n, sizes) = F[m]
  BY DEF ScaleUpBy, Begun
<1> HIDE DEF ds, b
<1>3. m \in Nat /\ \A i \in 1 .. m : ds[i] \in Nat \ {0}
  <2>1. m \in Nat /\ ds \in [1 .. m -> sizes]
    BY <1>1
  <2> HIDE DEF m
  <2> QED  BY <1>1, <2>1
<1> HIDE DEF m
<1>4. b \in T
  BY BegunIs DEF b
<1>5. \A i \in 1 .. m, x \in T : TrySize(x, ds[i], id) \in T
  <2>1. ASSUME NEW i \in 1 .. m, NEW x \in T PROVE TrySize(x, ds[i], id) \in T
    <3> DEFINE c == ds[i]
               k == BatchesOf(x, c)
    <3>1. c \in Nat \ {0}
      BY <1>3
    <3> HIDE DEF c
    <3>2. /\ k \in Nat
          /\ \E f \in [0 .. k -> T] : Tries(f, x, c, id)
      BY <3>1, TrySizeIs
    <3>3. \A f : Tries(f, x, c, id) => TrySize(x, c, id) = f[k]
      BY DEF Tries
    <3> HIDE DEF k, T
    <3> QED  BY <3>2, <3>3 DEF c
  <2> QED  BY <2>1
<1> HIDE DEF T
<1>6. /\ step \in [Nat \X T -> T]
      /\ \A i \in 1 .. m, x \in T : step[<<i, x>>] = TrySize(x, ds[i], id)
  <2>1. \A z \in Nat \X T : (IF z[1] \in 1 .. m THEN TrySize(z[2], ds[z[1]], id) ELSE z[2]) \in T
    <3>1. ASSUME NEW z \in Nat \X T, z[1] \in 1 .. m PROVE TrySize(z[2], ds[z[1]], id) \in T
      <4>1. z[2] \in T
        OBVIOUS
      <4> QED  BY <1>5, <3>1, <4>1
    <3> QED  BY <3>1
  <2>2. \A i \in 1 .. m : i \in Nat
    BY <1>3
  <2> QED  BY <2>1, <2>2
<1> HIDE DEF step
<1>7. PICK f \in [0 .. m -> T] : f[0] = b /\ \A i \in 1 .. m : f[i] = step[<<i, f[i - 1]>>]
  <2>1. \E f \in [0 .. m -> T] : Recurs(f, b, step, m)
    BY <1>3, <1>4, <1>6, RecursionHolds
  <2> QED  BY <2>1 DEF Recurs
<1>8. \A i \in 1 .. m : f[i] = TrySize(f[i - 1], ds[i], id)
  <2>1. \A i \in 1 .. m : f[i - 1] \in T
    BY <1>3
  <2> QED  BY <1>6, <1>7, <2>1
<1>9. Is(f)
  <2>1. \A i \in 0 .. m : f[i] = IF i = 0 THEN b ELSE TrySize(f[i - 1], ds[i], id)
    BY <1>3, <1>7, <1>8
  <2> QED  BY <2>1
<1>10. F = [i \in 0 .. m |-> IF i = 0 THEN b ELSE TrySize(F[i - 1], ds[i], id)]
  <2>1. Is(F)
    BY <1>9
  <2> HIDE DEF F
  <2> QED  BY <2>1
<1> HIDE DEF F, Is
<1>11. F[0] = b /\ \A i \in 1 .. m : F[i] = TrySize(F[i - 1], ds[i], id)
  <2>1. \A i \in 0 .. m : F[i] = IF i = 0 THEN b ELSE TrySize(F[i - 1], ds[i], id)
    BY <1>10, Zenon
  <2>2. 0 \in 0 .. m /\ \A i \in 1 .. m : i \in 0 .. m /\ i # 0
    BY <1>3
  <2> QED  BY <2>1, <2>2
<1>12. F[m] = f[m]
  <2>1. \A i \in 1 .. m : F[i - 1] = f[i - 1] => F[i] = f[i]
    BY <1>8, <1>11
  <2>2. Follows(F, f, m)
    BY <1>7, <1>11, <2>1 DEF Follows
  <2>3. SameTo(F, f, m)
    BY <1>3, <2>2, Agree
  <2> QED  BY <1>3, <2>3 DEF SameTo
<1> QED  BY <1>1, <1>2, <1>7, <1>8, <1>12 DEF m, ds, T, b, GoesDown

(* A scale-up marks free GPUs as the owner's, each once, and no others,     *)
(* also when it raises in the end.                                          *)
LEMMA ScaleUpIs ==
  ASSUME ClusterAssumption, NEW O, NEW own \in [GPUs -> O], NEW id \in O, id # Nobody,
         NEW n \in Nat, NEW sizes, Profile(sizes)
  PROVE  ScaleUpBy(own, id, n, sizes) \in Taken(O, own, id)
<1> DEFINE m == Len(Descending(sizes))
<1>1. /\ Descending(sizes) \in Seq(sizes)
      /\ \E f \in [0 .. m -> Taken(O, own, id)] : GoesDown(f, own, id, n, sizes)
  BY ScaleUpSteps
<1>2. m \in Nat /\ \A f : GoesDown(f, own, id, n, sizes) => ScaleUpBy(own, id, n, sizes) = f[m]
  BY <1>1 DEF GoesDown
<1> HIDE DEF m
<1> QED  BY <1>1, <1>2

=============================================================================
