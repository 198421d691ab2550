---------------------------- MODULE Eric_proofs -----------------------------
(***************************************************************************)
(* Eric's engine and the message queue to its workers.                     *)
(* For any requests, data, batch size and number of workers: who is        *)
(* answered has all its embeddings sent, once, and requests leave the      *)
(* queue in the order in which they came.  The ring of the message queue   *)
(* is a broadcast queue, for every number of readers and chunks and every  *)
(* sequence of objects.                                                    *)
(***************************************************************************)
EXTENDS EricEngine, ShmBroadcast, FiniteSetTheorems, WellFoundedInduction, TLAPS

(* A request is on its way to the engine, in the queue, or responded to,    *)
(* and it is there once.                                                    *)
NoRepeat(s) == \A m, n \in DOMAIN s : s[m] = s[n] => m = n

Responded(r) ==
  client[r] = "answered" \/ \E n \in DOMAIN responses : r \in responses[n]

Placed ==
  /\ NoRepeat(requests) /\ NoRepeat(queue)
  /\ Range(requests) \cap Range(queue) = {}
  /\ \A r \in Requests :
       /\ Responded(r) => r \notin Range(requests) /\ r \notin Range(queue)
       /\ client[r] = "idle" =>
            r \notin Range(requests) /\ r \notin Range(queue) /\ ~Responded(r)

(* Which embeddings the workers have sent. *)
AllSent(S) == \A w \in Workers : \A x \in S : sent[w][x] = 1
NoneSent(S) == \A w \in Workers : \A x \in S : sent[w][x] = 0

SentIs ==
  /\ \A r \in Requests :
       /\ client[r] = "idle" \/ r \in Range(requests) => NoneSent(ItemsOf(r))
       /\ Responded(r) => AllSent(ItemsOf(r))
  /\ \A x \in done : x[1] \in Range(queue)
  /\ AllSent(done) /\ NoneSent(Waiting \ batch)

(* A request that waits has data that waits. *)
Unfinished == \A r \in Range(queue) : Data[r] # <<>> => ~(ItemsOf(r) \subseteq done)

(* A batch is the front of what waits. *)
BatchIs ==
  /\ batch \subseteq Waiting
  /\ \A y \in batch, x \in Waiting : Before(x, y) => x \in batch
  /\ engine = "loop" => batch = {}

(* What a worker has sent of the batch, and what the engine knows of it. *)
Did(w) == \A x \in batch : sent[w][x] = 1

WorkerOf(w) ==
  /\ engine = "loop" => response_mq[w] = "none"
  /\ engine = "collect" /\ w <= collected => response_mq[w] = "none"
  /\ worker[w] = "busy" =>
       /\ engine = "collect" /\ response_mq[w] = "none" /\ collected < w
       /\ \A x \in batch : sent[w][x] = 0
  /\ response_mq[w] = "ok" => Did(w)
  /\ engine = "collect" /\ error = FALSE /\ w <= collected => Did(w)
  /\ \A x \in Items : sent[w][x] <= 1

WorkersAre == \A w \in Workers : WorkerOf(w)

IInv == TypeOK /\ Placed /\ SentIs /\ Unfinished /\ BatchIs /\ WorkersAre

-----------------------------------------------------------------------------
LEMMA ItemIs ==
  /\ \A x \in Items : x[1] \in Requests /\ x \in ItemsOf(x[1])
  /\ \A r \in Requests : ItemsOf(r) \subseteq Items /\ \A x \in ItemsOf(r) : x[1] = r
BY DEF Items, ItemsOf

LEMMA EmptyIs ==
  ASSUME NEW S, NEW s \in Seq(S)
  PROVE  s # <<>> <=> DOMAIN s # {}
<1>1. Len(s) \in Nat /\ DOMAIN s = 1 .. Len(s) /\ (s = <<>> <=> Len(s) = 0)
  OBVIOUS
<1>2. CASE Len(s) = 0
  BY <1>1, <1>2
<1>3. CASE Len(s) # 0
  <2>1. 1 \in 1 .. Len(s)
    BY <1>1, <1>3
  <2> QED  BY <1>1, <1>3, <2>1
<1> QED  BY <1>2, <1>3

LEMMA HasItems ==
  ASSUME EngineAssumption, NEW r \in Requests
  PROVE  Data[r] # <<>> <=> ItemsOf(r) # {}
<1>1. Data[r] \in Seq(Kinds)
  BY DEF EngineAssumption
<1>2. Data[r] # <<>> <=> DOMAIN Data[r] # {}
  BY <1>1, EmptyIs
<1> QED  BY <1>2 DEF ItemsOf

(* A sequence that grows or shrinks at an end. *)
LEMMA AppendIs ==
  ASSUME NEW S, NEW s \in Seq(S), NEW e \in S
  PROVE  /\ Append(s, e) \in Seq(S)
         /\ Range(Append(s, e)) = Range(s) \cup {e}
         /\ NoRepeat(s) /\ e \notin Range(s) => NoRepeat(Append(s, e))
<1> DEFINE t == Append(s, e)
           l == Len(s)
<1>1. l \in Nat /\ DOMAIN s = 1 .. l /\ t \in Seq(S)
  OBVIOUS
<1>2. DOMAIN t = 1 .. l + 1 /\ t[l + 1] = e /\ \A n \in 1 .. l : t[n] = s[n]
  OBVIOUS
<1> HIDE DEF t, l
<1>3. \A n \in 1 .. l + 1 : n = l + 1 \/ n \in 1 .. l
  BY <1>1
<1>4. l + 1 \in 1 .. l + 1 /\ \A n \in 1 .. l : n \in 1 .. l + 1
  BY <1>1
<1>5. Range(t) = Range(s) \cup {e}
  BY <1>1, <1>2, <1>3, <1>4 DEF Range
<1>6. ASSUME NoRepeat(s), e \notin Range(s) PROVE NoRepeat(t)
  <2>1. \A n \in 1 .. l : s[n] # e
    BY <1>1, <1>6 DEF Range
  <2> QED  BY <1>1, <1>2, <1>3, <1>6, <2>1 DEF NoRepeat
<1> QED  BY <1>1, <1>5, <1>6 DEF t

LEMMA HeadTailIs ==
  ASSUME NEW S, NEW s \in Seq(S), s # <<>>
  PROVE  /\ Head(s) \in S /\ Tail(s) \in Seq(S)
         /\ Range(s) = Range(Tail(s)) \cup {Head(s)}
         /\ \A n \in DOMAIN Tail(s) : n + 1 \in DOMAIN s /\ Tail(s)[n] = s[n + 1]
         /\ NoRepeat(s) => NoRepeat(Tail(s)) /\ Head(s) \notin Range(Tail(s))
<1> DEFINE t == Tail(s)
           l == Len(s)
<1>1. l \in Nat \ {0} /\ DOMAIN s = 1 .. l /\ t \in Seq(S) /\ Head(s) = s[1] /\ Head(s) \in S
  OBVIOUS
<1>2. DOMAIN t = 1 .. l - 1 /\ \A n \in 1 .. l - 1 : t[n] = s[n + 1]
  OBVIOUS
<1> HIDE DEF t, l
<1>3. /\ 1 \in 1 .. l
      /\ \A n \in 1 .. l - 1 : n + 1 \in 1 .. l /\ n + 1 # 1
      /\ \A n \in 1 .. l : n = 1 \/ (n - 1 \in 1 .. l - 1 /\ n = (n - 1) + 1)
      /\ \A m, n \in 1 .. l - 1 : m + 1 = n + 1 => m = n
  BY <1>1
<1>4. Range(s) = Range(t) \cup {Head(s)}
  <2>1. \A n \in 1 .. l : s[n] = Head(s) \/ \E m \in 1 .. l - 1 : t[m] = s[n]
    <3>1. ASSUME NEW n \in 1 .. l, n # 1 PROVE \E m \in 1 .. l - 1 : t[m] = s[n]
      <4>1. n - 1 \in 1 .. l - 1 /\ n = (n - 1) + 1
        BY <1>3, <3>1
      <4> QED  BY <1>2, <4>1
    <3> QED  BY <1>1, <3>1
  <2>2. \A n \in 1 .. l - 1 : \E m \in 1 .. l : s[m] = t[n]
    BY <1>2, <1>3
  <2>3. Range(s) = { s[n] : n \in 1 .. l } /\ Range(t) = { t[n] : n \in 1 .. l - 1 }
    BY <1>1, <1>2 DEF Range
  <2>4. Head(s) \in Range(s)
    BY <1>1, <1>3, <2>3
  <2>5. Range(s) \subseteq Range(t) \cup {Head(s)}
    BY <2>1, <2>3
  <2>6. Range(t) \subseteq Range(s)
    BY <2>2, <2>3
  <2> QED  BY <2>4, <2>5, <2>6
<1>5. ASSUME NoRepeat(s) PROVE NoRepeat(t) /\ Head(s) \notin Range(t)
  <2>1. NoRepeat(t)
    <3>1. ASSUME NEW m \in 1 .. l - 1, NEW n \in 1 .. l - 1, t[m] = t[n] PROVE m = n
      <4>1. s[m + 1] = s[n + 1] /\ m + 1 \in DOMAIN s /\ n + 1 \in DOMAIN s
        BY <1>1, <1>2, <1>3, <3>1
      <4> QED  BY <1>3, <1>5, <4>1 DEF NoRepeat
    <3> QED  BY <1>2, <3>1 DEF NoRepeat
  <2>2. \A n \in 1 .. l - 1 : t[n] # s[1]
    <3>1. ASSUME NEW n \in 1 .. l - 1, t[n] = s[1] PROVE FALSE
      <4>1. t[n] = s[n + 1] /\ n + 1 \in 1 .. l /\ n + 1 # 1 /\ 1 \in 1 .. l
        BY <1>1, <1>2, <1>3
      <4> QED  BY <1>1, <1>5, <3>1, <4>1 DEF NoRepeat
    <3> QED  BY <3>1
  <2> QED  BY <1>1, <1>2, <2>1, <2>2 DEF Range
<1> QED  BY <1>1, <1>2, <1>3, <1>4, <1>5 DEF t

-----------------------------------------------------------------------------
(* What a loop that keeps part of a queue leaves. *)
Keeps(f, q, ids, m) ==
  f[0] = <<>> /\ \A n \in 1 .. m : f[n] = IF q[n] \in ids THEN f[n - 1] ELSE Append(f[n - 1], q[n])

LEMMA LeastExists ==
  ASSUME NEW T, T \subseteq Nat, T # {}
  PROVE  \E m \in T : \A n \in T : m <= n
<1> DEFINE R == { ss \in Nat \X Nat : ss[1] < ss[2] }
<1>1. IsWellFoundedOn(R, Nat)
  BY NatLessThanWellFounded DEF OpToRel
<1>2. \A a, b \in Nat : a < b => <<a, b>> \in R
  OBVIOUS
<1> HIDE DEF R
<1>3. PICK m \in T : \A n \in T : ~(<<n, m>> \in R)
  BY <1>1, WFMin
<1>4. ASSUME NEW n \in T PROVE m <= n
  <2>1. m \in Nat /\ n \in Nat
    OBVIOUS
  <2>2. ~(n < m)
    BY <1>2, <1>3, <2>1
  <2> QED  BY <2>1, <2>2
<1> QED  BY <1>4

LEMMA KeepsHolds ==
  ASSUME NEW S, NEW q \in Seq(S), NEW ids
  PROVE  \E f \in [0 .. Len(q) -> Seq(S)] : Keeps(f, q, ids, Len(q))
<1> DEFINE T == { m \in 0 .. Len(q) : ~\E f \in [0 .. m -> Seq(S)] : Keeps(f, q, ids, m) }
<1>1. Len(q) \in Nat /\ \A n \in 1 .. Len(q) : q[n] \in S
  OBVIOUS
<1>2. SUFFICES ASSUME T # {} PROVE FALSE
  BY <1>1
<1>3. PICK m \in T : \A n \in T : m <= n
  <2>1. T \subseteq Nat
    BY <1>1
  <2> HIDE DEF T
  <2> QED  BY <1>2, <2>1, LeastExists
<1>4. m # 0
  <2>1. Keeps([n \in 0 .. 0 |-> <<>>], q, ids, 0)
    BY DEF Keeps
  <2>2. [n \in 0 .. 0 |-> <<>>] \in [0 .. 0 -> Seq(S)]
    OBVIOUS
  <2> QED  BY <2>1, <2>2
<1>5. m - 1 \in 0 .. Len(q) /\ m - 1 \notin T /\ m \in 1 .. Len(q)
  <2>1. m \in 0 .. Len(q)
    OBVIOUS
  <2>2. m - 1 \in 0 .. Len(q) /\ m \in 1 .. Len(q) /\ ~(m <= m - 1)
    BY <1>1, <1>4, <2>1
  <2> HIDE DEF T
  <2> QED  BY <1>3, <2>2
<1>6. PICK f \in [0 .. m - 1 -> Seq(S)] : Keeps(f, q, ids, m - 1)
  BY <1>5
<1> DEFINE next == IF q[m] \in ids THEN f[m - 1] ELSE Append(f[m - 1], q[m])
           g == [n \in 0 .. m |-> IF n = m THEN next ELSE f[n]]
<1>7. /\ m \in Nat /\ m - 1 \in 0 .. m - 1 /\ 0 \in 0 .. m - 1
      /\ \A n \in 1 .. m : n = m \/ n \in 1 .. m - 1
      /\ \A n \in 1 .. m - 1 : n \in 0 .. m - 1 /\ n - 1 \in 0 .. m - 1
      /\ \A n \in 0 .. m - 1 : n \in 0 .. m /\ n # m
      /\ \A n \in 0 .. m : n = m \/ n \in 0 .. m - 1
      /\ m \in 0 .. m
  BY <1>1, <1>5
<1>8. next \in Seq(S)
  BY <1>1, <1>5, <1>6, <1>7
<1> HIDE DEF next
<1>9. g \in [0 .. m -> Seq(S)]
  BY <1>7, <1>8
<1>10. g[m] = next /\ \A n \in 0 .. m - 1 : g[n] = f[n]
  BY <1>7
<1> HIDE DEF g
<1>11. Keeps(g, q, ids, m)
  <2>1. g[0] = <<>>
    BY <1>6, <1>7, <1>10 DEF Keeps
  <2>2. g[m] = IF q[m] \in ids THEN g[m - 1] ELSE Append(g[m - 1], q[m])
    BY <1>7, <1>10 DEF next
  <2>3. \A n \in 1 .. m - 1 : g[n] = IF q[n] \in ids THEN g[n - 1] ELSE Append(g[n - 1], q[n])
    BY <1>6, <1>7, <1>10 DEF Keeps
  <2> QED  BY <1>7, <2>1, <2>2, <2>3 DEF Keeps
<1> QED  BY <1>3, <1>9, <1>11

LEMMA WithoutIs ==
  ASSUME NEW S, NEW q \in Seq(S), NEW ids
  PROVE  /\ Without(q, ids) \in Seq(S)
         /\ Range(Without(q, ids)) = Range(q) \ ids
         /\ NoRepeat(q) => NoRepeat(Without(q, ids))
<1> DEFINE Is(f) == f = [n \in 0 .. Len(q) |-> IF n = 0 THEN <<>>
                           ELSE IF q[n] \in ids THEN f[n - 1] ELSE Append(f[n - 1], q[n])]
           F == CHOOSE f : Is(f)
<1>1. Len(q) \in Nat /\ DOMAIN q = 1 .. Len(q) /\ \A n \in 1 .. Len(q) : q[n] \in S
  OBVIOUS
<1>2. PICK f \in [0 .. Len(q) -> Seq(S)] : Keeps(f, q, ids, Len(q))
  BY KeepsHolds
<1>3. Is(f)
  <2>1. \A n \in 0 .. Len(q) : n = 0 \/ n \in 1 .. Len(q)
    BY <1>1
  <2>2. \A n \in 0 .. Len(q) :
          f[n] = IF n = 0 THEN <<>>
                 ELSE IF q[n] \in ids THEN f[n - 1] ELSE Append(f[n - 1], q[n])
    BY <1>2, <2>1 DEF Keeps
  <2> QED  BY <2>2
<1>4. Is(F)
  BY <1>3
<1>5. Without(q, ids) = F[Len(q)]
  BY DEF Without
<1> HIDE DEF F
<1>6. \A n \in 0 .. Len(q) :
        F[n] = IF n = 0 THEN <<>>
               ELSE IF q[n] \in ids THEN F[n - 1] ELSE Append(F[n - 1], q[n])
  BY <1>4, Zenon
<1> HIDE DEF Is
<1> DEFINE Front(n) == { q[m] : m \in 1 .. n }
           Good(n) == /\ F[n] \in Seq(S) /\ Range(F[n]) = Front(n) \ ids
                      /\ NoRepeat(q) => NoRepeat(F[n])
           T == { n \in 0 .. Len(q) : ~Good(n) }
<1>7. Good(0)
  <2>1. F[0] = <<>>
    BY <1>1, <1>6
  <2>2. <<>> \in Seq(S) /\ Range(<<>>) = {} /\ NoRepeat(<<>>) /\ Front(0) = {}
    BY DEF Range, NoRepeat
  <2> QED  BY <2>1, <2>2
<1>8. ASSUME NEW n \in 1 .. Len(q), Good(n - 1) PROVE Good(n)
  <2>1. F[n] = IF q[n] \in ids THEN F[n - 1] ELSE Append(F[n - 1], q[n])
    <3>1. n \in 0 .. Len(q) /\ n # 0
      BY <1>1
    <3> QED  BY <1>6, <3>1
  <2>2. Front(n) = Front(n - 1) \cup {q[n]}
    <3>1. /\ n \in 1 .. n /\ \A m \in 1 .. n : m = n \/ m \in 1 .. n - 1
          /\ \A m \in 1 .. n - 1 : m \in 1 .. n
      BY <1>1
    <3> QED  BY <3>1
  <2>3. NoRepeat(q) => q[n] \notin Front(n - 1)
    <3>1. \A m \in 1 .. n - 1 : m \in 1 .. Len(q) /\ m # n
      BY <1>1
    <3> QED  BY <1>1, <3>1 DEF NoRepeat
  <2> HIDE DEF Front
  <2>4. CASE q[n] \in ids
    BY <1>8, <2>1, <2>2, <2>4
  <2>5. CASE q[n] \notin ids
    <3>1. q[n] \in S
      BY <1>1
    <3>2. /\ F[n] \in Seq(S) /\ Range(F[n]) = Range(F[n - 1]) \cup {q[n]}
          /\ NoRepeat(F[n - 1]) /\ q[n] \notin Range(F[n - 1]) => NoRepeat(F[n])
      BY <1>8, <2>1, <2>5, <3>1, AppendIs
    <3> QED  BY <1>8, <2>2, <2>3, <2>5, <3>2
  <2> QED  BY <2>4, <2>5
<1> HIDE DEF Good
<1>9. T = {}
  <2> SUFFICES ASSUME T # {} PROVE FALSE
    OBVIOUS
  <2>1. T \subseteq Nat
    BY <1>1
  <2>2. PICK n \in T : \A m \in T : n <= m
    <3> HIDE DEF T
    <3> QED  BY <2>1, LeastExists
  <2>3. n # 0
    BY <1>7, <2>2
  <2>4. n \in 1 .. Len(q) /\ n - 1 \in 0 .. Len(q) /\ n - 1 \notin T
    BY <1>1, <2>2, <2>3
  <2> QED  BY <1>8, <2>2, <2>4
<1>10. Good(Len(q))
  BY <1>1, <1>9
<1>11. Front(Len(q)) = Range(q)
  BY <1>1 DEF Range
<1> QED  BY <1>5, <1>10, <1>11 DEF Good

-----------------------------------------------------------------------------
(* What is sent is seen through the places of the requests only. *)
LEMMA SameBatch ==
  ASSUME BatchIs, queue' = queue, done' = done, batch' = batch, engine' = "loop" => engine = "loop"
  PROVE  BatchIs' /\ Waiting' = Waiting
<1>1. Waiting' = Waiting
  BY DEF Waiting
<1>2. \A x, y : Before(x, y)' = Before(x, y)
  BY DEF Before
<1> QED  BY <1>1, <1>2 DEF BatchIs

LEMMA SamePlaces ==
  ASSUME TypeOK, Placed, SentIs, Unfinished, Waiting' = Waiting,
         UNCHANGED <<requests, responses, queue, done, batch, sent>>,
         \A r \in Requests : client'[r] = client[r] \/ (client[r] = "waiting" /\ client'[r] = "lost")
  PROVE  Placed' /\ SentIs' /\ Unfinished'
<1>1. \A r \in Requests : /\ Responded(r)' => Responded(r)
                          /\ client'[r] = "idle" => client[r] = "idle"
  BY DEF Responded
<1>2. \A S : AllSent(S)' = AllSent(S) /\ NoneSent(S)' = NoneSent(S)
  BY DEF AllSent, NoneSent
<1>3. Placed'
  BY <1>1 DEF Placed
<1>4. SentIs'
  BY <1>1, <1>2 DEF SentIs
<1>5. Unfinished'
  BY DEF Unfinished
<1> QED  BY <1>3, <1>4, <1>5

LEMMA SameWorkers ==
  ASSUME WorkersAre, UNCHANGED <<engine, batch, collected, error, worker, response_mq, sent>>
  PROVE  WorkersAre'
BY DEF WorkersAre, WorkerOf, Did

-----------------------------------------------------------------------------
LEMMA EmbedHolds ==
  ASSUME IInv, NEW r \in Requests, Embed(r)
  PROVE  IInv'
<1> USE DEF IInv
<1>1. /\ client' = [client EXCEPT ![r] = "waiting"] /\ client[r] = "idle"
      /\ requests' = Append(requests, r)
      /\ UNCHANGED <<server, responses, queueVars, engineVars, workerVars>>
  BY DEF Embed
<1>2. /\ client'[r] = "waiting"
      /\ \A q \in Requests : q # r => client'[q] = client[q]
  BY <1>1 DEF TypeOK
<1>3. /\ requests' \in Seq(Requests) /\ Range(requests') = Range(requests) \cup {r}
      /\ NoRepeat(requests) /\ r \notin Range(requests) => NoRepeat(requests')
  BY <1>1, AppendIs DEF TypeOK
<1>4. r \notin Range(requests) /\ r \notin Range(queue) /\ ~Responded(r)
  BY <1>1 DEF Placed
<1>5. TypeOK'
  <2>1. client' \in [Requests -> {"idle", "waiting", "answered", "lost"}]
    BY <1>1 DEF TypeOK
  <2> QED  BY <1>1, <1>3, <2>1 DEF TypeOK, queueVars, engineVars, workerVars
<1>6. BatchIs' /\ Waiting' = Waiting
  BY <1>1, SameBatch DEF queueVars, engineVars
<1>7. \A q \in Requests : Responded(q)' => Responded(q) /\ q # r
  BY <1>1, <1>2, <1>4 DEF Responded
<1>8. Placed'
  BY <1>1, <1>2, <1>3, <1>4, <1>7 DEF Placed, queueVars
<1>9. SentIs'
  <2>1. \A S : AllSent(S)' = AllSent(S) /\ NoneSent(S)' = NoneSent(S)
    BY <1>1 DEF AllSent, NoneSent, workerVars
  <2> QED  BY <1>1, <1>2, <1>3, <1>6, <1>7, <2>1 DEF SentIs, queueVars, engineVars
<1>10. Unfinished'
  BY <1>1 DEF Unfinished, queueVars
<1>11. WorkersAre'
  BY <1>1, SameWorkers DEF engineVars, workerVars
<1> QED  BY <1>5, <1>6, <1>8, <1>9, <1>10, <1>11

LEMMA ListenHolds ==
  ASSUME IInv, Listen
  PROVE  IInv'
<1> USE DEF IInv
<1>1. /\ responses # <<>> /\ responses' = Tail(responses)
      /\ client' = [r \in Requests |-> IF r \in Resolved(Head(responses)) THEN "answered" ELSE client[r]]
      /\ UNCHANGED <<server, requests, queueVars, engineVars, workerVars>>
  BY DEF Listen
<1>2. /\ Tail(responses) \in Seq(SUBSET Requests)
      /\ \A n \in DOMAIN Tail(responses) : n + 1 \in DOMAIN responses /\ Tail(responses)[n] = responses[n + 1]
  BY <1>1, HeadTailIs DEF TypeOK
<1>3. 1 \in DOMAIN responses /\ Head(responses) = responses[1]
  BY <1>1 DEF TypeOK
<1>4. \A r \in Requests : Responded(r)' => Responded(r)
  BY <1>1, <1>2, <1>3 DEF Responded, Resolved
<1>5. \A r \in Requests : client'[r] = "idle" => client[r] = "idle" /\ ~Responded(r)'
  <2>1. \A r \in Requests : client'[r] = "idle" => client[r] = "idle"
    BY <1>1
  <2> QED  BY <1>4, <2>1 DEF Placed
<1>6. TypeOK'
  <2>1. client' \in [Requests -> {"idle", "waiting", "answered", "lost"}]
    BY <1>1 DEF TypeOK
  <2> QED  BY <1>1, <1>2, <2>1 DEF TypeOK, queueVars, engineVars, workerVars
<1>7. BatchIs' /\ Waiting' = Waiting
  BY <1>1, SameBatch DEF queueVars, engineVars
<1>8. Placed'
  BY <1>1, <1>4, <1>5 DEF Placed, queueVars
<1>9. SentIs'
  <2>1. \A S : AllSent(S)' = AllSent(S) /\ NoneSent(S)' = NoneSent(S)
    BY <1>1 DEF AllSent, NoneSent, workerVars
  <2> QED  BY <1>1, <1>4, <1>5, <1>7, <2>1 DEF SentIs, queueVars, engineVars
<1>10. Unfinished'
  BY <1>1 DEF Unfinished, queueVars
<1>11. WorkersAre'
  BY <1>1, SameWorkers DEF engineVars, workerVars
<1> QED  BY <1>6, <1>7, <1>8, <1>9, <1>10, <1>11

LEMMA EnqueueHolds ==
  ASSUME EngineAssumption, IInv, Enqueue
  PROVE  IInv'
<1> USE DEF IInv
<1> DEFINE r == Head(requests)
<1>1. /\ requests # <<>> /\ requests' = Tail(requests) /\ queue' = Append(queue, r) /\ engine = "loop"
      /\ UNCHANGED <<clientVars, responses, done, engineVars, workerVars>>
  BY DEF Enqueue
<1>2. /\ r \in Requests /\ requests' \in Seq(Requests)
      /\ Range(requests) = Range(requests') \cup {r}
      /\ NoRepeat(requests') /\ r \notin Range(requests')
  BY <1>1, HeadTailIs DEF TypeOK, Placed
<1> HIDE DEF r
<1>3. r \notin Range(queue)
  BY <1>2 DEF Placed
<1>4. /\ queue' \in Seq(Requests) /\ Range(queue') = Range(queue) \cup {r} /\ NoRepeat(queue')
  BY <1>1, <1>2, <1>3, AppendIs DEF TypeOK, Placed
<1>5. TypeOK'
  BY <1>1, <1>2, <1>4 DEF TypeOK, clientVars, engineVars, workerVars
<1>6. \A q \in Requests : Responded(q)' = Responded(q)
  BY <1>1 DEF Responded, clientVars
<1>7. Placed'
  <2>1. ~Responded(r) /\ client[r] # "idle"
    BY <1>2 DEF Placed
  <2>2. Range(requests') \cap Range(queue') = {}
    BY <1>2, <1>4 DEF Placed
  <2> QED  BY <1>1, <1>2, <1>4, <1>6, <2>1, <2>2 DEF Placed, clientVars
<1>8. Waiting' \subseteq Waiting \cup ItemsOf(r) /\ NoneSent(ItemsOf(r))
  <2>1. Waiting' \subseteq Waiting \cup ItemsOf(r)
    BY <1>1, <1>4, ItemIs DEF Waiting
  <2> QED  BY <1>2, <2>1 DEF SentIs
<1>9. batch = {} /\ batch' = {}
  BY <1>1 DEF BatchIs, engineVars
<1>10. SentIs'
  <2>1. \A S : AllSent(S)' = AllSent(S) /\ NoneSent(S)' = NoneSent(S)
    BY <1>1 DEF AllSent, NoneSent, workerVars
  <2>2. NoneSent(Waiting)
    BY <1>9 DEF SentIs
  <2>3. NoneSent(Waiting \cup ItemsOf(r))
    BY <1>8, <2>2 DEF NoneSent
  <2>4. NoneSent(Waiting')
    BY <1>8, <2>3 DEF NoneSent
  <2>5. NoneSent(Waiting \ batch)'
    BY <1>9, <2>1, <2>4
  <2> QED  BY <1>1, <1>2, <1>4, <1>6, <2>1, <2>5 DEF SentIs, clientVars
<1>11. Unfinished'
  <2>1. Data[r] # <<>> => ~(ItemsOf(r) \subseteq done)
    <3>1. \A x \in done : x[1] # r
      BY <1>3 DEF SentIs
    <3> QED  BY <1>2, <3>1, ItemIs, HasItems
  <2> QED  BY <1>1, <1>4, <2>1 DEF Unfinished
<1>12. BatchIs'
  BY <1>9 DEF BatchIs
<1>13. WorkersAre'
  BY <1>1, SameWorkers DEF engineVars, workerVars
<1> QED  BY <1>5, <1>7, <1>10, <1>11, <1>12, <1>13

-----------------------------------------------------------------------------
(* What waits is finite, and in one order. *)
LEMMA NumberedIsFinite ==
  ASSUME NEW T, NEW n \in Nat, NEW f \in [1 .. n -> T], \A t \in T : \E m \in 1 .. n : f[m] = t
  PROVE  IsFiniteSet(T)
<1>1. IsFiniteSet(1 .. n)
  BY FS_Interval
<1>2. f \in Surjection(1 .. n, T)
  BY DEF Surjection
<1> QED  BY <1>1, <1>2, FS_Surjection

LEMMA WaitingIsFinite ==
  ASSUME EngineAssumption, TypeOK
  PROVE  IsFiniteSet(Waiting)
<1>1. ASSUME NEW r \in Requests PROVE IsFiniteSet(ItemsOf(r))
  <2>1. Data[r] \in Seq(Kinds)
    BY DEF EngineAssumption
  <2>2. Len(Data[r]) \in Nat /\ DOMAIN Data[r] = 1 .. Len(Data[r])
    BY <2>1
  <2> DEFINE l == Len(Data[r])
             f == [i \in 1 .. l |-> <<r, i>>]
  <2>3. f \in [1 .. l -> ItemsOf(r)] /\ \A x \in ItemsOf(r) : \E i \in 1 .. l : f[i] = x
    BY <2>2 DEF ItemsOf
  <2> HIDE DEF f
  <2> QED  BY <2>2, <2>3, NumberedIsFinite
<1> DEFINE l == Len(queue)
           Q == { ItemsOf(queue[n]) : n \in 1 .. l }
           f == [n \in 1 .. l |-> ItemsOf(queue[n])]
<1>2. l \in Nat /\ DOMAIN queue = 1 .. l /\ \A n \in 1 .. l : queue[n] \in Requests
  BY DEF TypeOK
<1>3. f \in [1 .. l -> Q] /\ \A t \in Q : \E n \in 1 .. l : f[n] = t
  OBVIOUS
<1>4. IsFiniteSet(Q)
  <2> HIDE DEF f, Q
  <2> QED  BY <1>2, <1>3, NumberedIsFinite
<1>5. \A t \in Q : IsFiniteSet(t)
  BY <1>1, <1>2
<1>6. IsFiniteSet(UNION Q)
  <2> HIDE DEF Q
  <2> QED  BY <1>4, <1>5, FS_UNION
<1>7. Waiting \subseteq UNION Q
  <2>1. ASSUME NEW x \in Waiting PROVE \E n \in 1 .. l : x \in ItemsOf(queue[n])
    <3>1. x \in ItemsOf(x[1]) /\ x[1] \in Range(queue)
      BY <2>1, ItemIs DEF Waiting
    <3> QED  BY <1>2, <3>1 DEF Range
  <2> QED  BY <2>1
<1> QED  BY <1>6, <1>7, FS_Subset

LEMMA BeforeIs ==
  ASSUME EngineAssumption, TypeOK, NoRepeat(queue), NEW x \in Items, NEW y \in Items, NEW z \in Items,
         Before(x, y), Before(y, z)
  PROVE  Before(x, z)
<1>1. PICK k \in DOMAIN queue, m \in DOMAIN queue :
        /\ queue[k] = x[1] /\ queue[m] = y[1]
        /\ k < m \/ (k = m /\ x[2] < y[2])
  BY DEF Before
<1>2. PICK o \in DOMAIN queue, n \in DOMAIN queue :
        /\ queue[o] = y[1] /\ queue[n] = z[1]
        /\ o < n \/ (o = n /\ y[2] < z[2])
  BY DEF Before
<1>3. o = m
  BY <1>1, <1>2 DEF NoRepeat
<1>4. k \in Nat /\ m \in Nat /\ n \in Nat
  BY DEF TypeOK
<1>5. x[2] \in Nat /\ y[2] \in Nat /\ z[2] \in Nat
  <2>1. ASSUME NEW a \in Items PROVE a[2] \in Nat
    <3>1. a \in ItemsOf(a[1]) /\ a[1] \in Requests
      BY ItemIs
    <3>2. Data[a[1]] \in Seq(Kinds)
      BY <3>1 DEF EngineAssumption
    <3>3. DOMAIN Data[a[1]] \subseteq Nat
      BY <3>2
    <3> QED  BY <3>1, <3>3 DEF ItemsOf
  <2> QED  BY <2>1
<1>6. k < n \/ (k = n /\ x[2] < z[2])
  BY <1>1, <1>2, <1>3, <1>4, <1>5
<1> QED  BY <1>1, <1>2, <1>6 DEF Before

(* What the scheduler takes is the front of what waits. *)
LEMMA TakenIsFront ==
  ASSUME EngineAssumption, TypeOK, NoRepeat(queue),
         NEW y \in AtMost(MaxBatch, SameKind(Waiting)), NEW x \in Waiting, Before(x, y)
  PROVE  x \in AtMost(MaxBatch, SameKind(Waiting))
<1> DEFINE S == SameKind(Waiting)
<1>1. S \subseteq Waiting /\ Waiting \subseteq Items
  BY DEF SameKind, Waiting
<1>2. y \in S /\ Cardinality(Ahead(S, y)) < MaxBatch
  BY DEF AtMost
<1>3. x \in Ahead(Waiting, y)
  BY DEF Ahead
<1>4. \A z \in Ahead(Waiting, y) : KindOf(z) = KindOf(y)
  BY <1>2 DEF SameKind
<1>5. \A z \in Waiting : Before(z, x) => Before(z, y)
  BY <1>1, <1>2, BeforeIs
<1>6. x \in S
  <2>1. \A z \in Ahead(Waiting, x) : z \in Ahead(Waiting, y)
    BY <1>5 DEF Ahead
  <2> QED  BY <1>3, <1>4, <2>1 DEF SameKind
<1> HIDE DEF S
<1>7. Ahead(S, x) \subseteq Ahead(S, y) /\ Ahead(S, y) \subseteq Waiting
  BY <1>1, <1>5 DEF Ahead
<1>8. /\ IsFiniteSet(Ahead(S, y))
      /\ Cardinality(Ahead(S, x)) \in Nat /\ Cardinality(Ahead(S, y)) \in Nat
      /\ Cardinality(Ahead(S, x)) <= Cardinality(Ahead(S, y))
  <2>1. IsFiniteSet(Ahead(S, y))
    BY <1>7, WaitingIsFinite, FS_Subset
  <2>2. /\ IsFiniteSet(Ahead(S, x))
        /\ Cardinality(Ahead(S, x)) <= Cardinality(Ahead(S, y))
    BY <1>7, <2>1, FS_Subset
  <2> QED  BY <2>1, <2>2, FS_CardinalityType
<1>9. Cardinality(Ahead(S, x)) < MaxBatch
  BY <1>2, <1>8 DEF EngineAssumption
<1> QED  BY <1>6, <1>9 DEF AtMost, S

LEMMA ScheduleHolds ==
  ASSUME EngineAssumption, IInv, Schedule
  PROVE  IInv'
<1> USE DEF IInv
<1>1. /\ engine = "loop" /\ engine' = "collect" /\ collected' = 0 /\ error' = FALSE
      /\ batch' = AtMost(MaxBatch, SameKind(Waiting))
      /\ worker' = [w \in Workers |-> "busy"]
      /\ UNCHANGED <<clientVars, requests, responses, queueVars, shutdown, response_mq, sent>>
  BY DEF Schedule
<1>2. batch' \subseteq Waiting /\ Waiting \subseteq Items /\ batch = {}
  BY <1>1 DEF AtMost, SameKind, BatchIs, Waiting
<1>3. TypeOK'
  <2>1. NumWorkers \in Nat \ {0}
    BY DEF EngineAssumption
  <2>2. collected' \in 0 .. NumWorkers
    BY <1>1, <2>1
  <2>3. worker' \in [Workers -> {"idle", "busy", "failed", "dead"}]
    BY <1>1
  <2>4. batch' \subseteq Items
    BY <1>2
  <2>5. engine' \in {"loop", "collect", "ended"} /\ error' \in BOOLEAN
    BY <1>1
  <2> QED  BY <1>1, <2>2, <2>3, <2>4, <2>5 DEF TypeOK, clientVars, queueVars
<1>4. Waiting' = Waiting /\ \A x, y : Before(x, y)' = Before(x, y)
  BY <1>1 DEF Waiting, Before, queueVars
<1>5. BatchIs'
  <2>1. \A y \in batch', x \in Waiting : Before(x, y) => x \in batch'
    BY <1>1, TakenIsFront DEF Placed
  <2> QED  BY <1>1, <1>2, <1>4, <2>1 DEF BatchIs
<1>6. \A S : AllSent(S)' = AllSent(S) /\ NoneSent(S)' = NoneSent(S)
  BY <1>1 DEF AllSent, NoneSent
<1>7. \A r \in Requests : Responded(r)' = Responded(r)
  BY <1>1 DEF Responded, clientVars
<1>8. Placed' /\ Unfinished'
  BY <1>1, <1>7 DEF Placed, Unfinished, clientVars, queueVars
<1>9. NoneSent(Waiting)
  BY <1>2 DEF SentIs
<1>10. SentIs'
  <2>1. NoneSent(Waiting \ batch)'
    BY <1>1, <1>4, <1>9 DEF NoneSent
  <2> QED  BY <1>1, <1>6, <1>7, <2>1 DEF SentIs, clientVars, queueVars
<1>11. WorkersAre'
  <2>1. ASSUME NEW w \in Workers PROVE WorkerOf(w)'
    <3>1. w \in Nat \ {0} /\ ~(w <= 0) /\ 0 < w
      BY DEF Workers, EngineAssumption
    <3>2. response_mq'[w] = "none" /\ sent' = sent
      BY <1>1 DEF WorkersAre, WorkerOf
    <3>3. \A x \in batch' : sent'[w][x] = 0
      BY <1>2, <1>9, <3>2 DEF NoneSent
    <3>4. \A x \in Items : sent'[w][x] <= 1
      BY <3>2 DEF WorkersAre, WorkerOf
    <3> QED  BY <1>1, <3>1, <3>2, <3>3, <3>4 DEF WorkerOf
  <2> QED  BY <2>1 DEF WorkersAre
<1> QED  BY <1>3, <1>5, <1>8, <1>10, <1>11

-----------------------------------------------------------------------------
LEMMA EndsHolds ==
  ASSUME IInv, EngineEnds, UNCHANGED <<requests, responses, queueVars, batch, collected, error, sent>>,
         response_mq' \in [Workers -> {"none", "ok", "error"}],
         \A w \in Workers : response_mq'[w] \in {"none", response_mq[w]}
  PROVE  IInv'
<1> USE DEF IInv
<1>1. /\ engine' = "ended" /\ shutdown' = TRUE /\ server' = "killed"
      /\ worker' = [w \in Workers |-> "dead"]
      /\ client' = [r \in Requests |-> IF client[r] = "waiting" THEN "lost" ELSE client[r]]
  BY DEF EngineEnds
<1>2. TypeOK'
  <2>1. client' \in [Requests -> {"idle", "waiting", "answered", "lost"}]
    BY <1>1 DEF TypeOK
  <2>2. worker' \in [Workers -> {"idle", "busy", "failed", "dead"}]
    BY <1>1
  <2>3. engine' \in {"loop", "collect", "ended"} /\ shutdown' \in BOOLEAN /\ server' \in {"up", "killed"}
    BY <1>1
  <2> QED  BY <2>1, <2>2, <2>3 DEF TypeOK, queueVars
<1>3. BatchIs' /\ Waiting' = Waiting
  BY <1>1, SameBatch DEF queueVars
<1>4. Placed' /\ SentIs' /\ Unfinished'
  <2>1. \A r \in Requests : client'[r] = client[r] \/ (client[r] = "waiting" /\ client'[r] = "lost")
    BY <1>1
  <2> QED  BY <1>3, <2>1, SamePlaces DEF queueVars
<1>5. WorkersAre'
  <2>1. ASSUME NEW w \in Workers PROVE WorkerOf(w)'
    <3>1. worker'[w] = "dead" /\ (response_mq'[w] = "ok" => response_mq[w] = "ok")
      BY <1>1
    <3> QED  BY <1>1, <3>1 DEF WorkersAre, WorkerOf, Did
  <2> QED  BY <2>1 DEF WorkersAre
<1> QED  BY <1>2, <1>3, <1>4, <1>5

LEMMA CollectHolds ==
  ASSUME EngineAssumption, IInv, Collect
  PROVE  IInv'
<1> USE DEF IInv
<1> DEFINE c == collected + 1
<1>1. /\ engine = "collect" /\ collected < NumWorkers /\ response_mq[c] # "none"
      /\ response_mq' = [response_mq EXCEPT ![c] = "none"]
      /\ UNCHANGED <<requests, responses, queueVars, batch, sent>>
  BY DEF Collect
<1>2. collected \in Nat /\ NumWorkers \in Nat /\ c \in Workers /\ c \in 0 .. NumWorkers /\ c = collected + 1
  BY <1>1 DEF EngineAssumption, TypeOK, Workers
<1>3. Collect => \/ shutdown /\ EngineEnds /\ UNCHANGED <<collected, error>>
                 \/ /\ ~shutdown /\ collected' = c
                    /\ error' = (error \/ response_mq[c] = "error")
                    /\ UNCHANGED <<clientVars, engine, shutdown, worker>>
  BY DEF Collect
<1> HIDE DEF c
<1>4. /\ response_mq' \in [Workers -> {"none", "ok", "error"}]
      /\ \A w \in Workers : response_mq'[w] = IF w = c THEN "none" ELSE response_mq[w]
  BY <1>1 DEF TypeOK
<1>5. CASE shutdown /\ EngineEnds /\ UNCHANGED <<collected, error>>
  BY <1>1, <1>4, <1>5, EndsHolds
<1>6. CASE /\ ~shutdown /\ collected' = c
           /\ error' = (error \/ response_mq[c] = "error")
           /\ UNCHANGED <<clientVars, engine, shutdown, worker>>
  <2>1. BatchIs' /\ Waiting' = Waiting
    BY <1>1, <1>6, SameBatch DEF queueVars
  <2>2. Placed' /\ SentIs' /\ Unfinished'
    BY <1>1, <1>6, <2>1, SamePlaces DEF clientVars, queueVars
  <2>3. error' \in BOOLEAN
    <3>1. error \in BOOLEAN
      BY DEF TypeOK
    <3> QED  BY <1>6, <3>1
  <2>4. TypeOK'
    BY <1>1, <1>2, <1>4, <1>6, <2>3 DEF TypeOK, clientVars, queueVars
  <2>5. error' = FALSE => error = FALSE /\ response_mq[c] = "ok"
    <3>1. response_mq[c] \in {"none", "ok", "error"} /\ error \in BOOLEAN
      BY <1>2 DEF TypeOK
    <3> QED  BY <1>1, <1>6, <3>1
  <2>6. ASSUME NEW w \in Workers PROVE WorkerOf(w)'
    <3>1. w \in Nat /\ WorkerOf(w)
      BY <1>2 DEF Workers, WorkersAre
    <3>2. w <= collected' => w = c \/ w <= collected
      BY <1>2, <1>6, <3>1
    <3>3. Did(w)' = Did(w)
      BY <1>1 DEF Did
    <3>4. worker'[w] = "busy" => /\ w # c /\ collected' < w /\ \A x \in batch' : sent'[w][x] = 0
                                 /\ response_mq'[w] = "none"
      <4>1. ASSUME worker'[w] = "busy" PROVE w # c /\ collected < w /\ response_mq[w] = "none"
        BY <1>1, <1>6, <3>1, <4>1 DEF WorkerOf
      <4>2. worker'[w] = "busy" => collected' < w
        BY <1>2, <1>6, <3>1, <4>1
      <4> QED  BY <1>1, <1>4, <1>6, <3>1, <4>1, <4>2 DEF WorkerOf
    <3>5. w <= collected' => response_mq'[w] = "none"
      BY <1>1, <1>4, <3>1, <3>2 DEF WorkerOf
    <3>6. response_mq'[w] = "ok" => Did(w)'
      BY <1>4, <3>1, <3>3 DEF WorkerOf
    <3>7. error' = FALSE /\ w <= collected' => Did(w)'
      BY <1>1, <2>5, <3>1, <3>2, <3>3 DEF WorkerOf
    <3>8. engine' = "collect" /\ \A x \in Items : sent'[w][x] <= 1
      BY <1>1, <1>6, <3>1 DEF WorkerOf
    <3> QED  BY <3>4, <3>5, <3>6, <3>7, <3>8 DEF WorkerOf
  <2> QED  BY <2>1, <2>2, <2>4, <2>6 DEF WorkersAre
<1> QED  BY <1>3, <1>5, <1>6

LEMMA SignalHolds ==
  ASSUME IInv, NEW w \in Workers, Signal(w)
  PROVE  IInv'
<1> USE DEF IInv
<1>1. UNCHANGED <<requests, responses, queueVars, batch, collected, error, response_mq, sent>>
  BY DEF Signal
<1>2. CASE EngineEnds
  BY <1>1, <1>2, EndsHolds DEF TypeOK
<1>3. CASE /\ shutdown' = TRUE /\ worker' = [v \in Workers |-> "dead"]
           /\ UNCHANGED <<clientVars, engine>>
  <2>1. BatchIs' /\ Waiting' = Waiting
    BY <1>1, <1>3, SameBatch DEF queueVars
  <2>2. Placed' /\ SentIs' /\ Unfinished'
    BY <1>1, <1>3, <2>1, SamePlaces DEF clientVars, queueVars
  <2>3. TypeOK'
    <3>1. worker' \in [Workers -> {"idle", "busy", "failed", "dead"}] /\ shutdown' \in BOOLEAN
      BY <1>3
    <3> QED  BY <1>1, <1>3, <3>1 DEF TypeOK, clientVars, queueVars
  <2>4. \A v \in Workers : worker'[v] = "dead"
    BY <1>3
  <2>5. WorkersAre'
    BY <1>1, <1>3, <2>4 DEF WorkersAre, WorkerOf, Did
  <2> QED  BY <2>1, <2>2, <2>3, <2>5
<1> QED  BY <1>2, <1>3 DEF Signal

(* A worker sends a part of the batch. *)
LEMMA SendHolds ==
  ASSUME IInv, NEW w \in Workers, worker[w] = "busy", NEW part \in SUBSET batch, Send(w, part),
         NEW a \in {"ok", "error"}, NEW b \in {"idle", "failed"}, a = "ok" => part = batch,
         response_mq' = [response_mq EXCEPT ![w] = a], worker' = [worker EXCEPT ![w] = b],
         UNCHANGED <<clientVars, requests, responses, queueVars, engineVars>>
  PROVE  IInv'
<1> USE DEF IInv
<1>1. batch \subseteq Waiting /\ Waiting \subseteq Items /\ WorkerOf(w)
  BY DEF BatchIs, Waiting, WorkersAre
<1>2. /\ sent' \in [Workers -> [Items -> Nat]]
      /\ \A v \in Workers \ {w} : sent'[v] = sent[v]
      /\ \A x \in Items : sent'[w][x] = IF x \in part THEN sent[w][x] + 1 ELSE sent[w][x]
  BY DEF Send, TypeOK
<1>3. \A x \in batch : sent[w][x] = 0
  BY <1>1 DEF WorkerOf
<1>4. \A x \in batch : sent'[w][x] = IF x \in part THEN 1 ELSE 0
  BY <1>1, <1>2, <1>3
<1>5. \A v \in Workers : \A x \in Items \ batch : sent'[v][x] = sent[v][x]
  BY <1>2
<1>6. \A S \in SUBSET (Items \ batch) : /\ AllSent(S)' = AllSent(S)
                                        /\ NoneSent(S)' = NoneSent(S)
  BY <1>5 DEF AllSent, NoneSent
<1>7. TypeOK'
  BY <1>2 DEF TypeOK, clientVars, queueVars, engineVars
<1>8. BatchIs' /\ Waiting' = Waiting
  BY SameBatch DEF queueVars, engineVars
<1>9. \A r \in Requests : Responded(r)' = Responded(r)
  BY DEF Responded, clientVars
<1>10. Placed' /\ Unfinished'
  BY <1>9 DEF Placed, Unfinished, clientVars, queueVars
<1>11. \A r \in Requests : r \notin Range(queue) => ItemsOf(r) \in SUBSET (Items \ batch)
  BY <1>1, ItemIs DEF Waiting
<1>12. SentIs'
  <2>1. done \in SUBSET (Items \ batch) /\ Waiting \ batch \in SUBSET (Items \ batch)
    BY <1>1 DEF TypeOK, Waiting
  <2>2. AllSent(done)' /\ NoneSent(Waiting \ batch)'
    <3>1. done' = done /\ Waiting' = Waiting /\ batch' = batch
      BY <1>8 DEF queueVars, engineVars
    <3>2. \A v \in Workers : \A x \in done : sent'[v][x] = 1
      BY <1>5, <2>1 DEF SentIs, AllSent
    <3>3. \A v \in Workers : \A x \in Waiting \ batch : sent'[v][x] = 0
      BY <1>5, <2>1 DEF SentIs, NoneSent
    <3> QED  BY <3>1, <3>2, <3>3 DEF AllSent, NoneSent
  <2>3. ASSUME NEW r \in Requests
        PROVE  /\ client'[r] = "idle" \/ r \in Range(requests') => NoneSent(ItemsOf(r))'
               /\ Responded(r)' => AllSent(ItemsOf(r))'
    <3>1. client[r] = "idle" \/ r \in Range(requests) \/ Responded(r) => r \notin Range(queue)
      BY DEF Placed
    <3> QED  BY <1>6, <1>9, <1>11, <3>1 DEF SentIs, clientVars
  <2> QED  BY <2>2, <2>3 DEF SentIs, queueVars
<1>13. WorkersAre'
  <2>1. ASSUME NEW v \in Workers, v # w PROVE WorkerOf(v)'
    <3>1. sent'[v] = sent[v] /\ worker'[v] = worker[v] /\ response_mq'[v] = response_mq[v]
      BY <1>2, <2>1 DEF TypeOK
    <3> QED  BY <3>1 DEF WorkersAre, WorkerOf, Did, engineVars
  <2>2. WorkerOf(w)'
    <3>1. response_mq'[w] = a /\ worker'[w] = b
      BY DEF TypeOK
    <3>2. engine' = "collect" /\ collected' = collected /\ collected < w /\ batch' = batch
      BY <1>1 DEF WorkerOf, engineVars
    <3>3. ~(w <= collected)
      <4>1. w \in Int /\ collected \in Int
        BY DEF TypeOK, Workers
      <4> QED  BY <3>2, <4>1
    <3>4. a = "ok" => Did(w)'
      BY <1>4, <3>2 DEF Did
    <3>5. \A x \in Items : sent'[w][x] <= 1
      BY <1>1, <1>2, <1>4 DEF WorkerOf
    <3> QED  BY <3>1, <3>2, <3>3, <3>4, <3>5 DEF WorkerOf
  <2> QED  BY <2>1, <2>2 DEF WorkersAre
<1> QED  BY <1>7, <1>8, <1>10, <1>12, <1>13

LEMMA ExecuteHolds ==
  ASSUME IInv, NEW w \in Workers, Execute(w) \/ ExecuteFails(w)
  PROVE  IInv'
<1>1. CASE Execute(w)
  <2>1. batch \in SUBSET batch
    OBVIOUS
  <2> QED  BY <1>1, <2>1, SendHolds DEF Execute
<1>2. CASE ExecuteFails(w)
  <2>1. PICK x \in batch : Send(w, Ahead(batch, x))
    BY <1>2 DEF ExecuteFails
  <2>2. Ahead(batch, x) \in SUBSET batch
    BY DEF Ahead
  <2> QED  BY <1>2, <2>1, <2>2, SendHolds DEF ExecuteFails
<1> QED  BY <1>1, <1>2

-----------------------------------------------------------------------------
(* What the end of a batch does to the queue. *)
Finished == { r \in { x[1] : x \in batch } : ItemsOf(r) \subseteq done \cup batch }

LEMMA RespondIs ==
  ASSUME IInv, Respond
  PROVE  /\ queue' \in Seq(Requests) /\ NoRepeat(queue')
         /\ Range(queue') = Range(queue) \ Finished
         /\ Finished \subseteq Range(queue)
         /\ done' = { x \in done \cup batch : x[1] \notin Finished }
         /\ responses' = Append(responses, Finished)
<1>1. /\ queue' = Without(queue, Finished)
      /\ done' = { x \in done \cup batch : x[1] \notin Finished }
      /\ responses' = Append(responses, Finished)
  BY DEF Respond, Finished, AllDone
<1>2. queue \in Seq(Requests) /\ NoRepeat(queue)
  BY DEF IInv, TypeOK, Placed
<1>3. Finished \subseteq Range(queue)
  BY DEF IInv, BatchIs, Waiting, Finished
<1> HIDE DEF Finished
<1> QED  BY <1>1, <1>2, <1>3, WithoutIs

LEMMA RespondHolds ==
  ASSUME EngineAssumption, IInv, Respond
  PROVE  IInv'
<1> USE DEF IInv
<1>1. /\ engine = "collect" /\ collected = NumWorkers /\ ~error
      /\ engine' = "loop" /\ batch' = {}
      /\ UNCHANGED <<clientVars, requests, collected, error, shutdown, workerVars>>
  BY DEF Respond
<1>2. /\ queue' \in Seq(Requests) /\ NoRepeat(queue')
      /\ Range(queue') = Range(queue) \ Finished
      /\ Finished \subseteq Range(queue)
      /\ done' = { x \in done \cup batch : x[1] \notin Finished }
      /\ responses' = Append(responses, Finished)
  BY RespondIs
<1>3. batch \subseteq Waiting /\ Waiting \subseteq Items /\ done \subseteq Items
  BY DEF BatchIs, Waiting, TypeOK
<1>4. /\ Finished \subseteq Requests
      /\ \A r \in Finished : ItemsOf(r) \subseteq done \cup batch
      /\ \A x \in batch : ItemsOf(x[1]) \subseteq done \cup batch => x[1] \in Finished
  BY <1>3, ItemIs DEF Finished
<1> HIDE DEF Finished
<1>5. \A w \in Workers : Did(w) /\ response_mq[w] = "none"
  <2>1. \A w \in Workers : w <= collected
    BY <1>1 DEF Workers, EngineAssumption
  <2>2. error = FALSE
    BY <1>1 DEF TypeOK
  <2> QED  BY <1>1, <2>1, <2>2 DEF WorkersAre, WorkerOf
<1>6. AllSent(done \cup batch)
  BY <1>5 DEF AllSent, Did, SentIs
<1>7. /\ responses' \in Seq(SUBSET Requests)
      /\ \A n \in DOMAIN responses' : responses'[n] = Finished \/ \E m \in DOMAIN responses : responses'[n] = responses[m]
  <2>1. responses \in Seq(SUBSET Requests) /\ Finished \in SUBSET Requests
    BY <1>4 DEF TypeOK
  <2> QED  BY <1>2, <2>1
<1>8. TypeOK'
  <2>1. done' \subseteq Items /\ batch' \subseteq Items /\ engine' \in {"loop", "collect", "ended"}
    BY <1>1, <1>2, <1>3
  <2> QED  BY <1>1, <1>2, <1>7, <2>1 DEF TypeOK, clientVars, workerVars
<1>9. \A r \in Requests : Responded(r)' => Responded(r) \/ r \in Finished
  BY <1>1, <1>7 DEF Responded, clientVars
<1>10. Placed'
  <2>1. \A r \in Finished : r \notin Range(requests) /\ client[r] # "idle"
    BY <1>2, <1>4 DEF Placed
  <2>2. Range(requests') \cap Range(queue') = {} /\ NoRepeat(requests')
    BY <1>1, <1>2 DEF Placed
  <2> QED  BY <1>1, <1>2, <1>9, <2>1, <2>2 DEF Placed, clientVars
<1>11. \A S : AllSent(S)' = AllSent(S) /\ NoneSent(S)' = NoneSent(S)
  BY <1>1 DEF AllSent, NoneSent, workerVars
<1>12. Waiting' \subseteq Waiting \ batch
  BY <1>2 DEF Waiting
<1>13. SentIs'
  <2>1. \A r \in Finished : AllSent(ItemsOf(r))
    BY <1>4, <1>6 DEF AllSent
  <2>2. AllSent(done')
    BY <1>2, <1>6 DEF AllSent
  <2>3. NoneSent(Waiting')
    BY <1>12 DEF SentIs, NoneSent
  <2>4. AllSent(done)' /\ NoneSent(Waiting \ batch)'
    BY <1>1, <2>2, <2>3 DEF AllSent, NoneSent, workerVars
  <2>5. \A x \in done' : x[1] \in Range(queue')
    BY <1>2, <1>3 DEF SentIs, Waiting
  <2> QED  BY <1>1, <1>9, <1>11, <2>1, <2>4, <2>5 DEF SentIs, clientVars
<1>14. Unfinished'
  <2>1. ASSUME NEW r \in Range(queue'), Data[r] # <<>>, ItemsOf(r) \subseteq done' PROVE FALSE
    <3>1. r \in Requests /\ r \in Range(queue) /\ r \notin Finished /\ ItemsOf(r) \subseteq done \cup batch
      <4>1. r \in Range(queue) /\ r \notin Finished
        BY <1>2, <2>1
      <4>2. r \in Requests
        BY <4>1 DEF TypeOK, Range
      <4>3. done' \subseteq done \cup batch
        BY <1>2
      <4> QED  BY <2>1, <4>1, <4>2, <4>3
    <3>2. ~(ItemsOf(r) \subseteq done)
      BY <2>1, <3>1 DEF Unfinished
    <3>3. PICK x \in ItemsOf(r) : x \in batch
      BY <3>1, <3>2
    <3>4. x[1] = r
      BY <3>1, ItemIs
    <3> QED  BY <1>4, <3>1, <3>3, <3>4
  <2> QED  BY <2>1 DEF Unfinished
<1>15. BatchIs'
  BY <1>1 DEF BatchIs
<1>16. WorkersAre'
  <2>1. ASSUME NEW w \in Workers PROVE WorkerOf(w)'
    <3>1. worker[w] # "busy"
      <4>1. w <= collected /\ w \in Int /\ collected \in Int
        BY <1>1 DEF Workers, EngineAssumption
      <4>2. WorkerOf(w)
        BY DEF WorkersAre
      <4> QED  BY <4>1, <4>2 DEF WorkerOf
    <3> QED  BY <1>1, <1>5, <3>1 DEF WorkersAre, WorkerOf, workerVars
  <2> QED  BY <2>1 DEF WorkersAre
<1> QED  BY <1>8, <1>10, <1>13, <1>14, <1>15, <1>16

-----------------------------------------------------------------------------
LEMMA InitHolds ==
  ASSUME EngineAssumption, Init
  PROVE  IInv
<1> USE DEF Init
<1>1. TypeOK
  <2>1. 0 \in 0 .. NumWorkers
    BY DEF EngineAssumption
  <2>2. /\ <<>> \in Seq(Requests) /\ <<>> \in Seq(SUBSET Requests)
        /\ sent \in [Workers -> [Items -> Nat]]
    OBVIOUS
  <2> QED  BY <2>1, <2>2 DEF TypeOK
<1>2. Range(requests) = {} /\ Range(queue) = {} /\ DOMAIN responses = {}
  BY DEF Range
<1>3. \A r \in Requests : ~Responded(r)
  BY <1>2 DEF Responded
<1>4. Placed /\ Unfinished
  BY <1>2, <1>3 DEF Placed, Unfinished, NoRepeat
<1>5. Waiting = {}
  BY <1>2 DEF Waiting
<1>6. SentIs
  BY <1>2, <1>3, <1>5, ItemIs DEF SentIs, AllSent, NoneSent
<1>7. BatchIs
  BY DEF BatchIs
<1>8. WorkersAre
  BY DEF WorkersAre, WorkerOf, Did
<1> QED  BY <1>1, <1>4, <1>6, <1>7, <1>8 DEF IInv

LEMMA StepHolds ==
  ASSUME EngineAssumption, IInv, [Next]_vars
  PROVE  IInv'
<1>1. CASE UNCHANGED vars
  <2>1. BatchIs' /\ Waiting' = Waiting
    BY <1>1, SameBatch DEF IInv, vars, queueVars, engineVars
  <2>2. Placed' /\ SentIs' /\ Unfinished'
    BY <1>1, <2>1, SamePlaces DEF IInv, vars, clientVars, queueVars, engineVars, workerVars
  <2>3. WorkersAre'
    BY <1>1, SameWorkers DEF IInv, vars, engineVars, workerVars
  <2>4. TypeOK'
    BY <1>1 DEF IInv, TypeOK, vars, clientVars, queueVars, engineVars, workerVars
  <2> QED  BY <2>1, <2>2, <2>3, <2>4 DEF IInv
<1>2. CASE ScheduleFails \/ WorkersFailed
  BY <1>2, EndsHolds DEF ScheduleFails, WorkersFailed, IInv, TypeOK, engineVars
<1>3. CASE Listen \/ Enqueue \/ Schedule \/ Collect \/ Respond
  BY <1>3, ListenHolds, EnqueueHolds, ScheduleHolds, CollectHolds, RespondHolds
<1>4. ASSUME NEW w \in Workers, Execute(w) \/ ExecuteFails(w) \/ Signal(w) PROVE IInv'
  BY <1>4, ExecuteHolds, SignalHolds
<1>5. ASSUME NEW r \in Requests, Embed(r) PROVE IInv'
  BY <1>5, EmbedHolds
<1> QED  BY <1>1, <1>2, <1>3, <1>4, <1>5 DEF Next, Progress, Rest

LEMMA Invariant == Spec => []IInv
<1>1. Init => IInv
  BY InitHolds, EngineAssumption
<1>2. IInv /\ [Next]_vars => IInv'
  BY StepHolds, EngineAssumption
<1> QED  BY <1>1, <1>2, PTL DEF Spec

LEMMA EmbeddedFollows ==
  ASSUME IInv
  PROVE  AnsweredAreEmbedded
<1>1. ASSUME NEW w \in Workers, NEW x \in Items
      PROVE  sent[w][x] <= 1 /\ (client[x[1]] = "answered" => sent[w][x] = 1)
  <2>1. x[1] \in Requests /\ x \in ItemsOf(x[1])
    BY ItemIs
  <2>2. client[x[1]] = "answered" => AllSent(ItemsOf(x[1]))
    BY <2>1 DEF IInv, SentIs, Responded
  <2> QED  BY <2>1, <2>2 DEF IInv, WorkersAre, WorkerOf, AllSent
<1> QED  BY <1>1 DEF AnsweredAreEmbedded, IInv

(* A request is answered only when every worker has sent its shard of every *)
(* embedding, and no embedding is sent twice; for any requests and data,    *)
(* any batch size and any number of workers, whichever of them fail.        *)
THEOREM AnswersAreEmbedded == Spec => []AnsweredAreEmbedded
<1>1. Spec => []IInv
  BY Invariant
<1>2. IInv => AnsweredAreEmbedded
  BY EmbeddedFollows
<1> QED  BY <1>1, <1>2, PTL

-----------------------------------------------------------------------------
(* Only the end of a batch takes requests out of the queue. *)
LEMMA NobodyLeaves ==
  ASSUME IInv, Next, ~Respond
  PROVE  Range(queue) \subseteq Range(queue')
<1>1. CASE Enqueue
  <2>1. queue' = Append(queue, Head(requests)) /\ requests # <<>>
    BY <1>1 DEF Enqueue
  <2>2. queue \in Seq(Requests) /\ Head(requests) \in Requests
    BY <2>1, HeadTailIs DEF IInv, TypeOK
  <2> QED  BY <2>1, <2>2, AppendIs
<1>2. CASE queue' = queue
  BY <1>2
<1>3. Enqueue \/ queue' = queue
  <2>1. \A r \in Requests : Embed(r) => queue' = queue
    BY DEF Embed, queueVars
  <2>2. \A w \in Workers : Execute(w) \/ ExecuteFails(w) \/ Signal(w) => queue' = queue
    BY DEF Execute, ExecuteFails, Signal, queueVars
  <2>3. Listen \/ Schedule \/ ScheduleFails \/ Collect \/ WorkersFailed \/ Rest => queue' = queue
    BY DEF Listen, Schedule, ScheduleFails, Collect, WorkersFailed, Rest, vars, queueVars
  <2> QED  BY <2>1, <2>2, <2>3 DEF Next, Progress
<1> QED  BY <1>1, <1>2, <1>3

LEMMA RespondInOrder ==
  ASSUME EngineAssumption, IInv, Respond, NEW m \in DOMAIN queue, queue[m] \notin Range(queue'),
         NEW n \in 1 .. m, Data[queue[n]] # <<>>
  PROVE  queue[n] \notin Range(queue')
<1>1. /\ Range(queue') = Range(queue) \ Finished
      /\ queue \in Seq(Requests) /\ m \in Nat /\ n \in Nat /\ n \in DOMAIN queue
      /\ n = m \/ n < m
  BY RespondIs DEF IInv, TypeOK
<1>2. queue[m] \in Finished
  BY <1>1 DEF Range
<1>3. CASE n = m
  BY <1>3
<1>4. CASE n < m
  <2>1. PICK y \in batch : y[1] = queue[m]
    BY <1>2 DEF Finished
  <2>2. queue[n] \in Requests /\ queue[n] \in Range(queue)
    BY <1>1 DEF Range
  <2>3. ASSUME NEW x \in ItemsOf(queue[n]), x \notin done PROVE x \in batch
    <3>1. x[1] = queue[n] /\ x \in Items
      BY <2>2, ItemIs
    <3>2. x \in Waiting
      BY <2>2, <2>3, <3>1 DEF Waiting
    <3>3. Before(x, y)
      BY <1>1, <1>4, <2>1, <3>1 DEF Before
    <3> QED  BY <3>2, <3>3 DEF IInv, BatchIs
  <2>4. PICK x \in ItemsOf(queue[n]) : x \notin done
    BY <2>2 DEF IInv, Unfinished
  <2>5. x \in batch /\ x[1] = queue[n]
    BY <2>2, <2>3, <2>4, ItemIs
  <2>6. queue[n] \in Finished
    BY <2>3, <2>5 DEF Finished
  <2> QED  BY <1>1, <2>6
<1> QED  BY <1>1, <1>3, <1>4

(* Requests with data leave the queue in the order in which they came, for  *)
(* any data and any batch size: a batch is the front of what waits.         *)
THEOREM InOrderOfArrival == Spec => FirstComeFirstServed
<1> DEFINE Step == \A m \in DOMAIN queue : queue[m] \notin Range(queue') =>
                     \A n \in 1 .. m : Data[queue[n]] # <<>> => queue[n] \notin Range(queue')
<1>1. Spec => []IInv
  BY Invariant
<1>2. IInv /\ [Next]_vars => [Step]_vars
  <2> SUFFICES ASSUME IInv, Next PROVE Step
    OBVIOUS
  <2>1. CASE Respond
    BY <2>1, RespondInOrder, EngineAssumption
  <2>2. CASE ~Respond
    BY <2>2, NobodyLeaves DEF Range
  <2> QED  BY <2>1, <2>2
<1>3. Spec => [][Step]_vars
  BY <1>1, <1>2, PTL DEF Spec
<1> QED  BY <1>3 DEF FirstComeFirstServed

-----------------------------------------------------------------------------
(* The ring of the message queue. *)

USE BroadcastAssumption

-----------------------------------------------------------------------------
(* Indices of the ring.                                                     *)

LEMMA ModUnique ==
  ASSUME NEW a \in Nat, NEW k \in Int, NEW y \in 0 .. MaxChunks - 1, a = MaxChunks * k + y
  PROVE  a % MaxChunks = y
<1> DEFINE M == MaxChunks
           d == k - (a \div M)
<1>1. M \in Nat \ {0}
  OBVIOUS
<1>2. a = M * (a \div M) + (a % M) /\ a \div M \in Int /\ a % M \in 0 .. M - 1
  BY <1>1, SMTT(60)
<1>3. M * d = (a % M) - y /\ d \in Int
  BY <1>1, <1>2
<1> HIDE DEF d
<1>4. d >= 1 => M * d >= M
  BY <1>1, <1>3
<1>5. d <= -1 => M * d <= -M
  BY <1>1, <1>3
<1>6. d = 0
  BY <1>1, <1>2, <1>3, <1>4, <1>5, SMTT(40)
<1> QED  BY <1>1, <1>2, <1>3, <1>6

LEMMA ModFacts ==
  ASSUME NEW n \in Nat
  PROVE  /\ n % MaxChunks \in Chunks
         /\ After(n % MaxChunks) = (n + 1) % MaxChunks
         /\ n < MaxChunks => n % MaxChunks = n
<1> DEFINE M == MaxChunks
           q == n \div M
           x == n % M
<1>1. M \in Nat \ {0}
  OBVIOUS
<1>2. q \in Int /\ x \in 0 .. M - 1 /\ n = M * q + x
  BY <1>1
<1>3. x \in Chunks
  BY <1>2 DEF Chunks
<1>4. n < M => x = n
  BY <1>1, <1>2, SMTT(40)
<1>5. (x + 1) % M = (n + 1) % M
  <2>1. CASE x + 1 < M
    <3>1. /\ x + 1 \in 0 .. M - 1 /\ n + 1 \in Nat /\ n + 1 = M * q + (x + 1)
      BY <1>1, <1>2, <2>1
    <3>2. (n + 1) % M = x + 1
      BY <1>2, <3>1, ModUnique
    <3>3. (x + 1) % M = x + 1
      <4> DEFINE y == x + 1
      <4>1. y \in Nat /\ y < M
        BY <1>2, <2>1
      <4> HIDE DEF y
      <4>2. y % M = y
        BY <1>1, <4>1
      <4> QED  BY <4>2 DEF y
    <3> QED  BY <3>2, <3>3
  <2>2. CASE x + 1 = M
    <3>1. n + 1 \in Nat /\ q + 1 \in Int /\ 0 \in 0 .. M - 1 /\ n + 1 = M * (q + 1) + 0
      BY <1>1, <1>2, <2>2
    <3>2. (n + 1) % M = 0
      BY <3>1, ModUnique
    <3>3. (x + 1) % M = 0
      BY <1>1, <2>2
    <3> QED  BY <3>2, <3>3
  <2> QED  BY <1>1, <1>2, <2>1, <2>2
<1> QED  BY <1>3, <1>4, <1>5 DEF After

LEMMA ModDistinct ==
  ASSUME NEW a \in Nat, NEW b \in Nat, a < b, b < a + MaxChunks
  PROVE  a % MaxChunks # b % MaxChunks
<1> DEFINE M == MaxChunks
<1>1. M \in Nat \ {0}
  OBVIOUS
<1> SUFFICES ASSUME a % M = b % M PROVE FALSE
  OBVIOUS
<1>2. /\ a = M * (a \div M) + (a % M) /\ a \div M \in Int
      /\ b = M * (b \div M) + (b % M) /\ b \div M \in Int
  BY <1>1
<1> DEFINE k == (b \div M) - (a \div M)
<1>3. b - a = M * k /\ k \in Int
  BY <1>1, <1>2
<1>4. CASE k >= 1
  BY <1>1, <1>3, <1>4
<1>5. CASE k <= 0
  BY <1>1, <1>3, <1>5
<1> QED  BY <1>3, <1>4, <1>5
LEMMA ModPeriod ==
  ASSUME NEW n \in Nat
  PROVE  n % MaxChunks = (n + MaxChunks) % MaxChunks
<1> DEFINE M == MaxChunks
           q == n \div M
           x == n % M
<1>1. M \in Nat \ {0}
  OBVIOUS
<1>2. q \in Int /\ x \in 0 .. M - 1 /\ n = M * q + x
  BY <1>1
<1>3. n + M \in Nat /\ q + 1 \in Int /\ n + M = M * (q + 1) + x
  BY <1>1, <1>2
<1> HIDE DEF x
<1> QED  BY <1>2, <1>3, ModUnique DEF x

-----------------------------------------------------------------------------
(* The inductive invariant.  A reader has taken Taken(r) objects out of the *)
(* ring, and the writer has put Len(log) in; all counters stand for these.  *)
Taken(r) == Len(obtained[r]) + (IF rpc[r] = "recv" THEN 1 ELSE 0)
Busy == wpc \in {"unmark", "write", "clear"}
ChunkOf(m) == (m - 1) % MaxChunks
Held(m) == IF TooLarge(m) THEN Overflow ELSE m

(* The readers are behind the writer by no more than the ring holds, and by *)
(* less while it works on the next chunk.                                   *)
Order ==
  /\ widx = Len(log) % MaxChunks
  /\ Len(log) <= Len(Lengths) /\ (Busy => Len(log) < Len(Lengths))
  /\ \A i \in 1 .. Len(log) : log[i] = i
  /\ wpc = "send" => Len(log) > 0 /\ TooLarge(Len(log))
  /\ wpc = "send" => \A r \in Readers : Len(obtained[r]) < Len(log)
  /\ \A r \in Readers :
       /\ ridx[r] = Taken(r) % MaxChunks
       /\ Taken(r) <= Len(log) /\ Len(log) <= Taken(r) + MaxChunks
       /\ Busy => Len(log) < Taken(r) + MaxChunks
       /\ \A i \in 1 .. Len(obtained[r]) : obtained[r][i] = i

(* The last objects are in their chunks, flagged by who has taken them, and *)
(* the chunks that were never written have no flags.                        *)
Kept(m) ==
  /\ m \in 1 .. Len(log) /\ Len(log) < m + MaxChunks
  /\ Busy => Len(log) + 1 < m + MaxChunks
Ring ==
  /\ \A m \in Messages : Kept(m) =>
       /\ written[ChunkOf(m)] /\ data[ChunkOf(m)] = Held(m)
       /\ \A r \in Readers : read[<<ChunkOf(m), r>>] <=> Taken(r) >= m
  /\ \A c \in Chunks : c >= Len(log) =>
       ~written[c] /\ \A r \in Readers : ~read[<<c, r>>]

(* The chunk that the writer works on. *)
Overwritten ==
  /\ wpc \in {"write", "clear"} => ~written[widx]
  /\ wpc = "clear" =>
       /\ data[widx] = Held(Current)
       /\ \A r \in Readers : r < cleared => ~read[<<widx, r>>]
  /\ wpc = "unmark" /\ Len(log) >= MaxChunks => \A r \in Readers : read[<<widx, r>>]

Reading ==
  \A r \in Readers :
    /\ rpc[r] = "check" /\ ~read_flag[r] => Taken(r) < Len(log) \/ ~written[ridx[r]]
    /\ rpc[r] \in {"copy", "mark"} => Taken(r) < Len(log)
    /\ rpc[r] = "mark" => copy[r] = Held(Taken(r) + 1)
    /\ rpc[r] = "recv" => TooLarge(Taken(r))

(* The socket has the large objects that the reader has not obtained. *)
NotYetObtained(r, m) ==
  /\ Len(obtained[r]) < m /\ m <= Len(log) /\ TooLarge(m)
  /\ wpc = "send" => m < Len(log)
Sockets ==
  \A r \in Readers :
    /\ \A i, j \in DOMAIN socket[r] : i < j => socket[r][i] < socket[r][j]
    /\ \A i \in DOMAIN socket[r] : NotYetObtained(r, socket[r][i])
    /\ \A m \in Messages : NotYetObtained(r, m) => \E i \in DOMAIN socket[r] : socket[r][i] = m

RingInv == RingTypeOK /\ Order /\ Ring /\ Overwritten /\ Reading /\ Sockets

LEMMA Lens ==
  ASSUME RingTypeOK
  PROVE  /\ Len(log) \in Nat
         /\ \A r \in Readers : Len(obtained[r]) \in Nat /\ Taken(r) \in Nat
         /\ \A m \in Messages : m \in Nat \ {0} /\ m - 1 \in Nat
         /\ Len(Lengths) \in Nat
BY DEF RingTypeOK, Taken, Messages

(* Where the writer and the readers are in the ring. *)
LEMMA Places ==
  ASSUME RingInv
  PROVE  /\ \A m \in Messages : ChunkOf(m) \in Chunks
         /\ Busy => \A m \in Messages : Kept(m) => ChunkOf(m) # widx
         /\ Len(log) < MaxChunks => widx = Len(log)
         /\ ~Busy /\ Len(log) >= MaxChunks =>
              /\ Len(log) + 1 - MaxChunks \in Messages
              /\ Kept(Len(log) + 1 - MaxChunks)
              /\ ChunkOf(Len(log) + 1 - MaxChunks) = widx
<1>1. ASSUME NEW m \in Messages
      PROVE  ChunkOf(m) \in Chunks
  BY <1>1, Lens, ModFacts DEF ChunkOf, RingInv
<1>2. ASSUME Busy, NEW m \in Messages, Kept(m)
      PROVE  ChunkOf(m) # widx
  <2>1. m - 1 \in Nat /\ Len(log) \in Nat /\ m - 1 < Len(log) /\ Len(log) < (m - 1) + MaxChunks
    BY <1>2, Lens DEF Kept, RingInv
  <2>2. (m - 1) % MaxChunks # Len(log) % MaxChunks
    BY <2>1, ModDistinct
  <2> QED  BY <2>2 DEF ChunkOf, RingInv, Order
<1>3. Len(log) < MaxChunks => widx = Len(log)
  BY Lens, ModFacts DEF RingInv, Order
<1>4. ASSUME ~Busy, Len(log) >= MaxChunks
      PROVE  /\ Len(log) + 1 - MaxChunks \in Messages
             /\ Kept(Len(log) + 1 - MaxChunks)
             /\ ChunkOf(Len(log) + 1 - MaxChunks) = widx
  <2> DEFINE n == Len(log) - MaxChunks
  <2>1. n \in Nat /\ Len(log) \in Nat /\ Len(log) = n + MaxChunks /\ Len(log) <= Len(Lengths)
        /\ Len(Lengths) \in Nat /\ Len(log) + 1 - MaxChunks = n + 1
    BY <1>4, Lens DEF RingInv, Order
  <2>2. n + 1 \in Messages /\ Kept(n + 1)
    BY <1>4, <2>1 DEF Messages, Kept
  <2>3. n % MaxChunks = Len(log) % MaxChunks
    <3> HIDE DEF n
    <3> QED  BY <2>1, ModPeriod
  <2>4. ChunkOf(n + 1) = n % MaxChunks
    BY <2>1 DEF ChunkOf
  <2> QED  BY <2>1, <2>2, <2>3, <2>4 DEF RingInv, Order
<1> QED  BY <1>1, <1>2, <1>3, <1>4

(* A reader that copies has the next object in its chunk. *)
LEMMA Copying ==
  ASSUME RingInv, NEW r \in Readers, Taken(r) < Len(log)
  PROVE  /\ Taken(r) + 1 \in Messages /\ Kept(Taken(r) + 1)
         /\ ChunkOf(Taken(r) + 1) = ridx[r]
         /\ written[ridx[r]] /\ data[ridx[r]] = Held(Taken(r) + 1) /\ ~read[<<ridx[r], r>>]
<1>1. Taken(r) \in Nat /\ Len(log) \in Nat /\ Len(Lengths) \in Nat
  BY Lens DEF RingInv
<1>2. /\ Len(log) <= Len(Lengths) /\ Len(log) <= Taken(r) + MaxChunks
      /\ Busy => Len(log) < Taken(r) + MaxChunks
  BY DEF RingInv, Order
<1>3. Taken(r) + 1 \in Messages
  BY <1>1, <1>2 DEF Messages
<1>4. Kept(Taken(r) + 1)
  BY <1>1, <1>2 DEF Kept
<1>5. ChunkOf(Taken(r) + 1) = ridx[r]
  BY <1>1 DEF ChunkOf, RingInv, Order
<1> QED  BY <1>1, <1>3, <1>4, <1>5 DEF RingInv, Ring

LEMMA RaceFree == RingInv => NoRace
<1> SUFFICES ASSUME RingInv, NEW r \in Readers, rpc[r] \in {"copy", "mark"}
             PROVE  /\ written[ridx[r]] /\ ~read[<<ridx[r], r>>]
                    /\ wpc \in {"unmark", "write", "clear"} => widx # ridx[r]
  BY DEF RingInv, NoRace
<1>1. Taken(r) < Len(log)
  BY DEF RingInv, Reading
<1> QED  BY <1>1, Copying, Places DEF Busy

-----------------------------------------------------------------------------
LEMMA InitInv == RingInit => RingInv
<1> SUFFICES ASSUME RingInit PROVE RingInv
  OBVIOUS
<1> USE DEF RingInit
<1>1. RingTypeOK
  BY DEF RingTypeOK, Chunks, Readers, Messages, Torn
<1>2. \A r \in Readers : Taken(r) = 0
  BY DEF Taken
<1>3. 0 % MaxChunks = 0
  BY ModFacts
<1>4. Order
  BY <1>2, <1>3 DEF Order, Busy
<1>5. Ring
  BY DEF Ring, Kept
<1>6. Overwritten /\ Reading
  BY DEF Overwritten, Reading
<1>7. Sockets
  BY DEF Sockets, NotYetObtained, Messages
<1> QED  BY <1>1, <1>4, <1>5, <1>6, <1>7 DEF RingInv

(* What the flags and the counters say does not depend on anything else. *)
LEMMA Unmoved ==
  ASSUME RingInv, UNCHANGED <<log, obtained, wpc, socket, written, read, data, widx, cleared>>,
         \A r \in Readers : ridx'[r] = ridx[r] /\ (rpc'[r] = "recv" <=> rpc[r] = "recv")
  PROVE  /\ \A r \in Readers : Taken(r)' = Taken(r)
         /\ Order' /\ Ring' /\ Overwritten' /\ Sockets'
<1>1. \A r \in Readers : Taken(r)' = Taken(r)
  BY DEF Taken
<1>2. Order'
  BY <1>1 DEF RingInv, Order, Busy
<1>3. Ring'
  BY <1>1 DEF RingInv, Ring, Kept, Busy
<1>4. Overwritten'
  BY DEF RingInv, Overwritten, Current
<1>5. Sockets'
  BY DEF RingInv, Sockets, NotYetObtained
<1> QED  BY <1>1, <1>2, <1>3, <1>4, <1>5

LEMMA LoadReadFlagInv ==
  ASSUME RingInv, NEW r \in Readers, LoadReadFlag(r)
  PROVE  RingInv'
<1> USE DEF LoadReadFlag, Goto, writerVars
<1>1. /\ rpc[r] = "poll" /\ rpc' = [rpc EXCEPT ![r] = "check"]
      /\ read_flag' = [read_flag EXCEPT ![r] = read[<<ridx[r], r>>]]
      /\ RingTypeOK
  BY DEF RingInv
<1>2. RingTypeOK'
  BY DEF RingInv, RingTypeOK
<1>3. /\ \A s \in Readers : Taken(s)' = Taken(s)
      /\ Order' /\ Ring' /\ Overwritten' /\ Sockets'
  BY <1>1, Unmoved DEF RingTypeOK
<1>4. ASSUME ~read[<<ridx[r], r>>], Taken(r) >= Len(log)
      PROVE  ~written[ridx[r]]
  <2>1. Taken(r) = Len(log) /\ ridx[r] = widx /\ Len(log) \in Nat /\ widx \in Chunks
    BY <1>4, Lens DEF RingInv, Order, RingTypeOK
  <2>2. CASE Len(log) < MaxChunks
    BY <2>1, <2>2, Places DEF RingInv, Ring
  <2>3. CASE Len(log) >= MaxChunks /\ ~Busy
    BY <1>4, <2>1, <2>3, Places DEF RingInv, Ring
  <2>4. CASE Len(log) >= MaxChunks /\ Busy
    BY <1>4, <2>1, <2>4 DEF RingInv, Overwritten, Busy
  <2> QED  BY <2>1, <2>2, <2>3, <2>4
<1>5. Reading'
  <2> SUFFICES ASSUME NEW s \in Readers
               PROVE  /\ rpc'[s] = "check" /\ ~read_flag'[s]
                           => Taken(s) < Len(log) \/ ~written[ridx[s]]
                      /\ rpc'[s] \in {"copy", "mark"} => Taken(s) < Len(log)
                      /\ rpc'[s] = "mark" => copy[s] = Held(Taken(s) + 1)
                      /\ rpc'[s] = "recv" => TooLarge(Taken(s))
    BY <1>3 DEF Reading, Held, TooLarge
  <2>1. CASE s = r
    BY <1>1, <1>4, <2>1, Lens DEF RingTypeOK
  <2>2. CASE s # r
    BY <1>1, <2>2 DEF RingInv, Reading, RingTypeOK
  <2> QED  BY <2>1, <2>2
<1> QED  BY <1>2, <1>3, <1>5 DEF RingInv

LEMMA LoadWrittenFlagInv ==
  ASSUME RingInv, NEW r \in Readers, LoadWrittenFlag(r)
  PROVE  RingInv'
<1> USE DEF LoadWrittenFlag, Goto, writerVars
<1> DEFINE pc == IF Readable(r) THEN "copy" ELSE "poll"
<1>1. rpc[r] = "check" /\ rpc' = [rpc EXCEPT ![r] = pc] /\ RingTypeOK
  BY DEF RingInv
<1>2. RingTypeOK'
  BY DEF RingInv, RingTypeOK
<1>3. /\ \A s \in Readers : Taken(s)' = Taken(s)
      /\ Order' /\ Ring' /\ Overwritten' /\ Sockets'
  BY <1>1, Unmoved DEF RingTypeOK
<1>4. Reading'
  <2> SUFFICES ASSUME NEW s \in Readers
               PROVE  /\ rpc'[s] = "check" /\ ~read_flag[s]
                           => Taken(s) < Len(log) \/ ~written[ridx[s]]
                      /\ rpc'[s] \in {"copy", "mark"} => Taken(s) < Len(log)
                      /\ rpc'[s] = "mark" => copy[s] = Held(Taken(s) + 1)
                      /\ rpc'[s] = "recv" => TooLarge(Taken(s))
    BY <1>3 DEF Reading, Held, TooLarge
  <2>1. CASE s = r
    BY <1>1, <2>1 DEF RingInv, Reading, Readable, RingTypeOK
  <2>2. CASE s # r
    BY <1>1, <2>2 DEF RingInv, Reading, RingTypeOK
  <2> QED  BY <2>1, <2>2
<1> QED  BY <1>2, <1>3, <1>4 DEF RingInv

LEMMA CopyDataInv ==
  ASSUME RingInv, NEW r \in Readers, CopyData(r)
  PROVE  RingInv'
<1> USE DEF CopyData, Goto, writerVars
<1>1. /\ rpc[r] = "copy" /\ rpc' = [rpc EXCEPT ![r] = "mark"]
      /\ copy' = [copy EXCEPT ![r] = data[ridx[r]]] /\ RingTypeOK
  BY DEF RingInv
<1>2. RingTypeOK'
  BY DEF RingInv, RingTypeOK
<1>3. /\ \A s \in Readers : Taken(s)' = Taken(s)
      /\ Order' /\ Ring' /\ Overwritten' /\ Sockets'
  BY <1>1, Unmoved DEF RingTypeOK
<1>4. Taken(r) < Len(log) /\ data[ridx[r]] = Held(Taken(r) + 1)
  BY <1>1, Copying DEF RingInv, Reading
<1>5. Reading'
  <2> SUFFICES ASSUME NEW s \in Readers
               PROVE  /\ rpc'[s] = "check" /\ ~read_flag[s]
                           => Taken(s) < Len(log) \/ ~written[ridx[s]]
                      /\ rpc'[s] \in {"copy", "mark"} => Taken(s) < Len(log)
                      /\ rpc'[s] = "mark" => copy'[s] = Held(Taken(s) + 1)
                      /\ rpc'[s] = "recv" => TooLarge(Taken(s))
    BY <1>3 DEF Reading, Held, TooLarge
  <2>1. CASE s = r
    BY <1>1, <1>4, <2>1 DEF RingTypeOK
  <2>2. CASE s # r
    BY <1>1, <2>2 DEF RingInv, Reading, RingTypeOK
  <2> QED  BY <2>1, <2>2
<1> QED  BY <1>2, <1>3, <1>5 DEF RingInv

LEMMA MarkReadInv ==
  ASSUME RingInv, NEW r \in Readers, MarkRead(r)
  PROVE  /\ RingInv'
         /\ \/ UNCHANGED <<log, obtained>>
            \/ /\ Len(obtained[r]) < Len(log) /\ UNCHANGED log
               /\ obtained' = [obtained EXCEPT ![r] = Append(@, log[Len(@) + 1])]
<1> DEFINE n == Len(obtained[r])
           pc == IF copy[r] = Overflow THEN "recv" ELSE "poll"
           got == IF copy[r] = Overflow THEN obtained[r] ELSE Append(obtained[r], copy[r])
<1>1. /\ rpc[r] = "mark" /\ rpc' = [rpc EXCEPT ![r] = pc] /\ RingTypeOK
      /\ read' = [read EXCEPT ![<<ridx[r], r>>] = TRUE]
      /\ ridx' = [ridx EXCEPT ![r] = After(ridx[r])]
      /\ obtained' = [obtained EXCEPT ![r] = got]
      /\ UNCHANGED <<written, data, socket, wpc, widx, cleared, log, read_flag, copy>>
  BY DEF RingInv, MarkRead, Goto, Obtain, RingTypeOK, writerVars
<1>2. /\ n < Len(log) /\ copy[r] = Held(n + 1) /\ Taken(r) = n
      /\ n + 1 \in Messages /\ Kept(n + 1) /\ ChunkOf(n + 1) = ridx[r]
      /\ n \in Nat /\ Len(log) \in Nat /\ n + 1 \in Nat /\ Len(Lengths) \in Nat
      /\ ridx[r] = n % MaxChunks
  <2>1. Taken(r) = n /\ n \in Nat /\ Len(log) \in Nat /\ Len(Lengths) \in Nat
    BY <1>1, Lens DEF Taken
  <2>2. n < Len(log) /\ copy[r] = Held(n + 1)
    BY <1>1, <2>1 DEF RingInv, Reading
  <2>3. ridx[r] = n % MaxChunks
    BY <2>1 DEF RingInv, Order
  <2> HIDE DEF n
  <2>4. Taken(r) + 1 \in Messages /\ Kept(Taken(r) + 1) /\ ChunkOf(Taken(r) + 1) = ridx[r]
    BY <2>1, <2>2, Copying
  <2> QED  BY <2>1, <2>2, <2>3, <2>4
<1> HIDE DEF n
<1>3. /\ copy[r] = Overflow <=> TooLarge(n + 1)
      /\ copy[r] # Overflow => copy[r] = n + 1
  BY <1>2 DEF Held, Messages, Overflow
<1>4. /\ Taken(r)' = n + 1
      /\ \A s \in Readers : s # r => Taken(s)' = Taken(s) /\ obtained'[s] = obtained[s]
      /\ obtained'[r] = got /\ got \in Seq(Messages)
      /\ Len(got) = IF TooLarge(n + 1) THEN n ELSE n + 1
      /\ \A i \in 1 .. Len(got) : got[i] = i
  <2>1. /\ obtained[r] \in Seq(Messages) /\ Len(obtained[r]) = n
        /\ \A i \in 1 .. n : obtained[r][i] = i
    BY DEF RingInv, RingTypeOK, Order, n
  <2>2. obtained'[r] = got /\ rpc'[r] = pc
    BY <1>1 DEF RingTypeOK
  <2>3. \A s \in Readers : s # r => Taken(s)' = Taken(s) /\ obtained'[s] = obtained[s]
    BY <1>1 DEF Taken, RingTypeOK
  <2>4. CASE copy[r] = Overflow
    <3>1. got = obtained[r] /\ pc = "recv" /\ TooLarge(n + 1)
      BY <1>3, <2>4
    <3> HIDE DEF got, pc
    <3>2. Taken(r)' = n + 1
      BY <1>2, <2>1, <2>2, <3>1 DEF Taken
    <3> QED  BY <2>1, <2>2, <2>3, <3>1, <3>2
  <2>5. CASE copy[r] # Overflow
    <3>1. got = Append(obtained[r], n + 1) /\ pc = "poll" /\ ~TooLarge(n + 1)
      BY <1>3, <2>5
    <3> HIDE DEF got, pc
    <3>2. got \in Seq(Messages) /\ Len(got) = n + 1 /\ \A i \in 1 .. n + 1 : got[i] = i
      BY <1>2, <2>1, <3>1
    <3>3. Taken(r)' = n + 1
      BY <1>2, <2>2, <3>1, <3>2 DEF Taken
    <3> QED  BY <2>2, <2>3, <3>1, <3>2, <3>3
  <2> QED  BY <2>4, <2>5
<1> HIDE DEF got, pc
<1>5. RingTypeOK'
  <2>1. After(ridx[r]) \in Chunks /\ After(ridx[r]) = (n + 1) % MaxChunks
    BY <1>2, ModFacts
  <2>2. obtained' \in [Readers -> Seq(Messages)]
    BY <1>1, <1>4 DEF RingTypeOK
  <2>3. <<ridx[r], r>> \in Chunks \X Readers
    BY <1>1 DEF RingTypeOK
  <2>4. ridx' \in [Readers -> Chunks] /\ read' \in [Chunks \X Readers -> BOOLEAN]
    BY <1>1, <2>1, <2>3 DEF RingTypeOK
  <2>5. rpc' \in [Readers -> {"poll", "check", "copy", "mark", "recv"}]
    BY <1>1 DEF RingTypeOK, pc
  <2> QED  BY <1>1, <2>2, <2>4, <2>5 DEF RingTypeOK
<1>6. Order'
  <2>1. \A s \in Readers : ridx'[s] = Taken(s)' % MaxChunks
    <3>1. ridx'[r] = (n + 1) % MaxChunks
      BY <1>1, <1>2, ModFacts DEF RingTypeOK
    <3>2. \A s \in Readers : s # r => ridx'[s] = Taken(s) % MaxChunks
      BY <1>1 DEF RingInv, Order, RingTypeOK
    <3> QED  BY <1>4, <3>1, <3>2
  <2>2. \A s \in Readers : /\ Taken(s)' <= Len(log) /\ Len(log) <= Taken(s)' + MaxChunks
                           /\ Busy => Len(log) < Taken(s)' + MaxChunks
    <3>1. \A s \in Readers : /\ Taken(s) <= Len(log) /\ Len(log) <= Taken(s) + MaxChunks
                             /\ Busy => Len(log) < Taken(s) + MaxChunks
      BY DEF RingInv, Order
    <3>2. /\ n + 1 <= Len(log) /\ Len(log) <= (n + 1) + MaxChunks
          /\ Busy => Len(log) < (n + 1) + MaxChunks
      <4>1. Len(log) <= n + MaxChunks /\ (Busy => Len(log) < n + MaxChunks)
        BY <1>2, <3>1
      <4> QED  BY <1>2, <4>1
    <3>3. ASSUME NEW s \in Readers
          PROVE  /\ Taken(s)' <= Len(log) /\ Len(log) <= Taken(s)' + MaxChunks
                 /\ Busy => Len(log) < Taken(s)' + MaxChunks
      <4>1. CASE s = r
        BY <1>4, <3>2, <4>1
      <4>2. CASE s # r
        BY <1>4, <3>1, <4>2
      <4> QED  BY <4>1, <4>2
    <3> QED  BY <3>3
  <2>3. \A s \in Readers : \A i \in 1 .. Len(obtained'[s]) : obtained'[s][i] = i
    BY <1>4 DEF RingInv, Order
  <2>4. ASSUME wpc = "send", NEW s \in Readers
        PROVE  Len(obtained'[s]) < Len(log)
    <3>1. CASE s # r
      BY <1>4, <2>4, <3>1 DEF RingInv, Order
    <3>2. CASE s = r /\ n + 1 < Len(log)
      BY <1>2, <1>4, <3>2
    <3>3. CASE s = r /\ n + 1 = Len(log)
      BY <1>2, <1>4, <2>4, <3>3 DEF RingInv, Order
    <3> QED  BY <1>2, <3>1, <3>2, <3>3
  <2>5. (Busy' <=> Busy) /\ \A m : TooLarge(m)' <=> TooLarge(m)
    BY <1>1 DEF Busy, TooLarge
  <2>6. /\ widx' = Len(log') % MaxChunks /\ log' = log /\ wpc' = wpc
        /\ Len(log) <= Len(Lengths) /\ (Busy => Len(log) < Len(Lengths))
        /\ \A i \in 1 .. Len(log) : log[i] = i
        /\ wpc = "send" => Len(log) > 0 /\ TooLarge(Len(log))
    BY <1>1 DEF RingInv, Order
  <2> QED  BY <2>1, <2>2, <2>3, <2>4, <2>5, <2>6 DEF Order, Busy, TooLarge
<1>7. Ring'
  <2>1. ASSUME NEW m \in Messages, Kept(m)
        PROVE  /\ written[ChunkOf(m)] /\ data[ChunkOf(m)] = Held(m)
               /\ \A s \in Readers : read'[<<ChunkOf(m), s>>] <=> Taken(s)' >= m
    <3>1. /\ written[ChunkOf(m)] /\ data[ChunkOf(m)] = Held(m) /\ ChunkOf(m) \in Chunks
          /\ \A s \in Readers : read[<<ChunkOf(m), s>>] <=> Taken(s) >= m
      BY <2>1, Places DEF RingInv, Ring
    <3>2. \A s \in Readers : s # r => read'[<<ChunkOf(m), s>>] = read[<<ChunkOf(m), s>>]
      BY <1>1, <3>1 DEF RingTypeOK
    <3>3. m \in Nat /\ m - 1 \in Nat
      BY <1>1, Lens
    <3>4. CASE m = n + 1
      <4>1. read'[<<ChunkOf(m), r>>]
        BY <1>1, <1>2, <3>1, <3>4 DEF RingTypeOK
      <4> QED  BY <1>2, <1>4, <3>1, <3>2, <3>4, <4>1, SMTT(40)
    <3>5. CASE m # n + 1
      <4>1. m - 1 < n + MaxChunks /\ n < (m - 1) + MaxChunks
        <5>1. m - 1 < Len(log) /\ Len(log) < m + MaxChunks /\ Len(log) <= n + MaxChunks
          BY <1>2, <2>1, <3>3 DEF Kept, RingInv, Order
        <5> QED  BY <1>2, <3>3, <5>1
      <4>2. (m - 1) % MaxChunks # n % MaxChunks
        <5>1. m - 1 < n \/ n < m - 1
          BY <1>2, <3>3, <3>5
        <5> QED  BY <1>2, <3>3, <4>1, <5>1, ModDistinct
      <4>3. ChunkOf(m) # ridx[r]
        BY <1>2, <4>2 DEF ChunkOf
      <4>4. read'[<<ChunkOf(m), r>>] = read[<<ChunkOf(m), r>>]
        BY <1>1, <3>1, <4>3 DEF RingTypeOK
      <4>5. (n + 1 >= m) <=> (n >= m)
        BY <1>2, <3>3, <3>5
      <4> QED  BY <1>2, <1>4, <3>1, <3>2, <4>4, <4>5
    <3> QED  BY <3>4, <3>5
  <2>2. ASSUME NEW c \in Chunks, c >= Len(log)
        PROVE  ~written[c] /\ \A s \in Readers : ~read'[<<c, s>>]
    <3>1. ~written[c] /\ \A s \in Readers : ~read[<<c, s>>]
      BY <2>2 DEF RingInv, Ring
    <3>2. c # ridx[r]
      BY <3>1, <1>2, Copying
    <3> QED  BY <1>1, <3>1, <3>2 DEF RingTypeOK
  <2>3. /\ \A m \in Messages : Kept(m)' <=> Kept(m)
        /\ \A m : ChunkOf(m)' = ChunkOf(m) /\ Held(m)' = Held(m)
    BY <1>1 DEF Kept, Busy, ChunkOf, Held, TooLarge
  <2> QED  BY <1>1, <2>1, <2>2, <2>3 DEF Ring
<1>8. Overwritten'
  <2>1. Busy => widx # ridx[r]
    BY <1>1, RaceFree DEF NoRace, Busy
  <2>2. \A s \in Readers : Busy => read'[<<widx, s>>] = read[<<widx, s>>]
    BY <1>1, <2>1 DEF RingTypeOK
  <2> QED  BY <1>1, <2>2 DEF RingInv, Overwritten, Busy, Held, TooLarge, Current
<1>9. Reading'
  <2> SUFFICES ASSUME NEW s \in Readers
               PROVE  /\ rpc'[s] = "check" /\ ~read_flag[s]
                           => Taken(s)' < Len(log) \/ ~written[ridx'[s]]
                      /\ rpc'[s] \in {"copy", "mark"} => Taken(s)' < Len(log)
                      /\ rpc'[s] = "mark" => copy[s] = Held(Taken(s)' + 1)
                      /\ rpc'[s] = "recv" => TooLarge(Taken(s)')
    BY <1>1 DEF Reading, Held, TooLarge
  <2>1. CASE s = r
    BY <1>1, <1>3, <1>4, <2>1 DEF RingTypeOK, pc
  <2>2. CASE s # r
    BY <1>1, <1>4, <2>2 DEF RingInv, Reading, RingTypeOK
  <2> QED  BY <2>1, <2>2
<1>10. Sockets'
  <2>1. ASSUME NEW s \in Readers, NEW m \in Messages, TooLarge(m)
        PROVE  Len(obtained'[s]) < m <=> Len(obtained[s]) < m
    <3>1. CASE s = r
      <4>1. m \in Nat /\ Len(obtained[r]) = n
        BY <1>1, Lens DEF n
      <4>2. CASE m = n + 1
        BY <1>2, <1>4, <2>1, <3>1, <4>1, <4>2
      <4>3. CASE m # n + 1
        BY <1>2, <1>4, <3>1, <4>1, <4>3
      <4> QED  BY <4>2, <4>3
    <3>2. CASE s # r
      BY <1>4, <3>2
    <3> QED  BY <3>1, <3>2
  <2>2. \A s \in Readers, m \in Messages : NotYetObtained(s, m)' <=> NotYetObtained(s, m)
    BY <1>1, <2>1 DEF NotYetObtained, TooLarge
  <2>3. \A s \in Readers : \A i \in DOMAIN socket[s] : socket[s][i] \in Messages
    BY DEF RingInv, RingTypeOK
  <2> QED  BY <1>1, <2>2, <2>3 DEF RingInv, Sockets
<1>11. \/ UNCHANGED <<log, obtained>>
       \/ /\ Len(obtained[r]) < Len(log) /\ UNCHANGED log
          /\ obtained' = [obtained EXCEPT ![r] = Append(@, log[Len(@) + 1])]
  <2>1. log[n + 1] = n + 1
    BY <1>2 DEF RingInv, Order
  <2>2. CASE copy[r] = Overflow
    BY <1>1, <2>2 DEF RingTypeOK, got
  <2>3. CASE copy[r] # Overflow
    BY <1>1, <1>2, <1>3, <2>1, <2>3 DEF n, got
  <2> QED  BY <2>2, <2>3
<1> QED  BY <1>5, <1>6, <1>7, <1>8, <1>9, <1>10, <1>11 DEF RingInv

LEMMA ReceiveOverflowInv ==
  ASSUME RingInv, NEW r \in Readers, ReceiveOverflow(r)
  PROVE  /\ RingInv'
         /\ Len(obtained[r]) < Len(log) /\ UNCHANGED log
         /\ obtained' = [obtained EXCEPT ![r] = Append(@, log[Len(@) + 1])]
<1> DEFINE n == Len(obtained[r])
<1>1. /\ rpc[r] = "recv" /\ socket[r] # <<>> /\ RingTypeOK
      /\ rpc' = [rpc EXCEPT ![r] = "poll"]
      /\ socket' = [socket EXCEPT ![r] = Tail(@)]
      /\ obtained' = [obtained EXCEPT ![r] = Append(@, Head(socket[r]))]
      /\ UNCHANGED <<written, read, data, wpc, widx, cleared, log, ridx, read_flag, copy>>
  BY DEF RingInv, ReceiveOverflow, Goto, Obtain, writerVars
<1>2. /\ socket[r] \in Seq(Messages) /\ 1 \in DOMAIN socket[r] /\ Head(socket[r]) = socket[r][1]
      /\ socket[r][1] \in Messages /\ NotYetObtained(r, socket[r][1])
      /\ \A i \in DOMAIN socket[r] : socket[r][1] <= socket[r][i] /\ socket[r][i] \in Messages
  <2>1. socket[r] \in Seq(Messages) /\ 1 \in DOMAIN socket[r] /\ Head(socket[r]) = socket[r][1]
    BY <1>1 DEF RingTypeOK
  <2>2. \A i \in DOMAIN socket[r] : socket[r][i] \in Messages
    BY <2>1
  <2>3. \A i \in DOMAIN socket[r] : i # 1 => 1 < i
    BY <2>1
  <2>4. /\ NotYetObtained(r, socket[r][1])
        /\ \A i \in DOMAIN socket[r] : 1 < i => socket[r][1] < socket[r][i]
    BY <2>1 DEF RingInv, Sockets
  <2>5. \A m, k \in Messages : (m < k \/ m = k) => m <= k
    BY Lens, <1>1
  <2>6. \A i \in DOMAIN socket[r] : socket[r][1] < socket[r][i] \/ socket[r][1] = socket[r][i]
    BY <2>3, <2>4
  <2> QED  BY <2>1, <2>2, <2>4, <2>5, <2>6
<1>3. n \in Nat /\ Len(log) \in Nat /\ Taken(r) = n + 1 /\ TooLarge(n + 1) /\ Len(Lengths) \in Nat
  BY <1>1, Lens DEF RingInv, Reading, Taken
<1> HIDE DEF n
<1>4. n + 1 \in Messages /\ n + 1 <= socket[r][1] /\ NotYetObtained(r, n + 1) /\ n < Len(log)
  <2>1. /\ Len(log) <= Len(Lengths) /\ n + 1 <= Len(log)
        /\ wpc = "send" => n + 1 < Len(log) \/ n + 1 = Len(log)
    BY <1>3 DEF RingInv, Order
  <2>2. n < socket[r][1] /\ socket[r][1] <= Len(log) /\ (wpc = "send" => socket[r][1] < Len(log))
        /\ socket[r][1] \in Nat
    BY <1>1, <1>2, Lens DEF NotYetObtained, n
  <2>3. n + 1 \in Messages /\ n + 1 <= socket[r][1] /\ n < Len(log)
    BY <1>3, <2>1, <2>2 DEF Messages
  <2>4. wpc = "send" => n + 1 < Len(log)
    BY <1>3, <2>2, <2>3
  <2> QED  BY <1>3, <2>1, <2>3, <2>4 DEF NotYetObtained, n
<1>5. Head(socket[r]) = n + 1
  <2>1. PICK i \in DOMAIN socket[r] : socket[r][i] = n + 1
    BY <1>4 DEF RingInv, Sockets
  <2>2. socket[r][1] <= n + 1 /\ socket[r][1] \in Nat
    BY <1>1, <1>2, <2>1, Lens
  <2> QED  BY <1>2, <1>3, <1>4, <2>2
<1>6. /\ \A s \in Readers : s # r => obtained'[s] = obtained[s]
      /\ obtained'[r] = Append(obtained[r], n + 1) /\ Len(obtained'[r]) = n + 1
      /\ \A s \in Readers : Taken(s)' = Taken(s)
  <2>1. obtained[r] \in Seq(Messages) /\ Len(obtained[r]) = n
    BY <1>1 DEF RingTypeOK, n
  <2>2. /\ obtained'[r] = Append(obtained[r], n + 1) /\ rpc'[r] = "poll"
        /\ \A s \in Readers : s # r => obtained'[s] = obtained[s] /\ rpc'[s] = rpc[s]
    BY <1>1, <1>5 DEF RingTypeOK
  <2>3. Len(obtained'[r]) = n + 1
    BY <1>4, <2>1, <2>2
  <2>4. Taken(r)' = Taken(r)
    <3>1. n \in Nat /\ Taken(r) = n + 1
      BY <1>3
    <3>2. Taken(r)' = n + 1
      <4>1. n \in Nat
        BY <3>1
      <4> QED  BY <2>2, <2>3, <4>1 DEF Taken
    <3> QED  BY <3>1, <3>2
  <2>5. \A s \in Readers : s # r => Taken(s)' = Taken(s)
    BY <2>2 DEF Taken
  <2> QED  BY <2>2, <2>3, <2>4, <2>5
<1>7. RingTypeOK'
  <2>1. Tail(socket[r]) \in Seq(Messages) /\ Append(obtained[r], Head(socket[r])) \in Seq(Messages)
    BY <1>1, <1>2 DEF RingTypeOK
  <2> QED  BY <1>1, <2>1 DEF RingTypeOK
<1>8. Order'
  <2>1. \A i \in 1 .. n + 1 : obtained'[r][i] = i
    <3>1. obtained[r] \in Seq(Messages) /\ Len(obtained[r]) = n /\ \A i \in 1 .. n : obtained[r][i] = i
      BY DEF RingInv, Order, RingTypeOK, n
    <3>2. n \in Nat /\ obtained'[r] = Append(obtained[r], n + 1)
      BY <1>3, <1>6
    <3> HIDE DEF n
    <3>3. \A i \in 1 .. n : obtained'[r][i] = obtained[r][i]
      BY <3>1, <3>2
    <3>4. obtained'[r][n + 1] = n + 1
      BY <3>1, <3>2
    <3> QED  BY <3>1, <3>2, <3>3, <3>4
  <2>2. wpc = "send" => n + 1 < Len(log)
    BY <1>4 DEF NotYetObtained
  <2>3. \A s \in Readers : \A i \in 1 .. Len(obtained'[s]) : obtained'[s][i] = i
    BY <1>6, <2>1 DEF RingInv, Order
  <2>4. wpc = "send" => \A s \in Readers : Len(obtained'[s]) < Len(log)
    BY <1>6, <2>2 DEF RingInv, Order
  <2>5. (Busy' <=> Busy) /\ \A m : TooLarge(m)' <=> TooLarge(m)
    BY <1>1 DEF Busy, TooLarge
  <2>6. /\ widx' = Len(log') % MaxChunks /\ log' = log /\ wpc' = wpc
        /\ Len(log) <= Len(Lengths) /\ (Busy => Len(log) < Len(Lengths))
        /\ \A i \in 1 .. Len(log) : log[i] = i
        /\ wpc = "send" => Len(log) > 0 /\ TooLarge(Len(log))
    BY <1>1 DEF RingInv, Order
  <2>7. \A s \in Readers : /\ ridx'[s] = Taken(s)' % MaxChunks
                           /\ Taken(s)' <= Len(log) /\ Len(log) <= Taken(s)' + MaxChunks
                           /\ Busy => Len(log) < Taken(s)' + MaxChunks
    BY <1>1, <1>6 DEF RingInv, Order
  <2> QED  BY <2>3, <2>4, <2>5, <2>6, <2>7 DEF Order, Busy, TooLarge
<1>9. Ring' /\ Overwritten'
  BY <1>1, <1>6 DEF RingInv, Ring, Overwritten, Kept, Busy, Current, Held, TooLarge, ChunkOf
<1>10. Reading'
  BY <1>1, <1>6 DEF RingInv, Reading, RingTypeOK, Held, TooLarge
<1>11. Sockets'
  <2> DEFINE AheadNext(s, m) ==
        /\ Len(obtained'[s]) < m /\ m <= Len(log) /\ TooLarge(m)
        /\ wpc = "send" => m < Len(log)
  <2>1. \A s \in Readers, m \in Messages : s # r => (AheadNext(s, m) <=> NotYetObtained(s, m))
    BY <1>1, <1>6 DEF NotYetObtained
  <2>2. \A m \in Messages : AheadNext(r, m) <=> NotYetObtained(r, m) /\ m # n + 1
    <3>1. \A m \in Messages : n + 1 < m <=> n < m /\ m # n + 1
      BY <1>1, <1>3, Lens
    <3> QED  BY <1>1, <1>6, <3>1 DEF NotYetObtained, n
  <2> HIDE DEF AheadNext
  <2>3. \A s \in Readers : s # r => socket'[s] = socket[s]
    BY <1>1 DEF RingTypeOK
  <2>4. /\ DOMAIN socket'[r] = 1 .. Len(socket[r]) - 1 /\ Len(socket[r]) \in Nat
        /\ DOMAIN socket[r] = 1 .. Len(socket[r])
        /\ \A i \in DOMAIN socket'[r] : i + 1 \in DOMAIN socket[r] /\ socket'[r][i] = socket[r][i + 1]
    BY <1>1, <1>2 DEF RingTypeOK
  <2>5. \A i, j \in DOMAIN socket'[r] : i < j => socket'[r][i] < socket'[r][j]
    <3> SUFFICES ASSUME NEW i \in DOMAIN socket'[r], NEW j \in DOMAIN socket'[r], i < j
                 PROVE  socket[r][i + 1] < socket[r][j + 1]
      BY <2>4
    <3>1. i + 1 \in DOMAIN socket[r] /\ j + 1 \in DOMAIN socket[r] /\ i + 1 < j + 1
      BY <2>4
    <3> QED  BY <3>1 DEF RingInv, Sockets
  <2>6. ASSUME NEW i \in DOMAIN socket'[r]
        PROVE  AheadNext(r, socket'[r][i])
    <3>1. /\ i + 1 \in DOMAIN socket[r] /\ 1 \in DOMAIN socket[r] /\ 1 < i + 1
          /\ socket'[r][i] = socket[r][i + 1]
      BY <1>2, <2>4
    <3>2. NotYetObtained(r, socket[r][i + 1]) /\ socket[r][1] < socket[r][i + 1]
      BY <3>1 DEF RingInv, Sockets
    <3>3. socket[r][i + 1] \in Messages /\ socket[r][i + 1] # n + 1
      BY <1>1, <1>2, <1>3, <1>5, <3>1, <3>2, Lens
    <3> QED  BY <2>2, <3>1, <3>2, <3>3
  <2>7. \A m \in Messages : AheadNext(r, m) => \E i \in DOMAIN socket'[r] : socket'[r][i] = m
    <3> SUFFICES ASSUME NEW m \in Messages, NotYetObtained(r, m), m # n + 1
                 PROVE  \E i \in DOMAIN socket'[r] : socket'[r][i] = m
      BY <2>2
    <3>1. PICK j \in DOMAIN socket[r] : socket[r][j] = m
      BY DEF RingInv, Sockets
    <3>2. j # 1
      BY <1>2, <1>5, <3>1
    <3>3. j - 1 \in DOMAIN socket'[r] /\ (j - 1) + 1 = j
      BY <2>4, <3>2
    <3> QED  BY <2>4, <3>1, <3>3
  <2>8. ASSUME NEW s \in Readers
        PROVE  /\ \A i, j \in DOMAIN socket'[s] : i < j => socket'[s][i] < socket'[s][j]
               /\ \A i \in DOMAIN socket'[s] : AheadNext(s, socket'[s][i])
               /\ \A m \in Messages : AheadNext(s, m) => \E i \in DOMAIN socket'[s] : socket'[s][i] = m
    <3>1. CASE s = r
      BY <2>5, <2>6, <2>7, <3>1
    <3>2. CASE s # r
      <4>1. \A i \in DOMAIN socket[s] : socket[s][i] \in Messages
        BY <1>1 DEF RingTypeOK
      <4> QED  BY <2>1, <2>3, <3>2, <4>1 DEF RingInv, Sockets
    <3> QED  BY <3>1, <3>2
  <2> QED  BY <1>1, <2>8 DEF Sockets, NotYetObtained, AheadNext, TooLarge
<1>12. /\ Len(obtained[r]) < Len(log) /\ UNCHANGED log
       /\ obtained' = [obtained EXCEPT ![r] = Append(@, log[Len(@) + 1])]
  <2>1. log[n + 1] = n + 1
    BY <1>3, <1>4 DEF RingInv, Order
  <2> QED  BY <1>1, <1>4, <1>5, <2>1 DEF n
<1> QED  BY <1>7, <1>8, <1>9, <1>10, <1>11, <1>12 DEF RingInv

-----------------------------------------------------------------------------
(* What the readers' counters say does not change when the writer steps.    *)
LEMMA TakenUnmoved ==
  ASSUME UNCHANGED <<rpc, obtained>>
  PROVE  \A r \in Readers : Taken(r)' = Taken(r)
BY DEF Taken

LEMMA FindBlockInv ==
  ASSUME RingInv, FindBlock
  PROVE  RingInv'
<1>1. /\ wpc = "poll" /\ wpc' = "unmark" /\ Len(log) + 1 \in Messages /\ Writable(widx) /\ RingTypeOK
      /\ UNCHANGED <<written, read, data, socket, widx, cleared, log>>
      /\ UNCHANGED <<rpc, ridx, read_flag, copy, obtained>>
  BY DEF RingInv, FindBlock, Current, readerVars
<1>2. \A r \in Readers : Taken(r)' = Taken(r)
  BY <1>1, TakenUnmoved
<1>3. /\ Len(log) \in Nat /\ Len(Lengths) \in Nat /\ Len(log) < Len(Lengths)
      /\ \A r \in Readers : Taken(r) \in Nat
  BY <1>1, Lens DEF Messages
(* All readers have taken what is in the chunk that is found. *)
<1>4. ASSUME Len(log) >= MaxChunks
      PROVE  \A r \in Readers : /\ read[<<widx, r>>]
                                /\ Taken(r) >= Len(log) + 1 - MaxChunks
  <2>1. /\ Len(log) + 1 - MaxChunks \in Messages /\ Kept(Len(log) + 1 - MaxChunks)
        /\ ChunkOf(Len(log) + 1 - MaxChunks) = widx
    BY <1>1, <1>4, Places DEF Busy
  <2>2. written[widx] /\ \A r \in Readers : read[<<widx, r>>] <=> Taken(r) >= Len(log) + 1 - MaxChunks
    BY <2>1 DEF RingInv, Ring
  <2> QED  BY <1>1, <2>2 DEF Writable
<1>5. \A r \in Readers : Len(log) < Taken(r) + MaxChunks
  <2> SUFFICES ASSUME NEW r \in Readers PROVE Len(log) < Taken(r) + MaxChunks
    OBVIOUS
  <2>1. CASE Len(log) >= MaxChunks
    <3>1. Taken(r) >= Len(log) + 1 - MaxChunks /\ Taken(r) \in Nat
      BY <1>3, <1>4, <2>1
    <3> QED  BY <1>3, <3>1
  <2>2. CASE Len(log) < MaxChunks
    BY <1>3, <2>2
  <2> QED  BY <1>3, <2>1, <2>2
<1>6. RingTypeOK'
  BY <1>1 DEF RingTypeOK
<1>7. Order'
  BY <1>1, <1>2, <1>3, <1>5 DEF RingInv, Order
<1>8. Ring'
  <2>1. \A m \in Messages : Kept(m)' => Kept(m)
    BY <1>1 DEF Kept, Busy
  <2>2. ASSUME NEW m \in Messages, Kept(m)
        PROVE  /\ written'[ChunkOf(m)] /\ data'[ChunkOf(m)] = Held(m)
               /\ \A r \in Readers : read'[<<ChunkOf(m), r>>] <=> Taken(r)' >= m
    BY <1>1, <1>2, <2>2 DEF RingInv, Ring
  <2>3. \A c \in Chunks : c >= Len(log') => ~written'[c] /\ \A r \in Readers : ~read'[<<c, r>>]
    BY <1>1 DEF RingInv, Ring
  <2> QED  BY <2>1, <2>2, <2>3 DEF Ring, Held, TooLarge, ChunkOf
<1>9. Overwritten'
  BY <1>1, <1>4 DEF Overwritten
<1>10. Reading'
  BY <1>1, <1>2 DEF RingInv, Reading, Held, TooLarge
<1>11. Sockets'
  BY <1>1 DEF RingInv, Sockets, NotYetObtained, TooLarge
<1> QED  BY <1>6, <1>7, <1>8, <1>9, <1>10, <1>11 DEF RingInv

(* While the writer works on a chunk, the readers and what is kept for them *)
(* are elsewhere.                                                           *)
LEMMA WorkingInv ==
  ASSUME RingInv, RingTypeOK', Overwritten', wpc \in {"unmark", "write", "clear"},
         wpc' \in {"unmark", "write", "clear"},
         UNCHANGED <<widx, log, socket, rpc, ridx, read_flag, copy, obtained>>,
         \A c \in Chunks : c # widx => /\ written'[c] = written[c] /\ data'[c] = data[c]
                                       /\ \A r \in Readers : read'[<<c, r>>] = read[<<c, r>>],
         written'[widx] => written[widx],
         \A r \in Readers : read'[<<widx, r>>] => read[<<widx, r>>]
  PROVE  RingInv'
<1>1. \A r \in Readers : Taken(r)' = Taken(r)
  BY TakenUnmoved
<1>2. Busy /\ Busy'
  BY DEF Busy
<1>3. Order'
  BY <1>1, <1>2 DEF RingInv, Order, Busy, TooLarge
<1>4. Ring'
  <2>1. \A m \in Messages : Kept(m)' <=> Kept(m)
    BY <1>2 DEF Kept
  <2>2. \A m \in Messages : Kept(m) => ChunkOf(m) # widx /\ ChunkOf(m) \in Chunks
    BY <1>2, Places
  <2>3. \A m \in Messages : Kept(m) =>
           /\ written'[ChunkOf(m)] /\ data'[ChunkOf(m)] = Held(m)
           /\ \A r \in Readers : read'[<<ChunkOf(m), r>>] <=> Taken(r) >= m
    BY <2>2 DEF RingInv, Ring
  <2>4. ASSUME NEW c \in Chunks, c >= Len(log)
        PROVE  ~written'[c] /\ \A r \in Readers : ~read'[<<c, r>>]
    <3>1. ~written[c] /\ \A r \in Readers : ~read[<<c, r>>]
      BY <2>4 DEF RingInv, Ring
    <3> QED  BY <3>1
  <2> QED  BY <1>1, <2>1, <2>3, <2>4 DEF Ring, Held, TooLarge, ChunkOf
<1>5. Reading'
  <2> SUFFICES ASSUME NEW r \in Readers
               PROVE  /\ rpc[r] = "check" /\ ~read_flag[r] => Taken(r) < Len(log) \/ ~written'[ridx[r]]
                      /\ rpc[r] \in {"copy", "mark"} => Taken(r) < Len(log)
                      /\ rpc[r] = "mark" => copy[r] = Held(Taken(r) + 1)
                      /\ rpc[r] = "recv" => TooLarge(Taken(r))
    BY <1>1 DEF Reading, Held, TooLarge
  <2>1. ridx[r] \in Chunks /\ (written'[ridx[r]] => written[ridx[r]])
    BY DEF RingInv, RingTypeOK
  <2> QED  BY <2>1 DEF RingInv, Reading
<1>6. Sockets'
  BY <1>2 DEF RingInv, Sockets, NotYetObtained, TooLarge, Busy
<1> QED  BY <1>3, <1>4, <1>5, <1>6 DEF RingInv

LEMMA UnmarkInv ==
  ASSUME RingInv, Unmark
  PROVE  RingInv'
<1>1. /\ wpc = "unmark" /\ wpc' = "write" /\ RingTypeOK /\ widx \in Chunks
      /\ written' = [written EXCEPT ![widx] = FALSE] /\ data' = [data EXCEPT ![widx] = Torn]
      /\ UNCHANGED <<read, socket, widx, cleared, log>>
      /\ UNCHANGED <<rpc, ridx, read_flag, copy, obtained>>
  BY DEF RingInv, Unmark, readerVars, RingTypeOK
<1>2. RingTypeOK'
  BY <1>1 DEF RingTypeOK
<1>3. Overwritten'
  BY <1>1 DEF Overwritten, RingTypeOK
<1>4. /\ \A c \in Chunks : c # widx => written'[c] = written[c] /\ data'[c] = data[c]
      /\ ~written'[widx]
  BY <1>1 DEF RingTypeOK
<1> QED  BY <1>1, <1>2, <1>3, <1>4, WorkingInv

LEMMA WriteDataInv ==
  ASSUME RingInv, WriteData
  PROVE  RingInv'
<1>1. /\ wpc = "write" /\ wpc' = "clear" /\ cleared' = 0 /\ RingTypeOK /\ widx \in Chunks
      /\ data' = [data EXCEPT ![widx] = IF TooLarge(Current) THEN Overflow
                                        ELSE IF FitsInChunk(Current) THEN Current ELSE CutShort]
      /\ UNCHANGED <<written, read, socket, widx, log>>
      /\ UNCHANGED <<rpc, ridx, read_flag, copy, obtained>>
  BY DEF RingInv, WriteData, readerVars, RingTypeOK
(* An object that is not too large fits: the flag takes one byte. *)
<1>2. Current \in Messages
  BY <1>1, Lens DEF RingInv, Order, Busy, Current, Messages
<1>3. ~TooLarge(Current) => FitsInChunk(Current)
  <2>1. Lengths[Current] \in Nat /\ MaxChunkBytes \in Nat
    BY <1>2 DEF Messages
  <2> QED  BY <2>1 DEF TooLarge, FitsInChunk
<1>4. data' = [data EXCEPT ![widx] = Held(Current)]
  BY <1>1, <1>3 DEF Held
<1>5. Held(Current) \in Messages \cup {Torn, Overflow}
  BY <1>2 DEF Held
<1>6. RingTypeOK'
  BY <1>1, <1>4, <1>5 DEF RingTypeOK
<1>7. data'[widx] = Held(Current)
  BY <1>1, <1>4 DEF RingTypeOK
<1>8. Overwritten'
  <2>1. ~written[widx]
    BY <1>1 DEF RingInv, Overwritten
  <2> QED  BY <1>1, <1>7, <2>1 DEF Overwritten, Held, Current, TooLarge, Readers
<1>9. \A c \in Chunks : c # widx => data'[c] = data[c]
  BY <1>1 DEF RingTypeOK
<1> QED  BY <1>1, <1>6, <1>8, <1>9, WorkingInv

LEMMA ClearFlagInv ==
  ASSUME RingInv, ClearFlag
  PROVE  RingInv'
<1>1. /\ wpc = "clear" /\ wpc' = wpc /\ cleared < NumReaders /\ cleared' = cleared + 1
      /\ read' = [read EXCEPT ![<<widx, cleared>>] = FALSE] /\ RingTypeOK
      /\ widx \in Chunks /\ cleared \in Readers
      /\ UNCHANGED <<written, data, socket, widx, log>>
      /\ UNCHANGED <<rpc, ridx, read_flag, copy, obtained>>
  BY DEF RingInv, ClearFlag, readerVars, RingTypeOK, Readers
<1>2. RingTypeOK'
  BY <1>1 DEF RingTypeOK, Readers
<1>3. /\ ~read'[<<widx, cleared>>]
      /\ \A c \in Chunks, r \in Readers :
           <<c, r>> # <<widx, cleared>> => read'[<<c, r>>] = read[<<c, r>>]
  BY <1>1 DEF RingTypeOK
<1>4. Overwritten'
  <2>1. \A r \in Readers : r < cleared + 1 => r < cleared \/ r = cleared
    BY <1>1 DEF Readers
  <2>2. \A r \in Readers : r < cleared + 1 => ~read'[<<widx, r>>]
    BY <1>1, <1>3, <2>1 DEF RingInv, Overwritten
  <2> QED  BY <1>1, <2>2 DEF RingInv, Overwritten, Held, Current, TooLarge
<1>5. \A c \in Chunks, r \in Readers : c # widx => read'[<<c, r>>] = read[<<c, r>>]
  BY <1>3
<1>6. \A r \in Readers : read'[<<widx, r>>] => read[<<widx, r>>]
  BY <1>1, <1>3
<1> QED  BY <1>1, <1>2, <1>4, <1>5, <1>6, WorkingInv

LEMMA PublishInv ==
  ASSUME RingInv, Publish
  PROVE  /\ RingInv'
         /\ Current \in Messages /\ log' = Append(log, Current) /\ UNCHANGED obtained
<1> DEFINE n == Len(log)
<1>1. /\ wpc = "clear" /\ cleared = NumReaders /\ RingTypeOK /\ widx \in Chunks
      /\ written' = [written EXCEPT ![widx] = TRUE]
      /\ widx' = After(widx) /\ log' = Append(log, n + 1)
      /\ wpc' = IF TooLarge(n + 1) THEN "send" ELSE "poll"
      /\ UNCHANGED <<read, data, socket, cleared, rpc, ridx, read_flag, copy, obtained>>
  BY DEF RingInv, Publish, ClearedAll, Current, readerVars, RingTypeOK
<1>2. \A r \in Readers : Taken(r)' = Taken(r)
  BY <1>1, TakenUnmoved
<1>3. /\ n \in Nat /\ Len(Lengths) \in Nat /\ n < Len(Lengths) /\ widx = n % MaxChunks
      /\ \A r \in Readers : Taken(r) \in Nat /\ Taken(r) <= n /\ n < Taken(r) + MaxChunks
      /\ Current = n + 1 /\ n + 1 \in Messages
  BY <1>1, Lens DEF RingInv, Order, Busy, Current, Messages
<1>4. /\ log' \in Seq(Messages) /\ Len(log') = n + 1 /\ log'[n + 1] = n + 1
      /\ \A i \in 1 .. n : log'[i] = log[i]
  BY <1>1, <1>3 DEF RingTypeOK
<1>5. widx' = (n + 1) % MaxChunks /\ widx' \in Chunks
  BY <1>1, <1>3, ModFacts
<1>6. /\ written'[widx] /\ data[widx] = Held(n + 1)
      /\ \A r \in Readers : ~read[<<widx, r>>]
      /\ \A c \in Chunks : c # widx => written'[c] = written[c]
  <2>1. written'[widx] /\ \A c \in Chunks : c # widx => written'[c] = written[c]
    BY <1>1 DEF RingTypeOK
  <2>2. /\ data[widx] = Held(n + 1)
        /\ \A r \in Readers : r < cleared => ~read[<<widx, r>>]
    BY <1>1, <1>3 DEF RingInv, Overwritten
  <2>3. \A r \in Readers : r < cleared
    BY <1>1 DEF Readers
  <2> QED  BY <2>1, <2>2, <2>3
<1>7. ~Busy' /\ Busy /\ wpc' \in {"send", "poll"}
  BY <1>1 DEF Busy
<1> HIDE DEF n
<1>8. RingTypeOK'
  BY <1>1, <1>4, <1>5, <1>7 DEF RingTypeOK
<1>9. Order'
  <2>1. \A i \in 1 .. n + 1 : log'[i] = i
    <3>1. \A i \in 1 .. n : log[i] = i
      BY DEF RingInv, Order, n
    <3> QED  BY <1>3, <1>4, <3>1
  <2>2. wpc' = "send" => n + 1 > 0 /\ TooLarge(n + 1)
    BY <1>1, <1>3
  <2>3. ASSUME NEW r \in Readers
        PROVE  Len(obtained[r]) < n + 1
    <3>1. Len(obtained[r]) \in Nat
      BY <1>1, Lens
    <3>2. Taken(r) = Len(obtained[r]) \/ Taken(r) = Len(obtained[r]) + 1
      <4>1. CASE rpc[r] = "recv"
        BY <3>1, <4>1 DEF Taken
      <4>2. CASE rpc[r] # "recv"
        BY <3>1, <4>2 DEF Taken
      <4> QED  BY <4>1, <4>2
    <3> QED  BY <1>3, <3>1, <3>2, SMTT(40)
  <2>4. ASSUME NEW r \in Readers
        PROVE  /\ ridx[r] = Taken(r) % MaxChunks
               /\ Taken(r) <= n + 1 /\ n + 1 <= Taken(r) + MaxChunks
               /\ \A i \in 1 .. Len(obtained[r]) : obtained[r][i] = i
    <3>1. ridx[r] = Taken(r) % MaxChunks /\ \A i \in 1 .. Len(obtained[r]) : obtained[r][i] = i
      BY DEF RingInv, Order
    <3>2. Taken(r) <= n + 1 /\ n + 1 <= Taken(r) + MaxChunks
      BY <1>3
    <3> QED  BY <3>1, <3>2
  <2>5. n + 1 <= Len(Lengths)
    BY <1>3
  <2> QED  BY <1>1, <1>2, <1>4, <1>5, <1>7, <2>1, <2>2, <2>3, <2>4, <2>5 DEF Order, TooLarge
<1>10. Ring'
  <2>1. \A m \in Messages : Kept(m)' <=> m <= n + 1 /\ n + 1 < m + MaxChunks
    BY <1>1, <1>3, <1>4, <1>7, Lens DEF Kept
  <2>2. ASSUME NEW m \in Messages, m <= n + 1, n + 1 < m + MaxChunks
        PROVE  /\ written'[ChunkOf(m)] /\ data[ChunkOf(m)] = Held(m)
               /\ \A r \in Readers : read[<<ChunkOf(m), r>>] <=> Taken(r) >= m
    <3>1. m \in Nat \ {0}
      BY <1>1, Lens
    <3>2. CASE m = n + 1
      <4>1. ChunkOf(m) = widx
        BY <1>3, <3>2 DEF ChunkOf
      <4>2. \A r \in Readers : ~(Taken(r) >= m)
        BY <1>3, <3>2
      <4> QED  BY <1>6, <3>2, <4>1, <4>2
    <3>3. CASE m # n + 1
      <4>1. m <= n
        BY <1>3, <2>2, <3>1, <3>3
      <4>2. Kept(m)
        BY <1>3, <2>2, <3>1, <4>1 DEF Kept, n
      <4>3. ChunkOf(m) # widx /\ ChunkOf(m) \in Chunks
        BY <1>7, <4>2, Places
      <4> QED  BY <1>6, <4>2, <4>3 DEF RingInv, Ring
    <3> QED  BY <3>2, <3>3
  <2>3. ASSUME NEW c \in Chunks, c >= n + 1
        PROVE  ~written'[c] /\ \A r \in Readers : ~read[<<c, r>>]
    <3>1. c \in Nat /\ c < MaxChunks /\ c >= n
      BY <1>3, <2>3 DEF Chunks
    <3>2. ~written[c] /\ \A r \in Readers : ~read[<<c, r>>]
      BY <3>1 DEF RingInv, Ring, n
    <3>3. n < MaxChunks
      BY <1>3, <2>3, <3>1
    <3>4. c # widx
      <4>1. widx = n
        BY <1>3, <3>3, ModFacts
      <4> QED  BY <1>3, <2>3, <3>1, <4>1
    <3> QED  BY <1>6, <3>2, <3>4
  <2> QED  BY <1>1, <1>2, <1>4, <2>1, <2>2, <2>3 DEF Ring, Held, TooLarge, ChunkOf
<1>11. Overwritten'
  BY <1>7 DEF Overwritten, Busy
<1>12. Reading'
  <2> SUFFICES ASSUME NEW r \in Readers
               PROVE  /\ rpc[r] = "check" /\ ~read_flag[r] => Taken(r) < n + 1 \/ ~written'[ridx[r]]
                      /\ rpc[r] \in {"copy", "mark"} => Taken(r) < n + 1
                      /\ rpc[r] = "mark" => copy[r] = Held(Taken(r) + 1)
                      /\ rpc[r] = "recv" => TooLarge(Taken(r))
    BY <1>1, <1>2, <1>4 DEF Reading, Held, TooLarge
  <2>1. Taken(r) < n + 1
    BY <1>3
  <2> QED  BY <2>1 DEF RingInv, Reading
<1>13. Sockets'
  <2>1. \A r \in Readers, m \in Messages : NotYetObtained(r, m)' <=> NotYetObtained(r, m)
    <3> SUFFICES ASSUME NEW r \in Readers, NEW m \in Messages, TooLarge(m)
                 PROVE  (m <= n + 1 /\ (wpc' = "send" => m < n + 1)) <=> m <= n
      BY <1>1, <1>4 DEF NotYetObtained, TooLarge, n
    <3>1. m \in Nat
      BY <1>1, Lens
    <3>2. CASE wpc' = "send"
      BY <1>3, <3>1, <3>2
    <3>3. CASE wpc' # "send"
      <4>1. m # n + 1
        BY <1>1, <3>3
      <4> QED  BY <1>3, <3>1, <3>3, <4>1
    <3> QED  BY <3>2, <3>3
  <2>2. \A r \in Readers : \A i \in DOMAIN socket[r] : socket[r][i] \in Messages
    BY <1>1 DEF RingTypeOK
  <2> QED  BY <1>1, <2>1, <2>2 DEF RingInv, Sockets
<1> QED  BY <1>1, <1>3, <1>8, <1>9, <1>10, <1>11, <1>12, <1>13 DEF RingInv

LEMMA SendOverflowInv ==
  ASSUME RingInv, SendOverflow
  PROVE  RingInv'
<1> DEFINE n == Len(log)
<1>1. /\ wpc = "send" /\ wpc' = "poll" /\ RingTypeOK
      /\ socket' = [r \in Readers |-> Append(socket[r], n)]
      /\ UNCHANGED <<written, read, data, widx, cleared, log, rpc, ridx, read_flag, copy, obtained>>
  BY DEF RingInv, SendOverflow, readerVars
<1>2. \A r \in Readers : Taken(r)' = Taken(r)
  BY <1>1, TakenUnmoved
<1>3. /\ n \in Nat \ {0} /\ n \in Messages /\ TooLarge(n)
      /\ \A r \in Readers : Len(obtained[r]) < n
  BY <1>1, Lens DEF RingInv, Order, Messages
<1>4. ~Busy /\ ~Busy'
  BY <1>1 DEF Busy
<1>5. RingTypeOK'
  <2>1. \A r \in Readers : Append(socket[r], n) \in Seq(Messages)
    BY <1>1, <1>3 DEF RingTypeOK
  <2> QED  BY <1>1, <2>1 DEF RingTypeOK
<1>6. Order'
  BY <1>1, <1>2, <1>4 DEF RingInv, Order
<1>7. Ring'
  BY <1>1, <1>2, <1>4 DEF RingInv, Ring, Kept, Held, TooLarge, ChunkOf
<1>8. Overwritten' /\ Reading'
  BY <1>1, <1>2 DEF RingInv, Overwritten, Reading, Held, TooLarge
<1> HIDE DEF n
<1>9. Sockets'
  <2> SUFFICES ASSUME NEW r \in Readers
               PROVE  (/\ \A i, j \in DOMAIN socket[r] : i < j => socket[r][i] < socket[r][j]
                       /\ \A i \in DOMAIN socket[r] : NotYetObtained(r, socket[r][i])
                       /\ \A m \in Messages : NotYetObtained(r, m) => \E i \in DOMAIN socket[r] : socket[r][i] = m)'
    BY DEF Sockets
  <2> DEFINE k == Len(socket[r])
  <2>1. /\ k \in Nat /\ DOMAIN socket[r] = 1 .. k /\ DOMAIN socket'[r] = 1 .. k + 1
        /\ socket'[r][k + 1] = n
        /\ \A i \in 1 .. k : socket'[r][i] = socket[r][i] /\ socket[r][i] \in Messages
    BY <1>1, <1>3 DEF RingTypeOK
  <2> HIDE DEF k
  <2>2. \A m \in Messages : NotYetObtained(r, m)' <=> NotYetObtained(r, m) \/ m = n
    <3> SUFFICES ASSUME NEW m \in Messages
                 PROVE  (Len(obtained[r]) < m /\ m <= n /\ TooLarge(m))
                          <=> (Len(obtained[r]) < m /\ m <= n /\ TooLarge(m) /\ m < n) \/ m = n
      BY <1>1 DEF NotYetObtained, TooLarge, n
    <3>1. m \in Nat
      BY <1>1, Lens
    <3>2. CASE m = n
      BY <1>3, <3>1, <3>2
    <3>3. CASE m # n
      BY <1>3, <3>1, <3>3
    <3> QED  BY <3>2, <3>3
  <2>3. \A i \in 1 .. k : NotYetObtained(r, socket[r][i]) /\ socket[r][i] < n
    BY <1>1, <2>1 DEF RingInv, Sockets, NotYetObtained, n
  <2>4. ASSUME NEW i \in 1 .. k + 1, NEW j \in 1 .. k + 1, i < j
        PROVE  socket'[r][i] < socket'[r][j]
    <3>1. CASE j = k + 1
      <4>1. i \in 1 .. k
        BY <2>1, <2>4, <3>1
      <4> QED  BY <2>1, <2>3, <3>1, <4>1
    <3>2. CASE j # k + 1
      <4>1. i \in 1 .. k /\ j \in 1 .. k
        BY <2>1, <2>4, <3>2
      <4>2. socket[r][i] < socket[r][j]
        BY <2>1, <2>4, <4>1 DEF RingInv, Sockets
      <4> QED  BY <2>1, <4>1, <4>2
    <3> QED  BY <3>1, <3>2
  <2>5. ASSUME NEW m \in Messages, NotYetObtained(r, m) \/ m = n
        PROVE  \E i \in 1 .. k + 1 : socket'[r][i] = m
    <3>1. CASE m = n
      BY <2>1, <3>1
    <3>2. CASE NotYetObtained(r, m)
      <4>1. PICK i \in 1 .. k : socket[r][i] = m
        BY <2>1, <3>2 DEF RingInv, Sockets
      <4>2. i \in 1 .. k + 1 /\ socket'[r][i] = m
        BY <2>1, <4>1
      <4> QED  BY <4>2
    <3> QED  BY <2>5, <3>1, <3>2
  <2>6. \A i \in 1 .. k + 1 : /\ socket'[r][i] \in Messages
                              /\ NotYetObtained(r, socket'[r][i]) \/ socket'[r][i] = n
    <3>1. \A i \in 1 .. k + 1 : i \in 1 .. k \/ i = k + 1
      BY <2>1
    <3> QED  BY <1>3, <2>1, <2>3, <3>1
  <2> DEFINE AheadNext(m) == /\ Len(obtained[r]) < m /\ m <= Len(log) /\ TooLarge(m)
  <2>7. \A m \in Messages : AheadNext(m) <=> NotYetObtained(r, m) \/ m = n
    BY <1>1, <2>2 DEF NotYetObtained, TooLarge
  <2> HIDE DEF AheadNext
  <2>8. (\A i \in 1 .. k + 1 : AheadNext(socket'[r][i]))
        /\ \A m \in Messages : AheadNext(m) => \E i \in 1 .. k + 1 : socket'[r][i] = m
    BY <2>5, <2>6, <2>7
  <2> QED  BY <1>1, <2>1, <2>4, <2>8 DEF NotYetObtained, AheadNext, TooLarge
<1> QED  BY <1>5, <1>6, <1>7, <1>8, <1>9 DEF RingInv

-----------------------------------------------------------------------------
(* Every step keeps the invariant and is a step of the broadcast queue.     *)
LEMMA StepInv ==
  ASSUME RingInv, [RingNext]_ringVars
  PROVE  /\ RingInv'
         /\ [Queue!Next]_<<log, obtained>>
<1>1. CASE UNCHANGED ringVars
  <2>1. UNCHANGED <<log, obtained>> /\ UNCHANGED <<wpc, socket, written, read, data, widx, cleared>>
        /\ UNCHANGED <<rpc, ridx, read_flag, copy>>
    BY <1>1 DEF ringVars, writerVars, readerVars
  <2>2. /\ \A r \in Readers : Taken(r)' = Taken(r)
        /\ Order' /\ Ring' /\ Overwritten' /\ Sockets'
    BY <2>1, Unmoved
  <2>3. RingTypeOK'
    BY <2>1 DEF RingInv, RingTypeOK
  <2>4. Reading'
    BY <2>1, <2>2 DEF RingInv, Reading, Held, TooLarge
  <2> QED  BY <2>1, <2>2, <2>3, <2>4 DEF RingInv
<1>2. CASE FindBlock
  BY <1>2, FindBlockInv DEF FindBlock, readerVars
<1>3. CASE Unmark
  BY <1>3, UnmarkInv DEF Unmark, readerVars
<1>4. CASE WriteData
  BY <1>4, WriteDataInv DEF WriteData, readerVars
<1>5. CASE ClearFlag
  BY <1>5, ClearFlagInv DEF ClearFlag, readerVars
<1>6. CASE Publish
  BY <1>6, PublishInv DEF Queue!Next, Queue!Enqueue
<1>7. CASE SendOverflow
  BY <1>7, SendOverflowInv DEF SendOverflow, readerVars
<1>8. ASSUME NEW r \in Readers, LoadReadFlag(r)
      PROVE  RingInv' /\ UNCHANGED <<log, obtained>>
  BY <1>8, LoadReadFlagInv DEF LoadReadFlag, writerVars
<1>9. ASSUME NEW r \in Readers, LoadWrittenFlag(r)
      PROVE  RingInv' /\ UNCHANGED <<log, obtained>>
  BY <1>9, LoadWrittenFlagInv DEF LoadWrittenFlag, writerVars
<1>10. ASSUME NEW r \in Readers, CopyData(r)
       PROVE  RingInv' /\ UNCHANGED <<log, obtained>>
  BY <1>10, CopyDataInv DEF CopyData, writerVars
<1>11. ASSUME NEW r \in Readers, MarkRead(r)
       PROVE  RingInv' /\ [Queue!Next]_<<log, obtained>>
  BY <1>11, MarkReadInv DEF Queue!Next, Queue!Dequeue
<1>12. ASSUME NEW r \in Readers, ReceiveOverflow(r)
       PROVE  RingInv' /\ [Queue!Next]_<<log, obtained>>
  BY <1>12, ReceiveOverflowInv DEF Queue!Next, Queue!Dequeue
<1> QED
  BY <1>1, <1>2, <1>3, <1>4, <1>5, <1>6, <1>7, <1>8, <1>9, <1>10, <1>11, <1>12
     DEF RingNext, Writer, Reader

(* The ring and the counters agree in every reachable state.                *)
THEOREM RingInvariant == RingSpec => []RingInv
<1>1. RingInit => RingInv
  BY InitInv
<1>2. RingInv /\ [RingNext]_ringVars => RingInv'
  BY StepInv
<1> QED  BY <1>1, <1>2, PTL DEF RingSpec

(* While a reader copies a chunk or is about to mark it, the writer does    *)
(* not touch it (shm_broadcast.py, acquire_write and acquire_read), for any *)
(* numbers of readers and chunks and any objects.                           *)
THEOREM RingIsRaceFree == RingSpec => []NoRace
BY RingInvariant, RaceFree, PTL

(* The message queue is a broadcast: every reader dequeues what the writer  *)
(* enqueued, whole, once and in order, the objects that go over the socket  *)
(* in their place among those of the ring.                                  *)
THEOREM QueueIsBroadcast == RingSpec => ImplementsBroadcast
<1>1. RingInit => Queue!Init
  BY DEF RingInit, Queue!Init
<1>2. RingInv /\ [RingNext]_ringVars => [Queue!Next]_<<log, obtained>>
  BY StepInv
<1> QED  BY <1>1, <1>2, RingInvariant, PTL DEF RingSpec, Queue!Spec, ImplementsBroadcast

=============================================================================
