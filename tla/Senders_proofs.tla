---------------------------- MODULE Senders_proofs ----------------------------
(***************************************************************************)
(* What is sent in pieces.  Geri: the audio that a client of a stream has  *)
(* is its own and without a gap, for every batch, length and size of       *)
(* chunk.  A sending Sidecar, for every slab, number of workers and sets   *)
(* of destinations: no buffer is freed while somebody needs it when the    *)
(* destinations of a tensor are of one kind; no Unlink is refused and      *)
(* nothing is left of a tensor that is over when every worker has          *)
(* something to send.                                                      *)
(***************************************************************************)
EXTENDS SidecarSender, GeriEngine, FiniteSetTheorems, WellFoundedInduction, TLAPS

-----------------------------------------------------------------------------
(* Every request that is not answered is in one place, once.                *)
NoRepeat(s) == \A m, n \in DOMAIN s : s[m] = s[n] => m = n

OnePlace ==
  /\ NoRepeat(requests) /\ NoRepeat(queue) /\ NoRepeat(batch)
  /\ Range(requests) \cap Range(queue) = {} /\ Range(requests) \cap Range(batch) = {}
  /\ Range(queue) \cap Range(batch) = {}
  /\ \A r \in Requests : client[r] = "idle" =>
       r \notin Range(requests) /\ r \notin Range(queue) /\ r \notin Range(batch)

Alike ==
  /\ \A q, r \in Range(batch) : Params[q] = Params[r]
  /\ finished \subseteq Range(batch) /\ \A r \in finished : Length[r] <= start

(* The codes of a request from the first one on, and those of its next      *)
(* piece.                                                                   *)
Least(a, b) == IF a <= b THEN a ELSE b
FirstCodes(r, n) == [i \in 1 .. n |-> <<r, i>>]
NextAfter(r, a) == Least(a + Params[r].chunk_size, Length[r])
Upcoming(r, a) == [i \in 1 .. NextAfter(r, a) - a |-> <<r, a + i>>]

(* A line of responses is orderly for a request that has base codes when it *)
(* takes it, without a gap and without an overlap, to sent codes, and says  *)
(* that the stream has ended only after the last.                           *)
Says(x, r, status) == x.id = r /\ x.status = status

Brings(x, r, j) == Says(x, r, "success") /\ \E i \in DOMAIN x.piece : x.piece[i] = <<r, j>>

Had(line, r, base, j, n) == j <= base \/ \E m \in DOMAIN line : m < n /\ Brings(line[m], r, j)

InTurn(line, r, base, n) ==
  /\ Says(line[n], r, "success") =>
       \E a \in 0 .. Length[r] - 1 :
         /\ line[n].piece = Upcoming(r, a)
         /\ \A j \in 1 .. Length[r] : Had(line, r, base, j, n) <=> j <= a
  /\ Says(line[n], r, "finished") => \A j \in 1 .. Length[r] : Had(line, r, base, j, n)

Orderly(line, r, base, sent) ==
  /\ \A n \in DOMAIN line : InTurn(line, r, base, n)
  /\ \A j \in 1 .. Length[r] : Had(line, r, base, j, Len(line) + 1) <=> j <= sent

(* How far the engine is with a request, and how far its client.            *)
SentIs(r, sent) ==
  /\ r \in Range(requests) \cup Range(queue) => sent = 0
  /\ r \in Range(batch) => sent = Least(start, Length[r])

GotIs(pieces, r, base) ==
  /\ FlattenSeq(pieces) = FirstCodes(r, base)
  /\ \A i \in DOMAIN pieces :
       /\ pieces[i] # <<>> /\ Len(pieces[i]) <= Params[r].chunk_size
       /\ i < Len(pieces) \/ base < Length[r] => Len(pieces[i]) = Params[r].chunk_size

LineIs(r, base) ==
  \E mid, sent \in 0 .. Length[r] :
    Orderly(stream[r], r, base, mid) /\ Orderly(responses, r, mid, sent) /\ SentIs(r, sent)

StreamIs(r) ==
  /\ \E base \in 0 .. Length[r] :
       /\ GotIs(got[r], r, base)
       /\ client[r] = "finished" => base = Length[r]
       /\ client[r] = "waiting" => LineIs(r, base)
  /\ client[r] = "waiting" => r \in pending
  /\ client[r] = "idle" =>
       got[r] = <<>> /\ stream[r] = <<>> /\ \A n \in DOMAIN responses : responses[n].id # r
  /\ \A n \in DOMAIN stream[r] : stream[r][n].id = r

Streams == geri_mode = "streaming" => \A r \in Requests : StreamIs(r)

(* In the other mode a request has one response.                            *)
Batched ==
  geri_mode = "batch" =>
    /\ \A n \in DOMAIN responses :
         /\ responses[n].status = "success" => responses[n].piece = Codes(responses[n].id)
         /\ responses[n].status # "finished"
    /\ \A r \in Requests :
         /\ stream[r] = <<>> /\ (r \in pending <=> client[r] = "waiting")
         /\ got[r] = IF client[r] = "finished" THEN <<Codes(r)>> ELSE <<>>
         /\ client[r] # "gone"

GeriInv == GeriTypeOK /\ OnePlace /\ Alike /\ Streams /\ Batched

-----------------------------------------------------------------------------
(* A sequence that grows or shrinks at an end.                              *)
LEMMA AppendIs ==
  ASSUME NEW S, NEW s \in Seq(S), NEW e \in S
  PROVE  /\ Append(s, e) \in Seq(S)
         /\ Range(Append(s, e)) = Range(s) \cup {e}
         /\ NoRepeat(s) /\ e \notin Range(s) => NoRepeat(Append(s, e))
<1> DEFINE t == Append(s, e)
           l == Len(s)
<1>1. l \in Nat /\ DOMAIN s = 1 .. l /\ t \in Seq(S)
  OBVIOUS
<1>2. DOMAIN t = 1 .. l + 1 /\ t[l + 1] = e /\ \A n \in 1 .. l : t[n] = s[n]
  OBVIOUS
<1> HIDE DEF t, l
<1>3. \A n \in 1 .. l + 1 : n = l + 1 \/ n \in 1 .. l
  BY <1>1
<1>4. l + 1 \in 1 .. l + 1 /\ \A n \in 1 .. l : n \in 1 .. l + 1
  BY <1>1
<1>5. Range(t) = Range(s) \cup {e}
  BY <1>1, <1>2, <1>3, <1>4 DEF Range
<1>6. ASSUME NoRepeat(s), e \notin Range(s) PROVE NoRepeat(t)
  <2>1. \A n \in 1 .. l : s[n] # e
    BY <1>1, <1>6 DEF Range
  <2> QED  BY <1>1, <1>2, <1>3, <1>6, <2>1 DEF NoRepeat
<1> QED  BY <1>1, <1>5, <1>6 DEF t

LEMMA HeadTailIs ==
  ASSUME NEW S, NEW s \in Seq(S), s # <<>>
  PROVE  /\ Head(s) \in S /\ Tail(s) \in Seq(S)
         /\ Range(s) = Range(Tail(s)) \cup {Head(s)}
         /\ \A n \in DOMAIN Tail(s) : n + 1 \in DOMAIN s /\ Tail(s)[n] = s[n + 1]
         /\ NoRepeat(s) => NoRepeat(Tail(s)) /\ Head(s) \notin Range(Tail(s))
<1> DEFINE t == Tail(s)
           l == Len(s)
<1>1. l \in Nat \ {0} /\ DOMAIN s = 1 .. l /\ t \in Seq(S) /\ Head(s) = s[1] /\ Head(s) \in S
  OBVIOUS
<1>2. DOMAIN t = 1 .. l - 1 /\ \A n \in 1 .. l - 1 : t[n] = s[n + 1]
  OBVIOUS
<1> HIDE DEF t, l
<1>3. /\ 1 \in 1 .. l
      /\ \A n \in 1 .. l - 1 : n + 1 \in 1 .. l /\ n + 1 # 1
      /\ \A n \in 1 .. l : n = 1 \/ (n - 1 \in 1 .. l - 1 /\ n = (n - 1) + 1)
      /\ \A m, n \in 1 .. l - 1 : m + 1 = n + 1 => m = n
  BY <1>1
<1>4. Range(s) = Range(t) \cup {Head(s)}
  <2>1. \A n \in 1 .. l : s[n] = Head(s) \/ \E m \in 1 .. l - 1 : t[m] = s[n]
    <3>1. ASSUME NEW n \in 1 .. l, n # 1 PROVE \E m \in 1 .. l - 1 : t[m] = s[n]
      <4>1. n - 1 \in 1 .. l - 1 /\ n = (n - 1) + 1
        BY <1>3, <3>1
      <4> QED  BY <1>2, <4>1
    <3> QED  BY <1>1, <3>1
  <2>2. \A n \in 1 .. l - 1 : \E m \in 1 .. l : s[m] = t[n]
    BY <1>2, <1>3
  <2>3. Range(s) = { s[n] : n \in 1 .. l } /\ Range(t) = { t[n] : n \in 1 .. l - 1 }
    BY <1>1, <1>2 DEF Range
  <2>4. Head(s) \in Range(s)
    BY <1>1, <1>3, <2>3
  <2>5. Range(s) \subseteq Range(t) \cup {Head(s)}
    BY <2>1, <2>3
  <2>6. Range(t) \subseteq Range(s)
    BY <2>2, <2>3
  <2> QED  BY <2>4, <2>5, <2>6
<1>5. ASSUME NoRepeat(s) PROVE NoRepeat(t) /\ Head(s) \notin Range(t)
  <2>1. NoRepeat(t)
    <3>1. ASSUME NEW m \in 1 .. l - 1, NEW n \in 1 .. l - 1, t[m] = t[n] PROVE m = n
      <4>1. s[m + 1] = s[n + 1] /\ m + 1 \in DOMAIN s /\ n + 1 \in DOMAIN s
        BY <1>1, <1>2, <1>3, <3>1
      <4> QED  BY <1>3, <1>5, <4>1 DEF NoRepeat
    <3> QED  BY <1>2, <3>1 DEF NoRepeat
  <2>2. ASSUME NEW n \in 1 .. l - 1 PROVE t[n] # s[1]
    <3>1. n + 1 \in DOMAIN s /\ 1 \in DOMAIN s /\ n + 1 # 1 /\ t[n] = s[n + 1]
      BY <1>1, <1>2, <1>3
    <3> QED  BY <1>5, <3>1 DEF NoRepeat
  <2> QED  BY <1>1, <1>2, <2>1, <2>2 DEF Range
<1> QED  BY <1>1, <1>2, <1>3, <1>4, <1>5 DEF t

-----------------------------------------------------------------------------
(* What a loop that keeps part of a sequence leaves. *)
Keeps(f, q, ids, m) ==
  f[0] = <<>> /\ \A n \in 1 .. m : f[n] = IF q[n] \in ids THEN f[n - 1] ELSE Append(f[n - 1], q[n])

LEMMA LeastExists ==
  ASSUME NEW T, T \subseteq Nat, T # {}
  PROVE  \E m \in T : \A n \in T : m <= n
<1> DEFINE R == { ss \in Nat \X Nat : ss[1] < ss[2] }
<1>1. IsWellFoundedOn(R, Nat)
  BY NatLessThanWellFounded DEF OpToRel
<1>2. \A a, b \in Nat : a < b => <<a, b>> \in R
  OBVIOUS
<1> HIDE DEF R
<1>3. PICK m \in T : \A n \in T : ~(<<n, m>> \in R)
  BY <1>1, WFMin
<1>4. ASSUME NEW n \in T PROVE m <= n
  <2>1. m \in Nat /\ n \in Nat
    OBVIOUS
  <2>2. ~(n < m)
    BY <1>2, <1>3, <2>1
  <2> QED  BY <2>1, <2>2
<1> QED  BY <1>4

LEMMA KeepsHolds ==
  ASSUME NEW S, NEW q \in Seq(S), NEW ids
  PROVE  \E f \in [0 .. Len(q) -> Seq(S)] : Keeps(f, q, ids, Len(q))
<1> DEFINE T == { m \in 0 .. Len(q) : ~\E f \in [0 .. m -> Seq(S)] : Keeps(f, q, ids, m) }
<1>1. Len(q) \in Nat /\ \A n \in 1 .. Len(q) : q[n] \in S
  OBVIOUS
<1>2. SUFFICES ASSUME T # {} PROVE FALSE
  BY <1>1
<1>3. PICK m \in T : \A n \in T : m <= n
  <2>1. T \subseteq Nat
    BY <1>1
  <2> HIDE DEF T
  <2> QED  BY <1>2, <2>1, LeastExists
<1>4. m # 0
  <2>1. Keeps([n \in 0 .. 0 |-> <<>>], q, ids, 0)
    BY DEF Keeps
  <2>2. [n \in 0 .. 0 |-> <<>>] \in [0 .. 0 -> Seq(S)]
    OBVIOUS
  <2> QED  BY <2>1, <2>2
<1>5. m - 1 \in 0 .. Len(q) /\ m - 1 \notin T /\ m \in 1 .. Len(q)
  <2>1. m \in 0 .. Len(q)
    OBVIOUS
  <2>2. m - 1 \in 0 .. Len(q) /\ m \in 1 .. Len(q) /\ ~(m <= m - 1)
    BY <1>1, <1>4, <2>1
  <2> HIDE DEF T
  <2> QED  BY <1>3, <2>2
<1>6. PICK f \in [0 .. m - 1 -> Seq(S)] : Keeps(f, q, ids, m - 1)
  BY <1>5
<1> DEFINE next == IF q[m] \in ids THEN f[m - 1] ELSE Append(f[m - 1], q[m])
           g == [n \in 0 .. m |-> IF n = m THEN next ELSE f[n]]
<1>7. /\ m \in Nat /\ m - 1 \in 0 .. m - 1 /\ 0 \in 0 .. m - 1
      /\ \A n \in 1 .. m : n = m \/ n \in 1 .. m - 1
      /\ \A n \in 1 .. m - 1 : n \in 0 .. m - 1 /\ n - 1 \in 0 .. m - 1
      /\ \A n \in 0 .. m - 1 : n \in 0 .. m /\ n # m
      /\ \A n \in 0 .. m : n = m \/ n \in 0 .. m - 1
      /\ m \in 0 .. m
  BY <1>1, <1>5
<1>8. next \in Seq(S)
  BY <1>1, <1>5, <1>6, <1>7
<1> HIDE DEF next
<1>9. g \in [0 .. m -> Seq(S)]
  BY <1>7, <1>8
<1>10. g[m] = next /\ \A n \in 0 .. m - 1 : g[n] = f[n]
  BY <1>7
<1> HIDE DEF g
<1>11. Keeps(g, q, ids, m)
  <2>1. g[0] = <<>>
    BY <1>6, <1>7, <1>10 DEF Keeps
  <2>2. g[m] = IF q[m] \in ids THEN g[m - 1] ELSE Append(g[m - 1], q[m])
    BY <1>7, <1>10 DEF next
  <2>3. \A n \in 1 .. m - 1 : g[n] = IF q[n] \in ids THEN g[n - 1] ELSE Append(g[n - 1], q[n])
    BY <1>6, <1>7, <1>10 DEF Keeps
  <2> QED  BY <1>7, <2>1, <2>2, <2>3 DEF Keeps
<1> QED  BY <1>3, <1>9, <1>11

LEMMA WithoutIs ==
  ASSUME NEW S, NEW q \in Seq(S), NEW ids
  PROVE  /\ Without(q, ids) \in Seq(S)
         /\ Range(Without(q, ids)) = Range(q) \ ids
         /\ NoRepeat(q) => NoRepeat(Without(q, ids))
<1> DEFINE Is(f) == f = [n \in 0 .. Len(q) |-> IF n = 0 THEN <<>>
                           ELSE IF q[n] \in ids THEN f[n - 1] ELSE Append(f[n - 1], q[n])]
           F == CHOOSE f : Is(f)
<1>1. Len(q) \in Nat /\ DOMAIN q = 1 .. Len(q) /\ \A n \in 1 .. Len(q) : q[n] \in S
  OBVIOUS
<1>2. PICK f \in [0 .. Len(q) -> Seq(S)] : Keeps(f, q, ids, Len(q))
  BY KeepsHolds
<1>3. Is(f)
  <2>1. \A n \in 0 .. Len(q) : n = 0 \/ n \in 1 .. Len(q)
    BY <1>1
  <2>2. \A n \in 0 .. Len(q) :
          f[n] = IF n = 0 THEN <<>>
                 ELSE IF q[n] \in ids THEN f[n - 1] ELSE Append(f[n - 1], q[n])
    BY <1>2, <2>1 DEF Keeps
  <2> QED  BY <2>2
<1>4. Is(F)
  BY <1>3
<1>5. Without(q, ids) = F[Len(q)]
  BY DEF Without
<1> HIDE DEF F
<1>6. \A n \in 0 .. Len(q) :
        F[n] = IF n = 0 THEN <<>>
               ELSE IF q[n] \in ids THEN F[n - 1] ELSE Append(F[n - 1], q[n])
  BY <1>4, Zenon
<1> HIDE DEF Is
<1> DEFINE Upto(n) == { q[m] : m \in 1 .. n }
           Good(n) == /\ F[n] \in Seq(S) /\ Range(F[n]) = Upto(n) \ ids
                      /\ NoRepeat(q) => NoRepeat(F[n])
           T == { n \in 0 .. Len(q) : ~Good(n) }
<1>7. Good(0)
  <2>1. F[0] = <<>>
    BY <1>1, <1>6
  <2>2. <<>> \in Seq(S) /\ Range(<<>>) = {} /\ NoRepeat(<<>>) /\ Upto(0) = {}
    BY DEF Range, NoRepeat
  <2> QED  BY <2>1, <2>2
<1>8. ASSUME NEW n \in 1 .. Len(q), Good(n - 1) PROVE Good(n)
  <2>1. F[n] = IF q[n] \in ids THEN F[n - 1] ELSE Append(F[n - 1], q[n])
    <3>1. n \in 0 .. Len(q) /\ n # 0
      BY <1>1
    <3> QED  BY <1>6, <3>1
  <2>2. Upto(n) = Upto(n - 1) \cup {q[n]}
    <3>1. /\ n \in 1 .. n /\ \A m \in 1 .. n : m = n \/ m \in 1 .. n - 1
          /\ \A m \in 1 .. n - 1 : m \in 1 .. n
      BY <1>1
    <3> QED  BY <3>1
  <2>3. NoRepeat(q) => q[n] \notin Upto(n - 1)
    <3>1. \A m \in 1 .. n - 1 : m \in 1 .. Len(q) /\ m # n
      BY <1>1
    <3> QED  BY <1>1, <3>1 DEF NoRepeat
  <2> HIDE DEF Upto
  <2>4. CASE q[n] \in ids
    BY <1>8, <2>1, <2>2, <2>4
  <2>5. CASE q[n] \notin ids
    <3>1. q[n] \in S
      BY <1>1
    <3>2. /\ F[n] \in Seq(S) /\ Range(F[n]) = Range(F[n - 1]) \cup {q[n]}
          /\ NoRepeat(F[n - 1]) /\ q[n] \notin Range(F[n - 1]) => NoRepeat(F[n])
      BY <1>8, <2>1, <2>5, <3>1, AppendIs
    <3> QED  BY <1>8, <2>2, <2>3, <2>5, <3>2
  <2> QED  BY <2>4, <2>5
<1> HIDE DEF Good
<1>9. T = {}
  <2> SUFFICES ASSUME T # {} PROVE FALSE
    OBVIOUS
  <2>1. T \subseteq Nat
    BY <1>1
  <2>2. PICK n \in T : \A m \in T : n <= m
    <3> HIDE DEF T
    <3> QED  BY <2>1, LeastExists
  <2>3. n # 0
    BY <1>7, <2>2
  <2>4. n \in 1 .. Len(q) /\ n - 1 \in 0 .. Len(q) /\ n - 1 \notin T
    BY <1>1, <2>2, <2>3
  <2> QED  BY <1>8, <2>2, <2>4
<1>10. Good(Len(q))
  BY <1>1, <1>9
<1>11. Upto(Len(q)) = Range(q)
  BY <1>1 DEF Range
<1> QED  BY <1>5, <1>10, <1>11 DEF Good

-----------------------------------------------------------------------------
(* What a client has, when one more piece comes.                            *)
Flattens(f, s, m) == \A i \in 1 .. m : f[i] = IF i = 1 THEN s[i] ELSE f[i - 1] \o s[i]

LEMMA FlattenIs ==
  ASSUME NEW S, NEW s \in Seq(Seq(S)), s # <<>>,
         NEW f \in [1 .. Len(s) -> Seq(S)], Flattens(f, s, Len(s))
  PROVE  FlattenSeq(s) = f[Len(s)]
<1> DEFINE Is(g) == g = [i \in 1 .. Len(s) |-> IF i = 1 THEN s[i] ELSE g[i - 1] \o s[i]]
           F == CHOOSE g : Is(g)
           T == { i \in 1 .. Len(s) : F[i] # f[i] }
<1>1. Len(s) \in Nat \ {0}
  OBVIOUS
<1>2. Is(f)
  BY DEF Flattens
<1>3. Is(F)
  BY <1>2
<1>4. FlattenSeq(s) = F[Len(s)]
  BY <1>1 DEF FlattenSeq
<1> HIDE DEF F
<1>5. \A i \in 1 .. Len(s) : F[i] = IF i = 1 THEN s[i] ELSE F[i - 1] \o s[i]
  BY <1>3, Zenon
<1> HIDE DEF Is
<1>6. T = {}
  <2> SUFFICES ASSUME T # {} PROVE FALSE
    OBVIOUS
  <2>1. T \subseteq Nat
    BY <1>1
  <2>2. PICK n \in T : \A m \in T : n <= m
    <3> HIDE DEF T
    <3> QED  BY <2>1, LeastExists
  <2>3. n \in 1 .. Len(s) /\ F[n] # f[n] /\ n \in Nat
    BY <2>1, <2>2
  <2>4. CASE n = 1
    BY <1>5, <2>3, <2>4 DEF Flattens
  <2>5. CASE n # 1
    <3>1. n - 1 \in 1 .. Len(s) /\ ~(n <= n - 1)
      BY <1>1, <2>3, <2>5
    <3>2. F[n - 1] = f[n - 1]
      BY <2>2, <3>1
    <3> QED  BY <1>5, <2>3, <2>5, <3>2 DEF Flattens
  <2> QED  BY <2>4, <2>5
<1>7. Len(s) \in 1 .. Len(s)
  BY <1>1
<1> QED  BY <1>4, <1>6, <1>7

LEMMA FlattensHolds ==
  ASSUME NEW S, NEW s \in Seq(Seq(S))
  PROVE  \E f \in [1 .. Len(s) -> Seq(S)] : Flattens(f, s, Len(s))
<1> DEFINE T == { m \in 0 .. Len(s) : ~\E f \in [1 .. m -> Seq(S)] : Flattens(f, s, m) }
<1>1. Len(s) \in Nat /\ \A n \in 1 .. Len(s) : s[n] \in Seq(S)
  OBVIOUS
<1>2. SUFFICES ASSUME T # {} PROVE FALSE
  BY <1>1
<1>3. PICK m \in T : \A n \in T : m <= n
  <2>1. T \subseteq Nat
    BY <1>1
  <2> HIDE DEF T
  <2> QED  BY <1>2, <2>1, LeastExists
<1>4. m # 0
  <2>1. Flattens([n \in 1 .. 0 |-> <<>>], s, 0)
    BY DEF Flattens
  <2>2. [n \in 1 .. 0 |-> <<>>] \in [1 .. 0 -> Seq(S)]
    OBVIOUS
  <2> QED  BY <2>1, <2>2
<1>5. m - 1 \in 0 .. Len(s) /\ m - 1 \notin T /\ m \in 1 .. Len(s)
  <2>1. m \in 0 .. Len(s)
    OBVIOUS
  <2>2. m - 1 \in 0 .. Len(s) /\ m \in 1 .. Len(s) /\ ~(m <= m - 1)
    BY <1>1, <1>4, <2>1
  <2> HIDE DEF T
  <2> QED  BY <1>3, <2>2
<1>6. PICK f \in [1 .. m - 1 -> Seq(S)] : Flattens(f, s, m - 1)
  BY <1>5
<1> DEFINE next == IF m = 1 THEN s[m] ELSE f[m - 1] \o s[m]
           g == [n \in 1 .. m |-> IF n = m THEN next ELSE f[n]]
<1>7. /\ m \in Nat /\ m # 1 => m - 1 \in 1 .. m - 1
      /\ \A n \in 1 .. m : n = m \/ n \in 1 .. m - 1
      /\ \A n \in 1 .. m - 1 : n \in 1 .. m /\ n # m /\ (n # 1 => n - 1 \in 1 .. m - 1)
      /\ m \in 1 .. m /\ m \in 1 .. Len(s)
  BY <1>1, <1>5
<1>8. next \in Seq(S)
  <2>1. s[m] \in Seq(S)
    BY <1>1, <1>7
  <2>2. m # 1 => f[m - 1] \in Seq(S)
    BY <1>6, <1>7
  <2> QED  BY <2>1, <2>2
<1> HIDE DEF next
<1>9. g \in [1 .. m -> Seq(S)]
  BY <1>7, <1>8
<1>10. g[m] = next /\ \A n \in 1 .. m - 1 : g[n] = f[n]
  BY <1>7
<1> HIDE DEF g
<1>11. Flattens(g, s, m)
  <2>1. g[m] = IF m = 1 THEN s[m] ELSE g[m - 1] \o s[m]
    <3>1. CASE m = 1
      BY <1>10, <3>1 DEF next
    <3>2. CASE m # 1
      <4>1. g[m - 1] = f[m - 1]
        BY <1>7, <1>10, <3>2
      <4> QED  BY <1>10, <3>2, <4>1 DEF next
    <3> QED  BY <3>1, <3>2
  <2>2. \A n \in 1 .. m - 1 : g[n] = IF n = 1 THEN s[n] ELSE g[n - 1] \o s[n]
    BY <1>6, <1>7, <1>10 DEF Flattens
  <2> QED  BY <1>7, <2>1, <2>2 DEF Flattens
<1> QED  BY <1>3, <1>9, <1>11

LEMMA FlattenAppend ==
  ASSUME NEW S, NEW s \in Seq(Seq(S)), NEW e \in Seq(S)
  PROVE  /\ FlattenSeq(Append(s, e)) = FlattenSeq(s) \o e
         /\ FlattenSeq(s) \in Seq(S) /\ FlattenSeq(<<>>) = <<>>
<1> DEFINE t == Append(s, e)
           l == Len(s)
<1>1. l \in Nat /\ t \in Seq(Seq(S)) /\ Len(t) = l + 1 /\ t # <<>> /\ t[l + 1] = e
      /\ \A i \in 1 .. l : t[i] = s[i]
  <2>1. l \in Nat /\ t \in Seq(Seq(S)) /\ Len(t) = l + 1 /\ t[l + 1] = e
    OBVIOUS
  <2>2. \A i \in 1 .. l : t[i] = s[i]
    OBVIOUS
  <2>3. t # <<>>
    <3> HIDE DEF t, l
    <3> QED  BY <2>1
  <2> QED  BY <2>1, <2>2, <2>3
<1>2. PICK f \in [1 .. l -> Seq(S)] : Flattens(f, s, l)
  BY FlattensHolds
<1>3. FlattenSeq(<<>>) = <<>>
  BY DEF FlattenSeq
<1>4. s = <<>> \/ (l # 0 /\ l \in 1 .. l /\ FlattenSeq(s) = f[l] /\ f[l] \in Seq(S))
  <2> SUFFICES ASSUME s # <<>> PROVE l # 0 /\ l \in 1 .. l /\ FlattenSeq(s) = f[l] /\ f[l] \in Seq(S)
    OBVIOUS
  <2>1. l # 0 /\ l \in 1 .. l
    BY <1>1
  <2> QED  BY <1>2, <2>1, FlattenIs
<1>5. FlattenSeq(s) \in Seq(S) /\ (l = 0 <=> s = <<>>)
  BY <1>1, <1>3, <1>4
<1> DEFINE next == FlattenSeq(s) \o e
           g == [i \in 1 .. l + 1 |-> IF i = l + 1 THEN next ELSE f[i]]
<1>6. next \in Seq(S) /\ (s = <<>> => next = e)
  BY <1>3, <1>5
<1> HIDE DEF next
<1>7. /\ l + 1 \in 1 .. l + 1 /\ \A i \in 1 .. l + 1 : i = l + 1 \/ i \in 1 .. l
      /\ \A i \in 1 .. l : i # l + 1 /\ i \in 1 .. l + 1 /\ (i # 1 => i - 1 \in 1 .. l)
      /\ (l + 1) - 1 = l
  BY <1>1
<1>8. g[l + 1] = next /\ (\A i \in 1 .. l : g[i] = f[i]) /\ g \in [1 .. l + 1 -> Seq(S)]
  BY <1>2, <1>6, <1>7
<1> HIDE DEF g
<1>9. Flattens(g, t, l + 1)
  <2>1. g[l + 1] = IF l + 1 = 1 THEN t[l + 1] ELSE g[(l + 1) - 1] \o t[l + 1]
    <3>1. CASE s = <<>>
      BY <1>1, <1>5, <1>6, <1>8, <3>1
    <3>2. CASE s # <<>>
      <4>1. g[l] = FlattenSeq(s) /\ l + 1 # 1
        BY <1>1, <1>4, <1>8, <3>2
      <4> QED  BY <1>1, <1>7, <1>8, <4>1 DEF next
    <3> QED  BY <3>1, <3>2
  <2>2. \A i \in 1 .. l : g[i] = IF i = 1 THEN t[i] ELSE g[i - 1] \o t[i]
    BY <1>1, <1>2, <1>7, <1>8 DEF Flattens
  <2> QED  BY <1>7, <2>1, <2>2 DEF Flattens
<1> HIDE DEF t, l
<1>10. FlattenSeq(t) = next
  BY <1>1, <1>8, <1>9, FlattenIs
<1> QED  BY <1>3, <1>5, <1>10 DEF next, t

-----------------------------------------------------------------------------
(* Lines of responses.                                                      *)
LEMMA RequestIs ==
  ASSUME NEW r \in Requests
  PROVE  /\ Length[r] \in Nat \ {0}
         /\ Params[r].chunk_size \in Nat \ {0} /\ Params[r].left_context_size \in Nat
BY GeriAssumption

LEMMA PieceIs ==
  ASSUME NEW r \in Requests, NEW a \in 0 .. Length[r] - 1
  PROVE  /\ NextAfter(r, a) \in a + 1 .. Length[r]
         /\ NextAfter(r, a) - a \in 1 .. Params[r].chunk_size
         /\ NextAfter(r, a) < Length[r] => NextAfter(r, a) - a = Params[r].chunk_size
         /\ Upcoming(r, a) \in Seq(Requests \X Nat)
         /\ Len(Upcoming(r, a)) = NextAfter(r, a) - a /\ Upcoming(r, a) # <<>>
         /\ \A j \in Nat : (\E i \in DOMAIN Upcoming(r, a) : Upcoming(r, a)[i] = <<r, j>>)
                             <=> j \in a + 1 .. NextAfter(r, a)
<1> DEFINE n == NextAfter(r, a)
           L == Length[r]
<1>1. L \in Nat \ {0} /\ a \in Nat /\ a < L
  BY RequestIs
<1>2. n \in a + 1 .. L /\ n - a \in 1 .. Params[r].chunk_size /\ (n < L => n - a = Params[r].chunk_size)
  BY <1>1, RequestIs DEF NextAfter, Least
<1> HIDE DEF n, L
<1>3. n \in Nat /\ n - a \in Nat \ {0} /\ \A i \in 1 .. n - a : a + i \in Nat /\ a + i \in a + 1 .. n
  BY <1>1, <1>2
<1>4. Upcoming(r, a) = [i \in 1 .. n - a |-> <<r, a + i>>]
  BY DEF Upcoming, n
<1>5. Upcoming(r, a) \in Seq(Requests \X Nat) /\ Len(Upcoming(r, a)) = n - a
  BY <1>3, <1>4
<1>6. Upcoming(r, a) # <<>>
  BY <1>3, <1>5
<1>7. ASSUME NEW j \in Nat
      PROVE  (\E i \in DOMAIN Upcoming(r, a) : Upcoming(r, a)[i] = <<r, j>>) <=> j \in a + 1 .. n
  <2>1. ASSUME NEW i \in 1 .. n - a, <<r, a + i>> = <<r, j>> PROVE j \in a + 1 .. n
    BY <1>3, <2>1
  <2>2. ASSUME j \in a + 1 .. n PROVE j - a \in 1 .. n - a /\ <<r, a + (j - a)>> = <<r, j>>
    BY <1>1, <1>3, <2>2
  <2> QED  BY <1>4, <2>1, <2>2
<1> QED  BY <1>2, <1>5, <1>6, <1>7 DEF n, L

LEMMA BringsIs ==
  ASSUME NEW r \in Requests, NEW a \in 0 .. Length[r] - 1, NEW x,
         Says(x, r, "success"), x.piece = Upcoming(r, a), NEW j \in 1 .. Length[r]
  PROVE  Brings(x, r, j) <=> a < j /\ j <= NextAfter(r, a)
<1>1. j \in Nat /\ a \in Nat /\ NextAfter(r, a) \in Nat
  BY PieceIs, RequestIs
<1>2. Brings(x, r, j) <=> j \in a + 1 .. NextAfter(r, a)
  BY <1>1, PieceIs DEF Brings
<1> QED  BY <1>1, <1>2

LEMMA UntoldIs ==
  ASSUME NEW S, NEW line \in Seq(S), NEW r \in Requests, NEW base \in Nat,
         \A n \in DOMAIN line : line[n].id # r
  PROVE  Orderly(line, r, base, base)
BY DEF Orderly, InTurn, Had, Says, Brings

(* The head of an orderly line is taken from it.                            *)
LEMMA HadTail ==
  ASSUME NEW S, NEW line \in Seq(S), line # <<>>, NEW r, NEW base \in Nat, NEW next \in Nat,
         NEW j \in Nat, j <= next <=> j <= base \/ Brings(Head(line), r, j),
         NEW n \in 1 .. Len(line)
  PROVE  Had(Tail(line), r, next, j, n) <=> Had(line, r, base, j, n + 1)
<1>1. /\ Len(line) \in Nat /\ DOMAIN line = 1 .. Len(line) /\ Head(line) = line[1] /\ 1 \in DOMAIN line
      /\ DOMAIN Tail(line) = 1 .. Len(line) - 1
      /\ \A m \in 1 .. Len(line) - 1 : Tail(line)[m] = line[m + 1]
  <2>1. /\ Len(line) \in Nat \ {0} /\ DOMAIN line = 1 .. Len(line) /\ Head(line) = line[1]
        /\ DOMAIN Tail(line) = 1 .. Len(line) - 1
    OBVIOUS
  <2>2. \A m \in 1 .. Len(line) - 1 : Tail(line)[m] = line[m + 1]
    OBVIOUS
  <2> QED  BY <2>1, <2>2
<1>2. ASSUME Had(Tail(line), r, next, j, n) PROVE Had(line, r, base, j, n + 1)
  <2>1. CASE j <= next
    BY <1>1, <2>1 DEF Had
  <2>2. CASE ~(j <= next)
    <3>1. PICK m \in DOMAIN Tail(line) : m < n /\ Brings(Tail(line)[m], r, j)
      BY <1>2, <2>2 DEF Had
    <3>2. m + 1 \in DOMAIN line /\ m + 1 < n + 1 /\ Brings(line[m + 1], r, j)
      BY <1>1, <3>1
    <3> QED  BY <3>2 DEF Had
  <2> QED  BY <2>1, <2>2
<1>3. ASSUME Had(line, r, base, j, n + 1) PROVE Had(Tail(line), r, next, j, n)
  <2> SUFFICES ASSUME ~(j <= next) PROVE Had(Tail(line), r, next, j, n)
    BY DEF Had
  <2>1. PICK m \in DOMAIN line : m < n + 1 /\ Brings(line[m], r, j)
    BY <1>3 DEF Had
  <2>2. m # 1
    BY <1>1, <2>1
  <2>3. m - 1 \in DOMAIN Tail(line) /\ m - 1 < n /\ Tail(line)[m - 1] = line[m]
    BY <1>1, <2>1, <2>2
  <2> QED  BY <2>1, <2>3 DEF Had
<1> QED  BY <1>2, <1>3

LEMMA OrderlyTail ==
  ASSUME NEW S, NEW line \in Seq(S), line # <<>>, NEW r \in Requests,
         NEW base \in 0 .. Length[r], NEW sent \in 0 .. Length[r], Orderly(line, r, base, sent)
  PROVE  /\ Says(Head(line), r, "success") =>
              /\ base < Length[r] /\ Head(line).piece = Upcoming(r, base)
              /\ Orderly(Tail(line), r, NextAfter(r, base), sent)
         /\ ~Says(Head(line), r, "success") => Orderly(Tail(line), r, base, sent)
         /\ Says(Head(line), r, "finished") => base = Length[r]
<1>1. /\ Len(line) \in Nat \ {0} /\ Head(line) = line[1] /\ 1 \in DOMAIN line
      /\ Len(Tail(line)) + 1 = Len(line) /\ DOMAIN line = 1 .. Len(line)
      /\ \A n \in DOMAIN Tail(line) :
           n \in 1 .. Len(line) /\ n + 1 \in DOMAIN line /\ Tail(line)[n] = line[n + 1]
  <2>1. Len(line) \in Nat \ {0} /\ Head(line) = line[1] /\ DOMAIN line = 1 .. Len(line)
        /\ Len(Tail(line)) = Len(line) - 1 /\ DOMAIN Tail(line) = 1 .. Len(line) - 1
    OBVIOUS
  <2>2. \A n \in 1 .. Len(line) - 1 : Tail(line)[n] = line[n + 1]
    OBVIOUS
  <2> QED  BY <2>1, <2>2
<1>2. Length[r] \in Nat \ {0} /\ base \in Nat /\ sent \in Nat
  BY RequestIs
<1>3. \A j \in 1 .. Length[r] : j \in Nat /\ (Had(line, r, base, j, 1) <=> j <= base)
  BY <1>1 DEF Had
<1>4. ASSUME NEW next \in Nat, \A j \in 1 .. Length[r] : j <= next <=> j <= base \/ Brings(Head(line), r, j)
      PROVE  Orderly(Tail(line), r, next, sent)
  <2>1. \A j \in 1 .. Length[r], n \in 1 .. Len(line) :
          Had(Tail(line), r, next, j, n) <=> Had(line, r, base, j, n + 1)
    BY <1>2, <1>4, HadTail
  <2>2. ASSUME NEW n \in DOMAIN Tail(line) PROVE InTurn(Tail(line), r, next, n)
    <3>1. n \in 1 .. Len(line) /\ n + 1 \in DOMAIN line /\ Tail(line)[n] = line[n + 1]
      BY <1>1
    <3>2. InTurn(line, r, base, n + 1)
      BY <3>1 DEF Orderly
    <3> QED  BY <2>1, <3>1, <3>2 DEF InTurn
  <2>3. \A j \in 1 .. Length[r] : Had(Tail(line), r, next, j, Len(Tail(line)) + 1) <=> j <= sent
    <3>1. Len(line) \in 1 .. Len(line) /\ Len(Tail(line)) + 1 = Len(line)
      BY <1>1
    <3> QED  BY <2>1, <3>1 DEF Orderly
  <2> QED  BY <2>2, <2>3 DEF Orderly
<1>5. ASSUME Says(Head(line), r, "success")
      PROVE  /\ base < Length[r] /\ Head(line).piece = Upcoming(r, base)
             /\ Orderly(Tail(line), r, NextAfter(r, base), sent)
  <2>1. PICK a \in 0 .. Length[r] - 1 :
          line[1].piece = Upcoming(r, a) /\ \A j \in 1 .. Length[r] : Had(line, r, base, j, 1) <=> j <= a
    BY <1>1, <1>5 DEF Orderly, InTurn
  <2>2. a \in Nat /\ a < Length[r] /\ \A j \in 1 .. Length[r] : j <= base <=> j <= a
    BY <1>2, <1>3, <2>1
  <2>3. a = base
    <3>1. ~(a < base)
      <4>1. a < base => a + 1 \in 1 .. Length[r] /\ a + 1 <= base
        BY <1>2, <2>2
      <4> QED  BY <2>2, <4>1
    <3>2. ~(base < a)
      <4>1. base < a => base + 1 \in 1 .. Length[r] /\ base + 1 <= a
        BY <1>2, <2>2
      <4> QED  BY <1>2, <2>2, <4>1
    <3> QED  BY <1>2, <2>2, <3>1, <3>2
  <2>4. NextAfter(r, base) \in Nat /\ base <= NextAfter(r, base)
    BY <1>2, <2>1, <2>3, PieceIs
  <2>5. \A j \in 1 .. Length[r] : j <= NextAfter(r, base) <=> j <= base \/ Brings(Head(line), r, j)
    <3>1. \A j \in 1 .. Length[r] : Brings(Head(line), r, j) <=> base < j /\ j <= NextAfter(r, base)
      BY <1>1, <1>5, <2>1, <2>3, BringsIs
    <3> QED  BY <1>2, <2>4, <3>1
  <2> QED  BY <1>1, <1>4, <2>1, <2>2, <2>3, <2>4, <2>5
<1>6. ASSUME ~Says(Head(line), r, "success") PROVE Orderly(Tail(line), r, base, sent)
  BY <1>2, <1>4, <1>6 DEF Brings
<1>7. ASSUME Says(Head(line), r, "finished") PROVE base = Length[r]
  <2>1. Had(line, r, base, Length[r], 1)
    <3>1. Length[r] \in 1 .. Length[r]
      BY <1>2
    <3> QED  BY <1>1, <1>7, <3>1 DEF Orderly, InTurn
  <2>2. Length[r] <= base
    BY <1>2, <1>3, <2>1
  <2> QED  BY <1>2, <2>2
<1> QED  BY <1>5, <1>6, <1>7

(* Responses are added to an orderly line: at most one for a request.       *)
LEMMA HadConcat ==
  ASSUME NEW S, NEW line \in Seq(S), NEW q \in Seq(S), NEW r, NEW base \in Nat, NEW j \in Nat
  PROVE  /\ \A n \in 1 .. Len(line) + 1 : Had(line \o q, r, base, j, n) <=> Had(line, r, base, j, n)
         /\ \A k \in 1 .. Len(q) + 1 :
              Had(line \o q, r, base, j, Len(line) + k) <=>
                \/ Had(line, r, base, j, Len(line) + 1)
                \/ \E m \in DOMAIN q : m < k /\ Brings(q[m], r, j)
<1> DEFINE both == line \o q
           l == Len(line)
<1>1. /\ l \in Nat /\ Len(q) \in Nat /\ DOMAIN line = 1 .. l /\ DOMAIN q = 1 .. Len(q)
      /\ DOMAIN both = 1 .. l + Len(q)
  OBVIOUS
<1>2. \A m \in 1 .. l : both[m] = line[m]
  OBVIOUS
<1>3. \A m \in 1 .. Len(q) : both[l + m] = q[m]
  OBVIOUS
<1> HIDE DEF both, l
<1>4. /\ \A m \in 1 .. l : m \in 1 .. l + Len(q)
      /\ \A m \in 1 .. Len(q) : l + m \in 1 .. l + Len(q)
      /\ \A m \in 1 .. l + Len(q) : m \in 1 .. l \/ (m - l \in 1 .. Len(q) /\ l + (m - l) = m)
  BY <1>1
<1>5. ASSUME NEW n \in 1 .. l + 1 PROVE Had(both, r, base, j, n) <=> Had(line, r, base, j, n)
  <2>1. n \in Nat /\ n <= l + 1
    BY <1>1
  <2>2. ASSUME NEW m \in DOMAIN both, m < n, Brings(both[m], r, j)
        PROVE  \E i \in DOMAIN line : i < n /\ Brings(line[i], r, j)
    <3>1. m \in 1 .. l
      BY <1>1, <2>1, <2>2
    <3> QED  BY <1>1, <1>2, <2>2, <3>1
  <2>3. ASSUME NEW m \in DOMAIN line, m < n, Brings(line[m], r, j)
        PROVE  \E i \in DOMAIN both : i < n /\ Brings(both[i], r, j)
    <3>1. m \in DOMAIN both /\ both[m] = line[m]
      BY <1>1, <1>2, <1>4
    <3> QED  BY <2>3, <3>1
  <2> QED  BY <2>2, <2>3 DEF Had
<1>6. ASSUME NEW k \in 1 .. Len(q) + 1
      PROVE  Had(both, r, base, j, l + k) <=>
               \/ Had(line, r, base, j, l + 1)
               \/ \E m \in DOMAIN q : m < k /\ Brings(q[m], r, j)
  <2>1. k \in Nat /\ k >= 1
    BY <1>1
  <2>2. ASSUME NEW m \in DOMAIN both, m < l + k, Brings(both[m], r, j)
        PROVE  \/ \E i \in DOMAIN line : i < l + 1 /\ Brings(line[i], r, j)
               \/ \E i \in DOMAIN q : i < k /\ Brings(q[i], r, j)
    <3>1. CASE m \in 1 .. l
      <4>1. m < l + 1
        BY <1>1, <3>1
      <4> QED  BY <1>1, <1>2, <2>2, <3>1, <4>1
    <3>2. CASE m - l \in 1 .. Len(q) /\ l + (m - l) = m
      <4>1. m - l < k
        BY <1>1, <2>1, <2>2, <3>2
      <4>2. both[m] = q[m - l]
        BY <1>3, <3>2
      <4> QED  BY <1>1, <2>2, <3>2, <4>1, <4>2
    <3> QED  BY <1>1, <1>4, <3>1, <3>2
  <2>3. ASSUME NEW m \in DOMAIN line, m < l + 1, Brings(line[m], r, j)
        PROVE  \E i \in DOMAIN both : i < l + k /\ Brings(both[i], r, j)
    <3>1. m \in DOMAIN both /\ both[m] = line[m] /\ m < l + k
      BY <1>1, <1>2, <1>4, <2>1, <2>3
    <3> QED  BY <2>3, <3>1
  <2>4. ASSUME NEW m \in DOMAIN q, m < k, Brings(q[m], r, j)
        PROVE  \E i \in DOMAIN both : i < l + k /\ Brings(both[i], r, j)
    <3>1. l + m \in DOMAIN both /\ both[l + m] = q[m] /\ l + m < l + k
      BY <1>1, <1>3, <1>4, <2>1, <2>4
    <3> QED  BY <2>4, <3>1
  <2> QED  BY <2>2, <2>3, <2>4 DEF Had
<1> QED  BY <1>5, <1>6 DEF both, l

LEMMA OrderlyConcat ==
  ASSUME NEW S, NEW line \in Seq(S), NEW q \in Seq(S), NEW r \in Requests,
         NEW base \in 0 .. Length[r], NEW sent \in 0 .. Length[r], NEW next \in 0 .. Length[r],
         Orderly(line, r, base, sent),
         \A k, m \in DOMAIN q : q[k].id = r /\ q[m].id = r => k = m,
         \A k \in DOMAIN q : Says(q[k], r, "success") =>
           sent < Length[r] /\ q[k].piece = Upcoming(r, sent) /\ next = NextAfter(r, sent),
         \A k \in DOMAIN q : Says(q[k], r, "finished") => sent = Length[r],
         next = sent \/ \E k \in DOMAIN q : Says(q[k], r, "success")
  PROVE  Orderly(line \o q, r, base, next)
<1> DEFINE both == line \o q
           l == Len(line)
<1>1. /\ l \in Nat /\ Len(q) \in Nat /\ DOMAIN line = 1 .. l /\ DOMAIN q = 1 .. Len(q)
      /\ DOMAIN both = 1 .. l + Len(q) /\ Len(both) = l + Len(q)
  OBVIOUS
<1>2. \A m \in 1 .. l : both[m] = line[m]
  OBVIOUS
<1>3. \A m \in 1 .. Len(q) : both[l + m] = q[m]
  OBVIOUS
<1>4. Length[r] \in Nat \ {0} /\ base \in Nat /\ sent \in Nat /\ next \in Nat
  BY RequestIs
<1>5. /\ \A j \in 1 .. Length[r] : \A n \in 1 .. l + 1 :
           Had(both, r, base, j, n) <=> Had(line, r, base, j, n)
      /\ \A j \in 1 .. Length[r] : \A k \in 1 .. Len(q) + 1 :
           Had(both, r, base, j, l + k) <=> j <= sent \/ \E m \in DOMAIN q : m < k /\ Brings(q[m], r, j)
  <2>1. \A j \in 1 .. Length[r] : j \in Nat /\ (Had(line, r, base, j, l + 1) <=> j <= sent)
    BY DEF Orderly
  <2> QED  BY <1>4, <2>1, HadConcat
<1> HIDE DEF both, l
<1>6. ASSUME NEW n \in 1 .. l PROVE InTurn(both, r, base, n)
  <2>1. n \in 1 .. l + 1 /\ both[n] = line[n] /\ InTurn(line, r, base, n)
    BY <1>1, <1>2 DEF Orderly
  <2> QED  BY <1>5, <2>1 DEF InTurn
<1>7. ASSUME NEW k \in 1 .. Len(q) PROVE InTurn(both, r, base, l + k)
  <2>1. k \in 1 .. Len(q) + 1 /\ both[l + k] = q[k]
    BY <1>1, <1>3
  <2>2. CASE Says(q[k], r, "success")
    <3>1. \A j \in 1 .. Length[r] : Had(both, r, base, j, l + k) <=> j <= sent
      <4>1. \A m \in DOMAIN q : m < k => ~(q[m].id = r)
        <5>1. \A m \in DOMAIN q : q[m].id = r => m = k
          BY <1>1, <2>2 DEF Says
        <5> QED  BY <1>1, <5>1
      <4>2. \A m \in DOMAIN q : \A j \in 1 .. Length[r] : m < k => ~Brings(q[m], r, j)
        BY <4>1 DEF Brings, Says
      <4> QED  BY <1>5, <2>1, <4>2
    <3>2. sent \in 0 .. Length[r] - 1 /\ both[l + k].piece = Upcoming(r, sent)
      <4>1. sent < Length[r] /\ q[k].piece = Upcoming(r, sent)
        BY <1>1, <2>2
      <4>2. sent \in 0 .. Length[r] - 1
        BY <1>4, <4>1
      <4> QED  BY <2>1, <4>1, <4>2
    <3>3. ~Says(both[l + k], r, "finished")
      BY <2>1, <2>2 DEF Says
    <3> QED  BY <3>1, <3>2, <3>3 DEF InTurn
  <2>3. CASE Says(q[k], r, "finished")
    <3>1. sent = Length[r]
      BY <1>1, <2>3
    <3>2. \A j \in 1 .. Length[r] : Had(both, r, base, j, l + k)
      BY <1>4, <1>5, <2>1, <3>1
    <3>3. ~Says(both[l + k], r, "success")
      BY <2>1, <2>3 DEF Says
    <3> QED  BY <3>2, <3>3 DEF InTurn
  <2> QED  BY <2>1, <2>2, <2>3 DEF InTurn
<1>8. ASSUME NEW n \in DOMAIN both PROVE InTurn(both, r, base, n)
  <2>1. n \in 1 .. l \/ (n - l \in 1 .. Len(q) /\ l + (n - l) = n)
    BY <1>1
  <2> QED  BY <1>6, <1>7, <2>1
<1>9. ASSUME NEW j \in 1 .. Length[r] PROVE Had(both, r, base, j, Len(both) + 1) <=> j <= next
  <2>1. Len(both) + 1 = l + (Len(q) + 1) /\ Len(q) + 1 \in 1 .. Len(q) + 1
        /\ \A m \in DOMAIN q : m < Len(q) + 1
    BY <1>1
  <2>2. Had(both, r, base, j, Len(both) + 1) <=> j <= sent \/ \E m \in DOMAIN q : Brings(q[m], r, j)
    BY <1>5, <2>1
  <2>3. CASE \E k \in DOMAIN q : Says(q[k], r, "success")
    <3>1. PICK k \in DOMAIN q : Says(q[k], r, "success")
      BY <2>3
    <3>2. sent \in 0 .. Length[r] - 1 /\ q[k].piece = Upcoming(r, sent) /\ next = NextAfter(r, sent)
      BY <1>4, <3>1
    <3>3. Brings(q[k], r, j) <=> sent < j /\ j <= next
      BY <3>1, <3>2, BringsIs
    <3>4. \A m \in DOMAIN q : Brings(q[m], r, j) => m = k
      BY <3>1 DEF Brings, Says
    <3>5. sent <= next
      BY <1>4, <3>2, PieceIs
    <3> QED  BY <1>4, <2>2, <3>3, <3>4, <3>5
  <2>4. CASE ~\E k \in DOMAIN q : Says(q[k], r, "success")
    BY <2>2, <2>4 DEF Brings
  <2> QED  BY <2>3, <2>4
<1> QED  BY <1>8, <1>9 DEF Orderly, both

-----------------------------------------------------------------------------
(* The pieces that a client has.                                            *)
LEMMA FirstCodesIs ==
  ASSUME NEW r \in Requests, NEW n \in Nat
  PROVE  /\ FirstCodes(r, n) \in Seq(Requests \X Nat) /\ Len(FirstCodes(r, n)) = n
         /\ \A i \in 1 .. n : FirstCodes(r, n)[i] = <<r, i>>
BY DEF FirstCodes

LEMMA ConcatIs ==
  ASSUME NEW S, NEW a \in Seq(S), NEW b \in Seq(S)
  PROVE  /\ a \o b \in Seq(S) /\ Len(a \o b) = Len(a) + Len(b)
         /\ \A i \in 1 .. Len(a) : (a \o b)[i] = a[i]
         /\ \A i \in 1 .. Len(b) : (a \o b)[Len(a) + i] = b[i]
<1>1. a \o b \in Seq(S) /\ Len(a \o b) = Len(a) + Len(b)
  OBVIOUS
<1>2. \A i \in 1 .. Len(a) : (a \o b)[i] = a[i]
  OBVIOUS
<1>3. \A i \in 1 .. Len(b) : (a \o b)[Len(a) + i] = b[i]
  OBVIOUS
<1> QED  BY <1>1, <1>2, <1>3

LEMMA GotGrows ==
  ASSUME NEW pieces \in Seq(Seq(Requests \X Nat)), NEW r \in Requests,
         NEW base \in 0 .. Length[r] - 1, GotIs(pieces, r, base)
  PROVE  GotIs(Append(pieces, Upcoming(r, base)), r, NextAfter(r, base))
<1> DEFINE next == NextAfter(r, base)
           e == Upcoming(r, base)
           more == Append(pieces, e)
<1>1. base \in Nat /\ base < Length[r] /\ Length[r] \in Nat
  BY RequestIs
<1>2. /\ next \in Nat /\ base < next /\ next <= Length[r]
      /\ next - base <= Params[r].chunk_size
      /\ next < Length[r] => next - base = Params[r].chunk_size
  BY <1>1, PieceIs
<1>3. e \in Seq(Requests \X Nat) /\ e # <<>> /\ Len(e) = next - base
      /\ \A i \in 1 .. next - base : e[i] = <<r, base + i>>
  BY PieceIs DEF Upcoming
<1>4. FlattenSeq(more) = FirstCodes(r, base) \o e
  BY <1>3, FlattenAppend DEF GotIs
<1>5. FirstCodes(r, base) \o e = FirstCodes(r, next)
  <2> DEFINE f == FirstCodes(r, base)
  <2>1. f \in Seq(Requests \X Nat) /\ Len(f) = base /\ \A i \in 1 .. base : f[i] = <<r, i>>
    BY <1>1, FirstCodesIs
  <2> HIDE DEF f, e, next
  <2>2. f \o e \in Seq(Requests \X Nat) /\ Len(f \o e) = next
    <3>1. f \o e \in Seq(Requests \X Nat) /\ Len(f \o e) = Len(f) + Len(e)
      BY <1>3, <2>1, ConcatIs
    <3>2. base + (next - base) = next
      BY <1>1, <1>2
    <3> QED  BY <1>3, <2>1, <3>1, <3>2
  <2>3. ASSUME NEW i \in 1 .. next PROVE (f \o e)[i] = <<r, i>>
    <3>1. CASE i <= base
      <4>1. i \in 1 .. Len(f) /\ i \in 1 .. base
        BY <1>1, <1>2, <2>1, <3>1
      <4> QED  BY <1>3, <2>1, <4>1, ConcatIs
    <3>2. CASE ~(i <= base)
      <4>1. i - base \in 1 .. next - base /\ base + (i - base) = i
        BY <1>1, <1>2, <3>2
      <4>2. (f \o e)[Len(f) + (i - base)] = e[i - base]
        <5>1. i - base \in 1 .. Len(e)
          BY <1>3, <4>1
        <5>2. e \in Seq(Requests \X Nat) /\ f \in Seq(Requests \X Nat)
          BY <1>3, <2>1
        <5> QED  BY <5>1, <5>2, ConcatIs
      <4> QED  BY <1>3, <2>1, <4>1, <4>2
    <3> QED  BY <3>1, <3>2
  <2>4. FirstCodes(r, next) \in Seq(Requests \X Nat) /\ Len(FirstCodes(r, next)) = next
        /\ \A i \in 1 .. next : FirstCodes(r, next)[i] = <<r, i>>
    BY <1>2, FirstCodesIs
  <2> DEFINE u == f \o e
             v == FirstCodes(r, next)
  <2>5. /\ u \in Seq(Requests \X Nat) /\ v \in Seq(Requests \X Nat)
        /\ next \in Nat /\ Len(u) = next /\ Len(v) = next
        /\ \A i \in 1 .. next : u[i] = v[i]
    BY <1>2, <2>2, <2>3, <2>4
  <2> HIDE DEF u, v
  <2>6. u = v
    BY <2>5
  <2> QED  BY <2>6 DEF u, v, f, e, next
<1>6. /\ Len(pieces) \in Nat /\ DOMAIN pieces = 1 .. Len(pieces)
      /\ DOMAIN more = 1 .. Len(pieces) + 1 /\ Len(more) = Len(pieces) + 1
      /\ more[Len(pieces) + 1] = e
  BY <1>3
<1>7. \A i \in 1 .. Len(pieces) : more[i] = pieces[i]
  BY <1>3
<1> HIDE DEF next, e, more
<1>8. ASSUME NEW i \in DOMAIN more
      PROVE  /\ more[i] # <<>> /\ Len(more[i]) <= Params[r].chunk_size
             /\ i < Len(more) \/ next < Length[r] => Len(more[i]) = Params[r].chunk_size
  <2>1. CASE i = Len(pieces) + 1
    <3>1. more[i] = e /\ ~(i < Len(more))
      BY <1>6, <2>1
    <3> QED  BY <1>2, <1>3, <3>1
  <2>2. CASE i \in 1 .. Len(pieces)
    <3>1. more[i] = pieces[i] /\ i \in DOMAIN pieces
      BY <1>6, <1>7, <2>2
    <3> QED  BY <1>1, <3>1 DEF GotIs
  <2> QED  BY <1>6, <2>1, <2>2
<1> QED  BY <1>4, <1>5, <1>8 DEF GotIs, next, e, more

LEMMA GotMeans ==
  ASSUME NEW pieces, NEW r \in Requests, NEW base \in 0 .. Length[r], GotIs(pieces, r, base)
  PROVE  /\ IsPrefix(FlattenSeq(pieces), Codes(r))
         /\ base = Length[r] => FlattenSeq(pieces) = Codes(r)
<1> DEFINE f == FirstCodes(r, base)
           all == Codes(r)
<1>1. base \in Nat /\ base <= Length[r] /\ Length[r] \in Nat
  BY RequestIs
<1>2. f \in Seq(Requests \X Nat) /\ Len(f) = base /\ \A i \in 1 .. base : f[i] = <<r, i>>
  BY <1>1, FirstCodesIs
<1>3. Codes(r) = FirstCodes(r, Length[r])
  BY DEF Codes, FirstCodes
<1>4. all \in Seq(Requests \X Nat) /\ Len(all) = Length[r] /\ \A i \in 1 .. Length[r] : all[i] = <<r, i>>
  BY <1>1, <1>3, FirstCodesIs
<1>5. FlattenSeq(pieces) = f
  BY DEF GotIs
<1> HIDE DEF f, all
<1>6. SubSeq(f, 1, base) = SubSeq(all, 1, base)
  <2>1. /\ SubSeq(f, 1, base) \in Seq(Requests \X Nat) /\ Len(SubSeq(f, 1, base)) = base
        /\ \A i \in 1 .. base : SubSeq(f, 1, base)[i] = f[i]
    BY <1>1, <1>2
  <2>2. /\ SubSeq(all, 1, base) \in Seq(Requests \X Nat) /\ Len(SubSeq(all, 1, base)) = base
        /\ \A i \in 1 .. base : SubSeq(all, 1, base)[i] = all[i]
    BY <1>1, <1>4
  <2>3. \A i \in 1 .. base : f[i] = all[i]
    <3>1. \A i \in 1 .. base : i \in 1 .. Length[r]
      BY <1>1
    <3> QED  BY <1>2, <1>4, <3>1
  <2> QED  BY <2>1, <2>2, <2>3
<1>7. base = Length[r] => f = all
  BY <1>3 DEF f, all
<1> QED  BY <1>1, <1>2, <1>4, <1>5, <1>6, <1>7 DEF IsPrefix, all


-----------------------------------------------------------------------------
(* The numbers of a batch.                                                  *)
LEMMA MinIs ==
  ASSUME NEW a \in Nat, NEW b \in Nat
  PROVE  Min({a, b}) = Least(a, b)
<1> DEFINE T == {a, b}
           m == Least(a, b)
<1>1. m \in T /\ \A y \in T : m <= y
  BY DEF Least
<1>2. \A x \in T : (\A y \in T : x <= y) => x = m
  BY <1>1
<1> HIDE DEF T, m
<1>3. Min(T) = m
  BY <1>1, <1>2 DEF Min
<1> QED  BY <1>3 DEF T, m

LEMMA MaxIs ==
  ASSUME NEW T, T \subseteq Nat, T # {}, NEW b \in Nat, \A n \in T : n <= b
  PROVE  Max(T) \in T /\ \A n \in T : n <= Max(T)
<1> DEFINE D == { b - n : n \in T }
<1>1. D \subseteq Nat /\ D # {}
  <2>1. \A n \in T : b - n \in Nat
    OBVIOUS
  <2> QED  BY <2>1
<1>2. PICK d \in D : \A n \in D : d <= n
  <2> HIDE DEF D
  <2> QED  BY <1>1, LeastExists
<1>3. PICK m \in T : d = b - m
  OBVIOUS
<1>4. ASSUME NEW n \in T PROVE m >= n
  <2>1. b - n \in D
    OBVIOUS
  <2>2. b - m <= b - n
    BY <1>2, <1>3, <2>1
  <2>3. m \in Nat /\ n \in Nat
    OBVIOUS
  <2> QED  BY <2>2, <2>3
<1>5. Max(T) \in T /\ \A n \in T : Max(T) >= n
  BY <1>4 DEF Max
<1>6. ASSUME NEW n \in T PROVE n <= Max(T)
  <2>1. n \in Nat /\ Max(T) \in Nat /\ Max(T) >= n
    BY <1>5
  <2> QED  BY <2>1
<1> QED  BY <1>5, <1>6

LEMMA LengthsAreBounded ==
  ASSUME NEW q \in Seq(Requests)
  PROVE  \E b \in Nat : \A r \in Range(q) : Length[r] <= b
<1> DEFINE Bounds(m, b) == \A i \in 1 .. m : Length[q[i]] <= b
           T == { m \in 0 .. Len(q) : ~\E b \in Nat : Bounds(m, b) }
<1>1. Len(q) \in Nat /\ DOMAIN q = 1 .. Len(q) /\ \A n \in 1 .. Len(q) : Length[q[n]] \in Nat
  BY RequestIs
<1>2. SUFFICES ASSUME T # {} PROVE FALSE
  <2>1. ASSUME T = {} PROVE \E b \in Nat : Bounds(Len(q), b)
    <3>1. Len(q) \in 0 .. Len(q)
      BY <1>1
    <3> HIDE DEF Bounds
    <3> QED  BY <2>1, <3>1
  <2>2. Range(q) = { q[i] : i \in 1 .. Len(q) }
    BY <1>1 DEF Range
  <2>3. ASSUME NEW b \in Nat, Bounds(Len(q), b) PROVE \A r \in Range(q) : Length[r] <= b
    BY <2>2, <2>3
  <2> HIDE DEF T, Bounds
  <2> QED  BY <2>1, <2>3
<1>3. PICK m \in T : \A n \in T : m <= n
  <2>1. T \subseteq Nat
    BY <1>1
  <2> HIDE DEF T
  <2> QED  BY <1>2, <2>1, LeastExists
<1>4. m # 0
  BY <1>1
<1>5. m - 1 \in 0 .. Len(q) /\ m - 1 \notin T /\ m \in 1 .. Len(q)
  <2>1. m - 1 \in 0 .. Len(q) /\ m \in 1 .. Len(q) /\ ~(m <= m - 1)
    BY <1>1, <1>3, <1>4
  <2> HIDE DEF T
  <2> QED  BY <1>3, <2>1
<1>6. PICK b \in Nat : Bounds(m - 1, b)
  BY <1>5
<1> DEFINE l == Length[q[m]]
<1>7. l \in Nat /\ b \in Nat /\ b + l \in Nat
  <2>1. l \in Nat
    BY <1>1, <1>5
  <2> HIDE DEF l
  <2> QED  BY <1>6, <2>1
<1>8. Bounds(m, b + l)
  <2>1. ASSUME NEW i \in 1 .. m PROVE Length[q[i]] <= b + l
    <3>1. CASE i = m
      <4>1. Length[q[i]] = l
        BY <3>1
      <4> HIDE DEF l
      <4> QED  BY <1>6, <1>7, <4>1
    <3>2. CASE i # m
      <4>1. i \in 1 .. m - 1 /\ i \in 1 .. Len(q)
        BY <1>1, <1>5, <3>2
      <4>2. Length[q[i]] \in Nat /\ Length[q[i]] <= b
        BY <1>1, <1>6, <4>1
      <4> DEFINE n == Length[q[i]]
      <4> HIDE DEF l, n
      <4>3. n \in Nat /\ n <= b
        BY <4>2 DEF n
      <4>4. n <= b + l
        BY <1>7, <4>3
      <4> QED  BY <4>4 DEF n
    <3> QED  BY <3>1, <3>2
  <2> QED  BY <2>1
<1> HIDE DEF l, Bounds
<1> QED  BY <1>3, <1>7, <1>8

LEMMA MaxSeqLenIs ==
  ASSUME batch \in Seq(Requests), batch # <<>>
  PROVE  /\ MaxSeqLen \in Nat \ {0} /\ batch[1] \in Range(batch) /\ Range(batch) \subseteq Requests
         /\ \A r \in Range(batch) : Length[r] <= MaxSeqLen
<1> DEFINE T == { Length[r] : r \in Range(batch) }
<1>1. batch[1] \in Range(batch) /\ Range(batch) \subseteq Requests
  BY DEF Range
<1>2. T \subseteq Nat \ {0} /\ T # {}
  BY <1>1, RequestIs
<1>3. PICK b \in Nat : \A r \in Range(batch) : Length[r] <= b
  BY LengthsAreBounded
<1>4. \A n \in T : n <= b
  BY <1>3
<1>5. \A r \in Range(batch) : Length[r] \in T
  OBVIOUS
<1> HIDE DEF T
<1>6. Max(T) \in T /\ \A n \in T : n <= Max(T)
  BY <1>2, <1>4, MaxIs
<1>7. MaxSeqLen = Max(T)
  BY DEF MaxSeqLen, T
<1> QED  BY <1>1, <1>2, <1>5, <1>6, <1>7

LEMMA SubSeqIs ==
  ASSUME NEW S, NEW s \in Seq(S), NEW m \in 1 .. Len(s), NEW n \in m .. Len(s)
  PROVE  /\ SubSeq(s, m, n) \in Seq(S) /\ Len(SubSeq(s, m, n)) = n - m + 1
         /\ \A i \in 1 .. n - m + 1 : SubSeq(s, m, n)[i] = s[m + i - 1]
OBVIOUS

(* What of the padded wave belongs to a request that has codes left, and    *)
(* how far its codes are then sent.                                         *)
LEMMA SliceIs ==
  ASSUME batch \in Seq(Requests), batch # <<>>, start \in Nat, start < MaxSeqLen, Alike,
         NEW r \in Range(batch)
  PROVE  /\ r \in Requests /\ EndIndex \in Nat /\ start < EndIndex
         /\ start < Length[r] => /\ Slice(r) = Upcoming(r, start)
                                 /\ Least(EndIndex, Length[r]) = NextAfter(r, start)
<1> DEFINE M == MaxSeqLen
           L == Length[r]
           c == ChunkSize
           e == EndIndex
           k == ContextSize
<1>1. r \in Requests /\ M \in Nat \ {0} /\ L <= M /\ L \in Nat \ {0} /\ start < M
  BY MaxSeqLenIs, RequestIs
<1>2. c = Params[r].chunk_size /\ c \in Nat \ {0}
  BY <1>1, MaxSeqLenIs, RequestIs DEF Alike, ChunkSize
<1>3. e = Least(start + c, M)
  BY <1>1, <1>2, MinIs DEF EndIndex
<1>4. k \in Nat /\ k <= start
  <2>1. batch[1] \in Requests
    BY MaxSeqLenIs
  <2>2. LeftContext \in Nat
    BY <2>1, RequestIs DEF LeftContext
  <2> QED  BY <2>2 DEF ContextSize
<1>5. NextAfter(r, start) = Least(start + c, L)
  BY <1>2 DEF NextAfter
<1>6. Slice(r) = SubSeq(SubSeq(Padded(r), start - k + 1, e), k + 1, k + Min({e, L}) - start)
  BY DEF Slice, WavChunk
<1>7. Padded(r) = [i \in 1 .. M |-> IF i <= L THEN <<r, i>> ELSE <<r, 0>>]
  BY DEF Padded
<1> HIDE DEF M, L, c, e, k
<1>8. e \in Nat /\ start < e /\ e <= M
  BY <1>1, <1>2, <1>3 DEF Least
<1>9. ASSUME start < L PROVE Slice(r) = Upcoming(r, start) /\ Least(e, L) = NextAfter(r, start)
  <2> DEFINE m == NextAfter(r, start)
  <2>1. Least(e, L) = m /\ m \in Nat /\ start < m /\ m <= L /\ m <= e
    <3> DEFINE n == start + c
    <3>1. n \in Nat /\ start < n
      BY <1>1, <1>2
    <3> HIDE DEF n
    <3>2. e = Least(n, M) /\ m = Least(n, L)
      BY <1>3, <1>5 DEF n
    <3> HIDE DEF m
    <3>3. CASE n <= L
      <4>1. e = n /\ m = n
        BY <1>1, <3>1, <3>2, <3>3 DEF Least
      <4> QED  BY <1>1, <3>1, <3>3, <4>1 DEF Least
    <3>4. CASE ~(n <= L)
      <4>1. m = L /\ L <= e /\ e \in Nat
        BY <1>1, <3>1, <3>2, <3>4 DEF Least
      <4> QED  BY <1>1, <1>9, <4>1 DEF Least
    <3> QED  BY <3>3, <3>4
  <2>2. Min({e, L}) = m
    BY <1>1, <1>8, <2>1, MinIs
  <2> DEFINE p == Padded(r)
             w == SubSeq(p, start - k + 1, e)
             v == SubSeq(w, k + 1, k + m - start)
  <2>3. p \in Seq(Requests \X Nat) /\ Len(p) = M /\ \A i \in 1 .. M : i <= L => p[i] = <<r, i>>
    <3>1. \A i \in 1 .. M : (IF i <= L THEN <<r, i>> ELSE <<r, 0>>) \in Requests \X Nat
      BY <1>1
    <3> QED  BY <1>1, <1>7, <3>1
  <2>4. Slice(r) = v
    BY <1>6, <2>2
  <2>5. Upcoming(r, start) = [i \in 1 .. m - start |-> <<r, start + i>>]
    BY DEF Upcoming, m
  <2> HIDE DEF m, p, w
  <2>6. start - k + 1 \in 1 .. Len(p) /\ e \in start - k + 1 .. Len(p)
    BY <1>1, <1>4, <1>8, <2>3
  <2>7. /\ w \in Seq(Requests \X Nat) /\ Len(w) = e - (start - k + 1) + 1
        /\ \A i \in 1 .. e - (start - k + 1) + 1 : w[i] = p[(start - k + 1) + i - 1]
    BY <2>3, <2>6, SubSeqIs DEF w
  <2>8. k + 1 \in 1 .. Len(w) /\ k + m - start \in k + 1 .. Len(w)
    BY <1>1, <1>4, <1>8, <2>1, <2>7
  <2>9. /\ v \in Seq(Requests \X Nat) /\ Len(v) = (k + m - start) - (k + 1) + 1
        /\ \A i \in 1 .. (k + m - start) - (k + 1) + 1 : v[i] = w[(k + 1) + i - 1]
    <3> DEFINE lo == k + 1
               hi == k + m - start
    <3>1. lo \in 1 .. Len(w) /\ hi \in lo .. Len(w)
      BY <2>8
    <3>2. v = SubSeq(w, lo, hi)
      OBVIOUS
    <3> HIDE DEF lo, hi, v
    <3>3. w \in Seq(Requests \X Nat)
      BY <2>7
    <3>4. /\ SubSeq(w, lo, hi) \in Seq(Requests \X Nat) /\ Len(SubSeq(w, lo, hi)) = hi - lo + 1
          /\ \A i \in 1 .. hi - lo + 1 : SubSeq(w, lo, hi)[i] = w[lo + i - 1]
      BY <3>1, <3>3, SubSeqIs
    <3> QED  BY <3>2, <3>4 DEF lo, hi
  <2> HIDE DEF v
  <2>10. Len(v) = m - start /\ m - start \in Nat
    BY <1>4, <2>1, <2>9
  <2>11. ASSUME NEW i \in 1 .. m - start PROVE v[i] = <<r, start + i>>
    <3>1. /\ i \in 1 .. (k + m - start) - (k + 1) + 1
          /\ k + i \in 1 .. e - (start - k + 1) + 1 /\ (k + 1) + i - 1 = k + i
          /\ (start - k + 1) + (k + i) - 1 = start + i
          /\ start + i \in 1 .. M /\ start + i <= L
      BY <1>1, <1>4, <1>8, <2>1
    <3>2. v[i] = w[k + i] /\ w[k + i] = p[start + i]
      BY <2>7, <2>9, <3>1
    <3> QED  BY <2>3, <3>1, <3>2
  <2>12. v = Upcoming(r, start)
    BY <2>5, <2>9, <2>10, <2>11
  <2> QED  BY <2>1, <2>4, <2>12 DEF m
<1> QED  BY <1>1, <1>8, <1>9 DEF L, e

(* What Schedule takes and what it leaves.                                  *)
LEMMA SplitIs ==
  ASSUME NEW S, NEW s \in Seq(S), NEW k \in 1 .. Len(s), NoRepeat(s)
  PROVE  LET a == SubSeq(s, 1, k)
             b == SubSeq(s, Len(a) + 1, Len(s))
         IN /\ a \in Seq(S) /\ b \in Seq(S) /\ Range(a) = { s[i] : i \in 1 .. k }
            /\ Range(a) \subseteq Range(s) /\ Range(b) \subseteq Range(s)
            /\ Range(a) \cap Range(b) = {} /\ NoRepeat(a) /\ NoRepeat(b)
<1> DEFINE a == SubSeq(s, 1, k)
           b == SubSeq(s, Len(a) + 1, Len(s))
           l == Len(s)
<1>1. l \in Nat /\ DOMAIN s = 1 .. l /\ k \in Nat /\ 1 <= k /\ k <= l
  OBVIOUS
<1>2. a \in Seq(S) /\ Len(a) = k /\ DOMAIN a = 1 .. k /\ \A i \in 1 .. k : a[i] = s[i]
  OBVIOUS
<1>3. b = SubSeq(s, k + 1, l)
  BY <1>2
<1> HIDE DEF a
<1>4. b \in Seq(S) /\ DOMAIN b = 1 .. l - k /\ \A i \in 1 .. l - k : b[i] = s[k + i]
  <2>1. CASE k = l
    BY <1>1, <1>3, <2>1
  <2>2. CASE k < l
    <3>1. k + 1 \in 1 .. Len(s) /\ l \in k + 1 .. Len(s)
      BY <1>1, <2>2
    <3>2. b \in Seq(S) /\ Len(b) = l - (k + 1) + 1 /\ \A i \in 1 .. l - (k + 1) + 1 : b[i] = s[(k + 1) + i - 1]
      BY <1>3, <3>1, SubSeqIs
    <3> HIDE DEF b, l
    <3>3. l - (k + 1) + 1 = l - k /\ l - k \in Nat /\ \A i \in 1 .. l - k : (k + 1) + i - 1 = k + i
      BY <1>1, <2>2
    <3>4. DOMAIN b = 1 .. l - k
      BY <3>2, <3>3
    <3> QED  BY <3>2, <3>3, <3>4
  <2> HIDE DEF b, l
  <2> QED  BY <1>1, <2>1, <2>2
<1> HIDE DEF b, l
<1>5. /\ \A i \in 1 .. k : i \in 1 .. l
      /\ \A i \in 1 .. l - k : k + i \in 1 .. l /\ k + i \notin 1 .. k
      /\ \A i, j \in 1 .. l - k : k + i = k + j => i = j
  BY <1>1
<1>6. Range(a) = { s[i] : i \in 1 .. k } /\ Range(b) = { s[k + i] : i \in 1 .. l - k }
  <2>1. Range(a) = { a[i] : i \in 1 .. k } /\ Range(b) = { b[i] : i \in 1 .. l - k }
    BY <1>2, <1>4 DEF Range
  <2> QED  BY <1>2, <1>4, <2>1
<1>7. Range(a) \subseteq Range(s) /\ Range(b) \subseteq Range(s)
  BY <1>1, <1>5, <1>6 DEF Range
<1>8. NoRepeat(a)
  BY <1>1, <1>2, <1>5 DEF NoRepeat
<1>9. NoRepeat(b)
  <2>1. ASSUME NEW i \in 1 .. l - k, NEW j \in 1 .. l - k, b[i] = b[j] PROVE i = j
    <3>1. k + i \in DOMAIN s /\ k + j \in DOMAIN s /\ s[k + i] = s[k + j]
      BY <1>1, <1>4, <1>5, <2>1
    <3> QED  BY <1>5, <3>1 DEF NoRepeat
  <2> QED  BY <1>4, <2>1 DEF NoRepeat
<1>10. Range(a) \cap Range(b) = {}
  <2>1. ASSUME NEW i \in 1 .. k, NEW j \in 1 .. l - k PROVE s[i] # s[k + j]
    <3>1. i \in DOMAIN s /\ k + j \in DOMAIN s /\ i # k + j
      BY <1>1, <1>5
    <3> QED  BY <3>1 DEF NoRepeat
  <2> QED  BY <1>6, <2>1
<1> QED  BY <1>2, <1>4, <1>6, <1>7, <1>8, <1>9, <1>10 DEF a, b, l

LEMMA FrontBatchIs ==
  ASSUME NEW s \in Seq(Requests), s # <<>>
  PROVE  \E k \in 1 .. Len(s) :
           FrontBatch(s) = SubSeq(s, 1, k) /\ \A i \in 1 .. k : Params[s[i]] = Params[s[1]]
<1> DEFINE alike == { n \in 1 .. Len(s) : \A i \in 1 .. n : Compatible(s[1], s[i]) }
           k == Min({Max(alike), MaxBatch})
<1>1. Len(s) \in Nat \ {0}
  OBVIOUS
<1>2. \A i \in 1 .. 1 : Compatible(s[1], s[i])
  BY DEF Compatible
<1>3. 1 \in alike /\ alike \subseteq Nat /\ \A n \in alike : n <= Len(s)
  BY <1>1, <1>2
<1>4. Max(alike) \in alike
  <2> HIDE DEF alike
  <2> QED  BY <1>1, <1>3, MaxIs
<1> DEFINE m == Max(alike)
<1>5. m \in 1 .. Len(s) /\ \A i \in 1 .. m : Compatible(s[1], s[i])
  BY <1>4
<1>6. FrontBatch(s) = SubSeq(s, 1, k)
  BY DEF FrontBatch
<1> HIDE DEF m
<1>7. k \in 1 .. m
  <2>1. m \in Nat \ {0} /\ MaxBatch \in Nat \ {0}
    BY <1>1, <1>5, GeriAssumption
  <2>2. k = Least(m, MaxBatch)
    BY <2>1, MinIs DEF m
  <2> QED  BY <2>1, <2>2 DEF Least
<1> HIDE DEF k
<1>8. k \in 1 .. Len(s) /\ \A i \in 1 .. k : i \in 1 .. m
  BY <1>1, <1>5, <1>7
<1>9. \A i \in 1 .. k : Params[s[i]] = Params[s[1]]
  BY <1>5, <1>8 DEF Compatible
<1> QED  BY <1>6, <1>8, <1>9

LEMMA ConcatElements ==
  ASSUME NEW S, NEW a \in Seq(S), NEW b \in Seq(S)
  PROVE  \A n \in DOMAIN (a \o b) :
           \/ n \in DOMAIN a /\ (a \o b)[n] = a[n]
           \/ \E k \in DOMAIN b : (a \o b)[n] = b[k]
<1> DEFINE both == a \o b
<1>1. /\ Len(a) \in Nat /\ Len(b) \in Nat /\ DOMAIN a = 1 .. Len(a)
      /\ DOMAIN b = 1 .. Len(b) /\ DOMAIN both = 1 .. Len(a) + Len(b)
  OBVIOUS
<1>2. /\ \A n \in 1 .. Len(a) : both[n] = a[n]
      /\ \A n \in 1 .. Len(b) : both[Len(a) + n] = b[n]
  BY ConcatIs
<1> HIDE DEF both
<1>3. ASSUME NEW n \in DOMAIN both
      PROVE  n \in 1 .. Len(a) \/ (n - Len(a) \in 1 .. Len(b) /\ Len(a) + (n - Len(a)) = n)
  BY <1>1
<1>4. ASSUME NEW n \in DOMAIN both, n - Len(a) \in 1 .. Len(b), Len(a) + (n - Len(a)) = n
      PROVE  both[n] = b[n - Len(a)]
  BY <1>2, <1>4
<1>5. ASSUME NEW n \in DOMAIN both
      PROVE  \/ n \in DOMAIN a /\ both[n] = a[n]
             \/ \E k \in DOMAIN b : both[n] = b[k]
  BY <1>1, <1>2, <1>3, <1>4
<1> QED  BY <1>5 DEF both

-----------------------------------------------------------------------------
(* The steps and the stream of a request.                                   *)

(* A request may go on to the engine. *)
LEMMA GoesOn ==
  ASSUME NEW r \in Requests, StreamIs(r), client'[r] = client[r],
         r \in pending => r \in pending',
         UNCHANGED <<stream, got, responses>>,
         \A sent \in 0 .. Length[r] : SentIs(r, sent) => SentIs(r, sent)'
  PROVE  StreamIs(r)'
<1>1. PICK base \in 0 .. Length[r] :
        /\ GotIs(got[r], r, base)
        /\ client[r] = "finished" => base = Length[r]
        /\ client[r] = "waiting" => LineIs(r, base)
  BY DEF StreamIs
<1>2. LineIs(r, base) => LineIs(r, base)'
  BY DEF LineIs
<1>3. GotIs(got[r], r, base)'
  BY <1>1 DEF GotIs
<1> QED  BY <1>1, <1>2, <1>3 DEF StreamIs

(* The engine answers: what it sends next is what is next. *)
IsNext(q, r, sent, next) ==
  /\ \A k \in DOMAIN q : Says(q[k], r, "success") =>
       sent < Length[r] /\ q[k].piece = Upcoming(r, sent) /\ next = NextAfter(r, sent)
  /\ \A k \in DOMAIN q : Says(q[k], r, "finished") => sent = Length[r]
  /\ next = sent \/ \E k \in DOMAIN q : Says(q[k], r, "success")

LEMMA IsAnswered ==
  ASSUME NEW r \in Requests, StreamIs(r), UNCHANGED clientVars,
         responses \in Seq(ResponseType), NEW q \in Seq(ResponseType), responses' = responses \o q,
         \A k, m \in DOMAIN q : q[k].id = r /\ q[m].id = r => k = m,
         client[r] = "idle" => \A k \in DOMAIN q : q[k].id # r,
         \A sent \in 0 .. Length[r] : SentIs(r, sent) =>
           \E next \in 0 .. Length[r] : IsNext(q, r, sent, next) /\ SentIs(r, next)'
  PROVE  StreamIs(r)'
<1>1. PICK base \in 0 .. Length[r] :
        /\ GotIs(got[r], r, base)
        /\ client[r] = "finished" => base = Length[r]
        /\ client[r] = "waiting" => LineIs(r, base)
  BY DEF StreamIs
<1>2. UNCHANGED <<client, pending, stream, got>>
  BY DEF clientVars
<1>3. ASSUME LineIs(r, base) PROVE LineIs(r, base)'
  <2>1. PICK mid \in 0 .. Length[r], sent \in 0 .. Length[r] :
          Orderly(stream[r], r, base, mid) /\ Orderly(responses, r, mid, sent) /\ SentIs(r, sent)
    BY <1>3 DEF LineIs
  <2>2. PICK next \in 0 .. Length[r] : IsNext(q, r, sent, next) /\ SentIs(r, next)'
    BY <2>1
  <2>3. Orderly(responses \o q, r, mid, next)
    BY <2>1, <2>2, OrderlyConcat DEF IsNext
  <2>4. Orderly(stream'[r], r, base, mid) /\ Orderly(responses', r, mid, next)
    BY <1>2, <2>1, <2>3
  <2> QED  BY <2>2, <2>4 DEF LineIs
<1>4. GotIs(got[r], r, base)'
  BY <1>1, <1>2 DEF GotIs
<1>5. client[r] = "idle" => \A n \in DOMAIN responses' : responses'[n].id # r
  <2>1. \A n \in DOMAIN responses' :
          \/ n \in DOMAIN responses /\ responses'[n] = responses[n]
          \/ \E k \in DOMAIN q : responses'[n] = q[k]
    BY ConcatElements
  <2> QED  BY <2>1 DEF StreamIs
<1> QED  BY <1>1, <1>2, <1>3, <1>4, <1>5 DEF StreamIs

(* Answers of a batch have one of each request. *)
LEMMA OneEach ==
  ASSUME NEW s \in Seq(Requests), NoRepeat(s),
         NEW q, DOMAIN q = DOMAIN s, \A k \in DOMAIN q : q[k].id = s[k]
  PROVE  /\ \A r \in Requests : \A k, m \in DOMAIN q : q[k].id = r /\ q[m].id = r => k = m
         /\ \A r \in Requests : r \notin Range(s) => \A k \in DOMAIN q : q[k].id # r
         /\ \A r \in Range(s) : \E k \in DOMAIN q : q[k].id = r
BY DEF NoRepeat, Range

-----------------------------------------------------------------------------
THEOREM GeriStarts == GeriInit => GeriInv
<1> SUFFICES ASSUME GeriInit PROVE GeriInv
  OBVIOUS
<1>1. GeriTypeOK
  BY DEF GeriInit, GeriTypeOK
<1>2. OnePlace /\ Alike
  BY DEF GeriInit, OnePlace, Alike, NoRepeat, Range
<1>3. Batched
  BY DEF GeriInit, Batched
<1>4. ASSUME NEW r \in Requests PROVE StreamIs(r)
  <2>1. GotIs(<<>>, r, 0)
    <3>1. FlattenSeq(<<>>) = <<>>
      BY DEF FlattenSeq
    <3>2. FirstCodes(r, 0) = <<>>
      BY DEF FirstCodes
    <3> QED  BY <3>1, <3>2 DEF GotIs
  <2>2. 0 \in 0 .. Length[r]
    BY RequestIs
  <2> QED  BY <2>1, <2>2 DEF GeriInit, StreamIs
<1> QED  BY <1>1, <1>2, <1>3, <1>4 DEF GeriInv, Streams

LEMMA GeneratePreserves ==
  ASSUME GeriInv, NEW r \in Requests, Generate(r)
  PROVE  GeriInv'
<1> USE DEF GeriInv
<1>1. /\ r \notin Range(requests) /\ r \notin Range(queue) /\ r \notin Range(batch)
      /\ client' = [client EXCEPT ![r] = "waiting"] /\ client[r] = "idle"
      /\ client \in [Requests -> {"idle", "waiting", "finished", "failed", "gone"}]
  BY DEF Generate, OnePlace, GeriTypeOK
<1>2. /\ requests' \in Seq(Requests) /\ Range(requests') = Range(requests) \cup {r} /\ NoRepeat(requests')
  BY <1>1, AppendIs DEF Generate, GeriTypeOK, OnePlace
<1>3. GeriTypeOK'
  BY <1>1, <1>2 DEF Generate, GeriTypeOK, engineVars
<1>4. OnePlace'
  BY <1>1, <1>2 DEF Generate, OnePlace, engineVars
<1>5. Alike'
  BY DEF Generate, Alike, engineVars
<1>6. Batched'
  BY <1>1 DEF Generate, Batched, engineVars
<1>7. ASSUME geri_mode = "streaming", NEW q \in Requests PROVE StreamIs(q)'
  <2>1. StreamIs(q)
    BY <1>7 DEF Streams
  <2>2. UNCHANGED <<stream, got, responses, queue, batch, start>> /\ pending' = pending \cup {r}
    BY DEF Generate, engineVars
  <2>3. CASE q # r
    <3>1. client'[q] = client[q]
      BY <1>1, <2>3
    <3>2. \A sent \in 0 .. Length[q] : SentIs(q, sent) => SentIs(q, sent)'
      BY <1>2, <2>2, <2>3 DEF SentIs
    <3> QED  BY <2>1, <2>2, <3>1, <3>2, GoesOn
  <2>4. CASE q = r
    <3>1. got[r] = <<>> /\ stream[r] = <<>> /\ \A n \in DOMAIN responses : responses[n].id # r
      BY <1>1, <2>1, <2>4 DEF StreamIs
    <3>2. PICK base \in 0 .. Length[r] : GotIs(got[r], r, base)
      BY <2>1, <2>4 DEF StreamIs
    <3>3. Length[r] \in Nat \ {0} /\ base \in Nat
      BY RequestIs, <3>2
    <3>4. base = 0
      <4>1. FirstCodes(r, base) = <<>>
        BY <3>1, <3>2 DEF GotIs, FlattenSeq
      <4>2. Len(FirstCodes(r, base)) = base
        BY <3>3, FirstCodesIs
      <4> QED  BY <4>1, <4>2
    <3>5. Orderly(stream[r], r, 0, 0)
      <4>1. stream[r] \in Seq(ResponseType) /\ 0 \in Nat
        BY DEF GeriTypeOK
      <4>2. \A n \in DOMAIN stream[r] : stream[r][n].id # r
        BY <3>1
      <4> HIDE DEF GeriInv
      <4> QED  BY <4>1, <4>2, UntoldIs
    <3>6. Orderly(responses, r, 0, 0)
      <4>1. responses \in Seq(ResponseType) /\ 0 \in Nat
        BY DEF GeriTypeOK
      <4>2. \A n \in DOMAIN responses : responses[n].id # r
        BY <3>1
      <4> HIDE DEF GeriInv
      <4> QED  BY <4>1, <4>2, UntoldIs
    <3>7. SentIs(r, 0)'
      BY <1>1, <2>2 DEF SentIs
    <3>8. LineIs(r, 0)'
      BY <2>2, <3>3, <3>5, <3>6, <3>7 DEF LineIs
    <3>9. GotIs(got[r], r, 0)'
      BY <2>2, <3>2, <3>4 DEF GotIs
    <3>10. client'[r] = "waiting"
      BY <1>1
    <3> QED  BY <2>2, <2>4, <3>1, <3>3, <3>8, <3>9, <3>10 DEF StreamIs
  <2> QED  BY <2>3, <2>4
<1>8. Streams'
  BY <1>7 DEF Streams, Generate
<1> QED  BY <1>3, <1>4, <1>5, <1>6, <1>8

LEMMA DisconnectPreserves ==
  ASSUME GeriInv, NEW r \in Requests, Disconnect(r)
  PROVE  GeriInv'
<1> USE DEF GeriInv
<1>1. /\ client \in [Requests -> {"idle", "waiting", "finished", "failed", "gone"}]
      /\ client' = [client EXCEPT ![r] = "gone"] /\ geri_mode = "streaming"
      /\ UNCHANGED <<geri_mode, pending, stream, got, requests, responses, queue, batch, start, finished>>
  BY DEF Disconnect, GeriTypeOK, engineVars
<1>2. GeriTypeOK' /\ OnePlace' /\ Alike' /\ Batched'
  BY <1>1 DEF GeriTypeOK, OnePlace, Alike, Batched
<1>3. ASSUME NEW q \in Requests PROVE StreamIs(q)'
  <2>1. StreamIs(q)
    BY <1>1 DEF Streams
  <2>2. CASE q # r
    <3>1. client'[q] = client[q]
      BY <1>1, <2>2
    <3>2. \A sent \in 0 .. Length[q] : SentIs(q, sent) => SentIs(q, sent)'
      BY <1>1 DEF SentIs
    <3> QED  BY <1>1, <2>1, <3>1, <3>2, GoesOn
  <2>3. CASE q = r
    <3>1. client'[q] = "gone"
      BY <1>1, <2>3
    <3>2. PICK base \in 0 .. Length[q] : GotIs(got[q], q, base)
      BY <2>1 DEF StreamIs
    <3>3. GotIs(got[q], q, base)'
      BY <1>1, <3>2 DEF GotIs
    <3> QED  BY <1>1, <2>1, <3>1, <3>2, <3>3 DEF StreamIs
  <2> QED  BY <2>2, <2>3
<1> QED  BY <1>2, <1>3 DEF Streams

LEMMA ListenBatchPreserves ==
  ASSUME GeriInv, ListenBatch
  PROVE  GeriInv'
<1> USE DEF GeriInv
<1> DEFINE resp == Head(responses)
<1>1. /\ responses \in Seq(ResponseType) /\ responses # <<>> /\ responses' = Tail(responses)
      /\ geri_mode = "batch" /\ pending' = pending \ {resp.id}
      /\ UNCHANGED <<geri_mode, stream, requests, queue, batch, start, finished>>
  BY DEF ListenBatch, GeriTypeOK, engineVars
<1>2. /\ resp \in ResponseType /\ Tail(responses) \in Seq(ResponseType)
      /\ \A n \in DOMAIN Tail(responses) : n + 1 \in DOMAIN responses /\ Tail(responses)[n] = responses[n + 1]
  BY <1>1, HeadTailIs
<1>3. /\ resp.id \in Requests /\ resp.status \in {"success", "finished", "error"}
      /\ resp.piece \in Seq(Requests \X Nat)
  BY <1>2 DEF ResponseType
<1>4. resp.status # "finished" /\ (resp.status = "success" => resp.piece = Codes(resp.id))
  <2>1. resp = responses[1] /\ 1 \in DOMAIN responses
    BY <1>1
  <2> HIDE DEF resp
  <2> QED  BY <1>1, <2>1 DEF Batched
<1>5. /\ client' = [q \in Requests |->
           CASE q \in { r \in pending : r = resp.id /\ resp.status = "success" } -> "finished"
             [] q \in { r \in pending : r = resp.id /\ resp.status = "error" } -> "failed"
             [] OTHER -> client[q]]
      /\ got' = [q \in Requests |->
           IF q \in { r \in pending : r = resp.id /\ resp.status = "success" }
           THEN Append(got[q], resp.piece) ELSE got[q]]
  BY DEF ListenBatch
<1>6. client \in [Requests -> {"idle", "waiting", "finished", "failed", "gone"}]
      /\ got \in [Requests -> Seq(Seq(Requests \X Nat))]
  BY DEF GeriTypeOK
<1> HIDE DEF resp
<1>7. ASSUME NEW r \in Requests
      PROVE  \/ /\ r \in pending /\ r = resp.id /\ resp.status = "success"
                /\ client'[r] = "finished" /\ got'[r] = Append(got[r], resp.piece)
             \/ /\ r \in pending /\ r = resp.id /\ resp.status = "error"
                /\ client'[r] = "failed" /\ got'[r] = got[r]
             \/ /\ ~(r \in pending /\ r = resp.id)
                /\ client'[r] = client[r] /\ got'[r] = got[r]
  <2>1. CASE r \in pending /\ r = resp.id /\ resp.status = "success"
    BY <1>5, <2>1
  <2>2. CASE r \in pending /\ r = resp.id /\ resp.status = "error"
    <3>1. ~(r \in { q \in pending : q = resp.id /\ resp.status = "success" })
      BY <2>2
    <3> QED  BY <1>5, <2>2, <3>1
  <2>3. CASE ~(r \in pending /\ r = resp.id)
    <3>1. /\ ~(r \in { q \in pending : q = resp.id /\ resp.status = "success" })
          /\ ~(r \in { q \in pending : q = resp.id /\ resp.status = "error" })
      BY <2>3
    <3> QED  BY <1>5, <2>3, <3>1
  <2> QED  BY <1>3, <1>4, <2>1, <2>2, <2>3
<1>8. GeriTypeOK'
  <2>1. client' \in [Requests -> {"idle", "waiting", "finished", "failed", "gone"}]
    <3>1. client' = [r \in Requests |-> client'[r]]
      BY <1>5, Zenon
    <3>2. \A r \in Requests : client'[r] \in {"idle", "waiting", "finished", "failed", "gone"}
      BY <1>6, <1>7
    <3> QED  BY <3>1, <3>2
  <2>2. got' \in [Requests -> Seq(Seq(Requests \X Nat))]
    <3>1. got' = [r \in Requests |-> got'[r]]
      BY <1>5, Zenon
    <3>2. \A r \in Requests : Append(got[r], resp.piece) \in Seq(Seq(Requests \X Nat))
      BY <1>3, <1>6
    <3>3. \A r \in Requests : got'[r] \in Seq(Seq(Requests \X Nat))
      BY <1>6, <1>7, <3>2
    <3> QED  BY <3>1, <3>3
  <2> QED  BY <1>1, <1>2, <2>1, <2>2 DEF GeriTypeOK
<1>9. OnePlace' /\ Alike'
  BY <1>1, <1>7 DEF OnePlace, Alike
<1>10. Streams'
  BY <1>1 DEF Streams
<1>11. Batched'
  <2>1. /\ \A n \in DOMAIN responses' :
             /\ responses'[n].status = "success" => responses'[n].piece = Codes(responses'[n].id)
             /\ responses'[n].status # "finished"
    BY <1>1, <1>2 DEF Batched
  <2>2. ASSUME NEW r \in Requests
        PROVE  /\ stream'[r] = <<>> /\ (r \in pending' <=> client'[r] = "waiting")
               /\ got'[r] = IF client'[r] = "finished" THEN <<Codes(r)>> ELSE <<>>
               /\ client'[r] # "gone"
    <3>1. /\ stream[r] = <<>> /\ (r \in pending <=> client[r] = "waiting")
          /\ got[r] = IF client[r] = "finished" THEN <<Codes(r)>> ELSE <<>>
          /\ client[r] # "gone"
      BY <1>1 DEF Batched
    <3>2. CASE r \in pending /\ r = resp.id /\ resp.status = "success"
      <4>1. got[r] = <<>> /\ resp.piece = Codes(r) /\ client'[r] = "finished"
            /\ got'[r] = Append(got[r], resp.piece)
        BY <1>4, <1>7, <3>1, <3>2
      <4>2. got'[r] = <<Codes(r)>>
        BY <4>1
      <4> QED  BY <1>1, <3>1, <3>2, <4>1, <4>2
    <3>3. CASE ~(r \in pending /\ r = resp.id /\ resp.status = "success")
      BY <1>1, <1>7, <3>1, <3>3
    <3> QED  BY <3>2, <3>3
  <2> QED  BY <2>1, <2>2 DEF Batched
<1> QED  BY <1>8, <1>9, <1>10, <1>11

LEMMA ListenStreamPreserves ==
  ASSUME GeriInv, ListenStream
  PROVE  GeriInv'
<1> USE DEF GeriInv
<1> DEFINE resp == Head(responses)
<1>1. /\ responses \in Seq(ResponseType) /\ responses # <<>> /\ responses' = Tail(responses)
      /\ geri_mode = "streaming" /\ stream \in [Requests -> Seq(ResponseType)]
      /\ stream' = [stream EXCEPT ![resp.id] = IF resp.id \in pending THEN Append(@, resp) ELSE @]
      /\ UNCHANGED <<geri_mode, client, pending, got, requests, queue, batch, start, finished>>
  BY DEF ListenStream, GeriTypeOK, engineVars
<1>2. /\ resp \in ResponseType /\ Tail(responses) \in Seq(ResponseType)
      /\ \A n \in DOMAIN Tail(responses) : n + 1 \in DOMAIN responses /\ Tail(responses)[n] = responses[n + 1]
      /\ resp = responses[1] /\ 1 \in DOMAIN responses
  BY <1>1, HeadTailIs
<1>3. resp.id \in Requests
  BY <1>2 DEF ResponseType
<1> HIDE DEF resp
<1>4. ASSUME NEW r \in Requests
      PROVE  stream'[r] = IF r = resp.id /\ r \in pending THEN Append(stream[r], resp) ELSE stream[r]
  BY <1>1
<1>5. GeriTypeOK'
  <2>1. stream' \in [Requests -> Seq(ResponseType)]
    <3>1. \A r \in Requests : stream[r] \in Seq(ResponseType) /\ Append(stream[r], resp) \in Seq(ResponseType)
      BY <1>1, <1>2
    <3> QED  BY <1>1, <1>3, <3>1
  <2> QED  BY <1>1, <1>2, <2>1 DEF GeriTypeOK
<1>6. OnePlace' /\ Alike' /\ Batched'
  BY <1>1 DEF OnePlace, Alike, Batched
<1>7. ASSUME NEW r \in Requests PROVE StreamIs(r)'
  <2>1. StreamIs(r)
    BY <1>1 DEF Streams
  <2>2. PICK base \in 0 .. Length[r] :
          /\ GotIs(got[r], r, base)
          /\ client[r] = "finished" => base = Length[r]
          /\ client[r] = "waiting" => LineIs(r, base)
    BY <2>1 DEF StreamIs
  <2>3. GotIs(got[r], r, base)'
    BY <1>1, <2>2 DEF GotIs
  <2>4. client[r] = "idle" =>
          got'[r] = <<>> /\ stream'[r] = <<>> /\ \A n \in DOMAIN responses' : responses'[n].id # r
    BY <1>1, <1>2, <1>4, <2>1 DEF StreamIs
  <2>5. \A n \in DOMAIN stream'[r] : stream'[r][n].id = r
    <3>1. CASE r = resp.id /\ r \in pending
      <4> DEFINE s == stream[r]
      <4>1. s \in Seq(ResponseType) /\ \A n \in DOMAIN s : s[n].id = r
        BY <1>1, <2>1 DEF StreamIs
      <4>2. stream'[r] = Append(s, resp)
        BY <1>4, <3>1
      <4> HIDE DEF s
      <4>3. DOMAIN Append(s, resp) = 1 .. Len(s) + 1 /\ DOMAIN s = 1 .. Len(s) /\ Len(s) \in Nat
            /\ Append(s, resp)[Len(s) + 1] = resp
        BY <1>2, <4>1
      <4>4. \A n \in 1 .. Len(s) : Append(s, resp)[n] = s[n]
        BY <1>2, <4>1
      <4> QED  BY <3>1, <4>1, <4>2, <4>3, <4>4
    <3>2. CASE ~(r = resp.id /\ r \in pending)
      BY <1>4, <2>1, <3>2 DEF StreamIs
    <3> QED  BY <3>1, <3>2
  <2>6. ASSUME client[r] = "waiting" PROVE LineIs(r, base)'
    <3>1. PICK mid \in 0 .. Length[r], sent \in 0 .. Length[r] :
            Orderly(stream[r], r, base, mid) /\ Orderly(responses, r, mid, sent) /\ SentIs(r, sent)
      BY <2>2, <2>6 DEF LineIs
    <3>2. SentIs(r, sent)'
      BY <1>1, <3>1 DEF SentIs
    <3>3. /\ Says(resp, r, "success") =>
               /\ mid < Length[r] /\ resp.piece = Upcoming(r, mid)
               /\ Orderly(Tail(responses), r, NextAfter(r, mid), sent)
          /\ ~Says(resp, r, "success") => Orderly(Tail(responses), r, mid, sent)
          /\ Says(resp, r, "finished") => mid = Length[r]
      BY <1>1, <3>1, OrderlyTail DEF resp
    <3>4. CASE r # resp.id
      <4>1. stream'[r] = stream[r] /\ ~Says(resp, r, "success")
        BY <1>4, <3>4 DEF Says
      <4>2. Orderly(stream'[r], r, base, mid) /\ Orderly(responses', r, mid, sent)
        BY <1>1, <3>1, <3>3, <4>1
      <4> QED  BY <3>2, <4>2 DEF LineIs
    <3>5. CASE r = resp.id
      <4> DEFINE next == IF Says(resp, r, "success") THEN NextAfter(r, mid) ELSE mid
                 q == <<resp>>
                 s == stream[r]
      <4>1. r \in pending
        BY <2>1, <2>6 DEF StreamIs
      <4>2. mid \in Nat /\ Length[r] \in Nat /\ next \in 0 .. Length[r]
        <5>1. CASE Says(resp, r, "success")
          <6>1. mid \in 0 .. Length[r] - 1
            BY <3>1, <3>3, <5>1, RequestIs
          <6>2. NextAfter(r, mid) \in mid + 1 .. Length[r] /\ Length[r] \in Nat /\ mid \in Nat
            BY <6>1, PieceIs, RequestIs
          <6> QED  BY <5>1, <6>2
        <5>2. CASE ~Says(resp, r, "success")
          BY <3>1, <5>2, RequestIs
        <5> QED  BY <5>1, <5>2
      <4>3. Orderly(responses', r, next, sent)
        BY <1>1, <3>3
      <4>4. s \in Seq(ResponseType) /\ q \in Seq(ResponseType) /\ stream'[r] = Append(s, resp)
        BY <1>1, <1>2, <1>4, <3>5, <4>1
      <4>5. DOMAIN q = {1} /\ q[1] = resp
        OBVIOUS
      <4>6. Append(s, resp) = s \o q
        BY <1>2, <4>4
      <4>7. /\ \A k, m \in DOMAIN q : q[k].id = r /\ q[m].id = r => k = m
            /\ \A k \in DOMAIN q : Says(q[k], r, "success") =>
                 mid < Length[r] /\ q[k].piece = Upcoming(r, mid) /\ next = NextAfter(r, mid)
            /\ \A k \in DOMAIN q : Says(q[k], r, "finished") => mid = Length[r]
            /\ next = mid \/ \E k \in DOMAIN q : Says(q[k], r, "success")
        BY <3>3, <4>5
      <4>8. Orderly(s, r, base, mid)
        BY <3>1
      <4> HIDE DEF next, q, s
      <4>9. Orderly(s \o q, r, base, next)
        BY <3>1, <4>2, <4>4, <4>7, <4>8, OrderlyConcat
      <4>10. Orderly(stream'[r], r, base, next)
        BY <4>4, <4>6, <4>9
      <4> QED  BY <3>1, <3>2, <4>2, <4>3, <4>10 DEF LineIs
    <3> QED  BY <3>4, <3>5
  <2> QED  BY <1>1, <2>1, <2>2, <2>3, <2>4, <2>5, <2>6 DEF StreamIs
<1>8. Streams'
  BY <1>7 DEF Streams
<1> QED  BY <1>5, <1>6, <1>8

LEMMA ConsumePreserves ==
  ASSUME GeriInv, NEW r \in Requests, Consume(r)
  PROVE  GeriInv'
<1> USE DEF GeriInv
<1> DEFINE s == stream[r]
           resp == Head(s)
<1>1. /\ client[r] = "waiting" /\ s # <<>> /\ s \in Seq(ResponseType)
      /\ client \in [Requests -> {"idle", "waiting", "finished", "failed", "gone"}]
      /\ stream \in [Requests -> Seq(ResponseType)] /\ got \in [Requests -> Seq(Seq(Requests \X Nat))]
      /\ UNCHANGED <<geri_mode, requests, responses, queue, batch, start, finished>>
  BY DEF Consume, GeriTypeOK, engineVars
<1>2. geri_mode = "streaming"
  BY <1>1 DEF Batched, GeriTypeOK
<1>3. /\ resp \in ResponseType /\ Tail(s) \in Seq(ResponseType)
      /\ \A n \in DOMAIN Tail(s) : n + 1 \in DOMAIN s /\ Tail(s)[n] = s[n + 1]
      /\ resp = s[1] /\ 1 \in DOMAIN s
  <2> HIDE DEF s
  <2> QED  BY <1>1, HeadTailIs
<1>4. resp.piece \in Seq(Requests \X Nat) /\ resp.status \in {"success", "finished", "error"}
  BY <1>3 DEF ResponseType
<1>5. \/ /\ resp.status = "success" /\ got' = [got EXCEPT ![r] = Append(got[r], resp.piece)]
         /\ stream' = [stream EXCEPT ![r] = Tail(s)] /\ UNCHANGED <<client, pending>>
      \/ /\ resp.status # "success" /\ pending' = pending \ {r} /\ stream' = [stream EXCEPT ![r] = <<>>]
         /\ client' = [client EXCEPT ![r] = IF resp.status = "finished" THEN "finished" ELSE "failed"]
         /\ UNCHANGED got
  BY DEF Consume
<1>6. StreamIs(r)
  BY <1>2 DEF Streams
<1>7. \A n \in DOMAIN s : s[n].id = r
  BY <1>6 DEF StreamIs
<1>8. PICK base \in 0 .. Length[r] : GotIs(got[r], r, base) /\ LineIs(r, base)
  BY <1>1, <1>6 DEF StreamIs
<1>9. PICK mid \in 0 .. Length[r], sent \in 0 .. Length[r] :
        Orderly(s, r, base, mid) /\ Orderly(responses, r, mid, sent) /\ SentIs(r, sent)
  BY <1>8 DEF LineIs
<1> HIDE DEF s
<1>10. /\ Says(resp, r, "success") =>
            /\ base < Length[r] /\ resp.piece = Upcoming(r, base)
            /\ Orderly(Tail(s), r, NextAfter(r, base), mid)
       /\ Says(resp, r, "finished") => base = Length[r]
  BY <1>1, <1>8, <1>9, OrderlyTail
<1>11. resp.id = r /\ r \in pending
  BY <1>1, <1>3, <1>6, <1>7 DEF StreamIs
<1> HIDE DEF resp
<1>12. GeriTypeOK'
  <2>1. Append(got[r], resp.piece) \in Seq(Seq(Requests \X Nat))
    BY <1>1, <1>4
  <2>2. got' \in [Requests -> Seq(Seq(Requests \X Nat))]
    BY <1>1, <1>5, <2>1
  <2>3. stream' \in [Requests -> Seq(ResponseType)]
    <3>1. <<>> \in Seq(ResponseType) /\ Tail(s) \in Seq(ResponseType)
      BY <1>3
    <3>2. PICK t \in Seq(ResponseType) : stream' = [stream EXCEPT ![r] = t]
      BY <1>5, <3>1
    <3> QED  BY <1>1, <3>2
  <2>4. client' \in [Requests -> {"idle", "waiting", "finished", "failed", "gone"}]
    BY <1>1, <1>5
  <2>5. pending' \subseteq Requests
    BY <1>5 DEF GeriTypeOK
  <2> QED  BY <1>1, <2>2, <2>3, <2>4, <2>5 DEF GeriTypeOK
<1>13. OnePlace' /\ Alike' /\ Batched'
  <2>1. \A q \in Requests : client'[q] = "idle" => client[q] = "idle"
    BY <1>1, <1>5
  <2> QED  BY <1>1, <1>2, <2>1 DEF OnePlace, Alike, Batched
<1>14. ASSUME NEW q \in Requests, q # r PROVE StreamIs(q)'
  <2>1. got'[q] = got[q] /\ stream'[q] = stream[q] /\ client'[q] = client[q] /\ (q \in pending => q \in pending')
    BY <1>1, <1>5, <1>14
  <2>2. StreamIs(q)
    BY <1>2 DEF Streams
  <2>3. PICK b \in 0 .. Length[q] :
          /\ GotIs(got[q], q, b)
          /\ client[q] = "finished" => b = Length[q]
          /\ client[q] = "waiting" => LineIs(q, b)
    BY <2>2 DEF StreamIs
  <2>4. GotIs(got'[q], q, b)
    BY <2>1, <2>3
  <2>5. LineIs(q, b) => LineIs(q, b)'
    BY <1>1, <2>1 DEF LineIs, SentIs
  <2> QED  BY <1>1, <2>1, <2>2, <2>3, <2>4, <2>5 DEF StreamIs
<1>15. StreamIs(r)'
  <2>1. CASE resp.status = "success"
    <3> DEFINE next == NextAfter(r, base)
    <3>1. base \in 0 .. Length[r] - 1 /\ resp.piece = Upcoming(r, base) /\ Orderly(Tail(s), r, next, mid)
      <4>1. Says(resp, r, "success")
        BY <1>11, <2>1 DEF Says
      <4> QED  BY <1>8, <1>10, <4>1, RequestIs
    <3>2. next \in 0 .. Length[r]
      <4>1. next \in base + 1 .. Length[r] /\ Length[r] \in Nat /\ base \in Nat
        BY <3>1, PieceIs, RequestIs
      <4> HIDE DEF next
      <4> QED  BY <4>1
    <3>3. got'[r] = Append(got[r], Upcoming(r, base)) /\ stream'[r] = Tail(s) /\ UNCHANGED <<client, pending>>
      BY <1>1, <1>5, <2>1, <3>1
    <3>4. GotIs(got'[r], r, next)
      <4>1. got[r] \in Seq(Seq(Requests \X Nat))
        BY <1>1
      <4> QED  BY <1>8, <3>1, <3>3, <4>1, GotGrows
    <3> HIDE DEF next
    <3>5. LineIs(r, next)'
      <4>1. SentIs(r, sent)'
        BY <1>1, <1>9 DEF SentIs
      <4>2. Orderly(stream'[r], r, next, mid) /\ Orderly(responses', r, mid, sent)
        BY <1>1, <1>9, <3>1, <3>3
      <4> QED  BY <1>9, <4>1, <4>2 DEF LineIs
    <3>6. \A n \in DOMAIN stream'[r] : stream'[r][n].id = r
      BY <1>3, <1>7, <3>3
    <3>7. client'[r] = "waiting" /\ r \in pending'
      BY <1>1, <1>11, <3>3
    <3> QED  BY <3>2, <3>4, <3>5, <3>6, <3>7 DEF StreamIs
  <2>2. CASE resp.status # "success"
    <3>1. /\ got'[r] = got[r] /\ stream'[r] = <<>>
          /\ client'[r] = IF resp.status = "finished" THEN "finished" ELSE "failed"
      BY <1>1, <1>5, <2>2
    <3>2. resp.status = "finished" => base = Length[r]
      BY <1>10, <1>11 DEF Says
    <3>3. GotIs(got'[r], r, base)
      BY <1>8, <3>1
    <3> QED  BY <1>8, <3>1, <3>2, <3>3 DEF StreamIs
  <2> QED  BY <2>1, <2>2
<1>16. Streams'
  BY <1>14, <1>15 DEF Streams
<1> QED  BY <1>12, <1>13, <1>16

LEMMA EnqueuePreserves ==
  ASSUME GeriInv, Enqueue
  PROVE  GeriInv'
<1> USE DEF GeriInv
<1> DEFINE r == Head(requests)
<1>1. /\ requests \in Seq(Requests) /\ requests # <<>> /\ queue \in Seq(Requests)
      /\ requests' = Tail(requests) /\ queue' = Append(queue, r)
      /\ UNCHANGED <<geri_mode, client, pending, stream, got, responses, batch, start, finished>>
  BY DEF Enqueue, GeriTypeOK, clientVars
<1>2. /\ r \in Requests /\ requests' \in Seq(Requests) /\ Range(requests) = Range(requests') \cup {r}
      /\ NoRepeat(requests') /\ r \notin Range(requests')
  BY <1>1, HeadTailIs DEF OnePlace
<1>3. r \notin Range(queue)
  BY <1>2 DEF OnePlace
<1> HIDE DEF r
<1>4. queue' \in Seq(Requests) /\ Range(queue') = Range(queue) \cup {r} /\ NoRepeat(queue')
  BY <1>1, <1>2, <1>3, AppendIs DEF OnePlace
<1>5. GeriTypeOK' /\ Alike' /\ Batched'
  BY <1>1, <1>2, <1>4 DEF GeriTypeOK, Alike, Batched
<1>6. OnePlace'
  BY <1>1, <1>2, <1>4 DEF OnePlace
<1>7. ASSUME geri_mode = "streaming", NEW q \in Requests PROVE StreamIs(q)'
  <2>1. StreamIs(q)
    BY <1>7 DEF Streams
  <2>2. \A sent \in 0 .. Length[q] : SentIs(q, sent) => SentIs(q, sent)'
    BY <1>1, <1>2, <1>4 DEF SentIs
  <2> QED  BY <1>1, <2>1, <2>2, GoesOn
<1>8. Streams'
  BY <1>1, <1>7 DEF Streams
<1> QED  BY <1>5, <1>6, <1>8

LEMMA SchedulePreserves ==
  ASSUME GeriInv, Schedule
  PROVE  GeriInv'
<1> USE DEF GeriInv
<1>1. /\ queue \in Seq(Requests) /\ queue # <<>> /\ NoRepeat(queue)
      /\ batch' = FrontBatch(queue) /\ queue' = SubSeq(queue, Len(batch') + 1, Len(queue))
      /\ start' = 0 /\ finished' = {}
      /\ UNCHANGED <<geri_mode, client, pending, stream, got, requests, responses>>
  BY DEF Schedule, GeriTypeOK, OnePlace, clientVars
<1>2. PICK k \in 1 .. Len(queue) :
        batch' = SubSeq(queue, 1, k) /\ \A i \in 1 .. k : Params[queue[i]] = Params[queue[1]]
  BY <1>1, FrontBatchIs
<1>3. /\ batch' \in Seq(Requests) /\ queue' \in Seq(Requests) /\ Range(batch') = { queue[i] : i \in 1 .. k }
      /\ Range(batch') \subseteq Range(queue) /\ Range(queue') \subseteq Range(queue)
      /\ Range(batch') \cap Range(queue') = {} /\ NoRepeat(batch') /\ NoRepeat(queue')
  BY <1>1, <1>2, SplitIs
<1>4. GeriTypeOK' /\ Batched'
  BY <1>1, <1>3 DEF GeriTypeOK, Batched
<1>5. OnePlace'
  BY <1>1, <1>3 DEF OnePlace
<1>6. Alike'
  BY <1>1, <1>2, <1>3 DEF Alike
<1>7. ASSUME geri_mode = "streaming", NEW q \in Requests PROVE StreamIs(q)'
  <2>1. StreamIs(q)
    BY <1>7 DEF Streams
  <2>2. Least(0, Length[q]) = 0
    BY RequestIs DEF Least
  <2>3. \A sent \in 0 .. Length[q] : SentIs(q, sent) => SentIs(q, sent)'
    BY <1>1, <1>3, <2>2 DEF SentIs
  <2> QED  BY <1>1, <2>1, <2>3, GoesOn
<1>8. Streams'
  BY <1>1, <1>7 DEF Streams
<1> QED  BY <1>4, <1>5, <1>6, <1>8

(* The answers with which a batch is over.                                  *)
LEMMA EndingPreserves ==
  ASSUME GeriInv, EndBatch, UNCHANGED <<geri_mode, clientVars, requests, queue>>,
         NEW q \in Seq(ResponseType), responses' = responses \o q,
         \A r \in Requests : \A k, m \in DOMAIN q : q[k].id = r /\ q[m].id = r => k = m,
         \A k \in DOMAIN q : q[k].id \in Range(batch),
         geri_mode = "batch" => \A k \in DOMAIN q :
           q[k].status # "finished" /\ (q[k].status = "success" => q[k].piece = Codes(q[k].id)),
         geri_mode = "streaming" => \A k \in DOMAIN q :
           q[k].status # "success" /\ (q[k].status = "finished" => Length[q[k].id] <= start)
  PROVE  GeriInv'
<1> USE DEF GeriInv
<1>1. batch' = <<>> /\ start' = 0 /\ finished' = {} /\ Range(batch') = {}
  BY DEF EndBatch, Range
<1>2. responses \in Seq(ResponseType) /\ responses' \in Seq(ResponseType)
  BY DEF GeriTypeOK
<1>3. UNCHANGED <<geri_mode, client, pending, stream, got, requests, queue>>
  BY DEF clientVars
<1>4. GeriTypeOK' /\ OnePlace' /\ Alike'
  BY <1>1, <1>2, <1>3 DEF GeriTypeOK, OnePlace, Alike, NoRepeat
<1>5. Batched'
  <2>1. \A n \in DOMAIN responses' :
          \/ n \in DOMAIN responses /\ responses'[n] = responses[n]
          \/ \E k \in DOMAIN q : responses'[n] = q[k]
    BY <1>2, ConcatElements
  <2> QED  BY <1>3, <2>1 DEF Batched
<1>6. ASSUME geri_mode = "streaming", NEW r \in Requests PROVE StreamIs(r)'
  <2>1. StreamIs(r)
    BY <1>6 DEF Streams
  <2>2. client[r] = "idle" => \A k \in DOMAIN q : q[k].id # r
    BY DEF OnePlace
  <2>3. ASSUME NEW sent \in 0 .. Length[r], SentIs(r, sent)
        PROVE  IsNext(q, r, sent, sent) /\ SentIs(r, sent)'
    <3>1. \A k \in DOMAIN q : Says(q[k], r, "finished") => sent = Length[r]
      <4>1. ASSUME NEW k \in DOMAIN q, Says(q[k], r, "finished") PROVE sent = Length[r]
        <5>1. r \in Range(batch) /\ Length[r] <= start
          BY <1>6, <4>1 DEF Says
        <5>2. Length[r] \in Nat /\ start \in Nat
          BY RequestIs DEF GeriTypeOK
        <5>3. sent = Least(start, Length[r])
          BY <2>3, <5>1 DEF SentIs
        <5> QED  BY <5>1, <5>2, <5>3 DEF Least
      <4> QED  BY <4>1
    <3>2. \A k \in DOMAIN q : ~Says(q[k], r, "success")
      BY <1>6 DEF Says
    <3>3. SentIs(r, sent)'
      BY <1>1, <1>3, <2>3 DEF SentIs
    <3> QED  BY <3>1, <3>2, <3>3 DEF IsNext
  <2>4. \A sent \in 0 .. Length[r] : SentIs(r, sent) =>
          \E next \in 0 .. Length[r] : IsNext(q, r, sent, next) /\ SentIs(r, next)'
    BY <2>3
  <2> HIDE DEF GeriInv
  <2> QED  BY <1>2, <2>1, <2>2, <2>4, IsAnswered
<1>7. Streams'
  BY <1>3, <1>6 DEF Streams
<1> QED  BY <1>4, <1>5, <1>7

LEMMA BatchFailsPreserves ==
  ASSUME GeriInv, BatchFails
  PROVE  GeriInv'
<1> DEFINE q == [i \in DOMAIN batch |-> Response(batch[i], "error", <<>>)]
<1>1. batch \in Seq(Requests) /\ NoRepeat(batch)
  BY DEF GeriInv, GeriTypeOK, OnePlace
<1>2. /\ q \in Seq(ResponseType) /\ DOMAIN q = DOMAIN batch
      /\ \A k \in DOMAIN q : q[k].id = batch[k] /\ q[k].status = "error" /\ q[k].id \in Range(batch)
  <2>1. \A i \in DOMAIN batch : Response(batch[i], "error", <<>>) \in ResponseType
    BY <1>1 DEF Response, ResponseType
  <2>2. DOMAIN batch = 1 .. Len(batch) /\ Len(batch) \in Nat
    BY <1>1
  <2>3. q \in Seq(ResponseType)
    BY <2>1, <2>2
  <2>4. \A k \in DOMAIN q : q[k].id = batch[k] /\ q[k].status = "error"
    BY DEF Response
  <2> QED  BY <2>3, <2>4 DEF Range
<1>3. /\ responses' = responses \o q /\ EndBatch
      /\ UNCHANGED <<geri_mode, clientVars, requests, queue>>
  BY DEF BatchFails
<1> HIDE DEF q
<1>4. \A r \in Requests : \A k, m \in DOMAIN q : q[k].id = r /\ q[m].id = r => k = m
  BY <1>1, <1>2, OneEach
<1> QED  BY <1>2, <1>3, <1>4, EndingPreserves

LEMMA ExecuteBatchPreserves ==
  ASSUME GeriInv, ExecuteBatch
  PROVE  GeriInv'
<1> DEFINE q == [i \in DOMAIN batch |-> Response(batch[i], "success", Codes(batch[i]))]
<1>1. batch \in Seq(Requests) /\ NoRepeat(batch)
  BY DEF GeriInv, GeriTypeOK, OnePlace
<1>2. /\ q \in Seq(ResponseType) /\ DOMAIN q = DOMAIN batch
      /\ \A k \in DOMAIN q : /\ q[k].id = batch[k] /\ q[k].status = "success" /\ q[k].id \in Range(batch)
                             /\ q[k].piece = Codes(q[k].id)
  <2>1. \A i \in DOMAIN batch : Response(batch[i], "success", Codes(batch[i])) \in ResponseType
    <3>1. ASSUME NEW r \in Requests PROVE Codes(r) \in Seq(Requests \X Nat)
      <4>1. Codes(r) = FirstCodes(r, Length[r]) /\ Length[r] \in Nat
        BY RequestIs DEF Codes, FirstCodes
      <4> QED  BY <4>1, FirstCodesIs
    <3> QED  BY <1>1, <3>1 DEF Response, ResponseType
  <2>2. DOMAIN batch = 1 .. Len(batch) /\ Len(batch) \in Nat
    BY <1>1
  <2>3. q \in Seq(ResponseType)
    BY <2>1, <2>2
  <2>4. \A k \in DOMAIN q :
          q[k].id = batch[k] /\ q[k].status = "success" /\ q[k].piece = Codes(batch[k])
    BY DEF Response
  <2> QED  BY <2>3, <2>4 DEF Range
<1>3. /\ responses' = responses \o q /\ EndBatch /\ geri_mode = "batch"
      /\ UNCHANGED <<geri_mode, clientVars, requests, queue>>
  BY DEF ExecuteBatch
<1> HIDE DEF q
<1>4. \A r \in Requests : \A k, m \in DOMAIN q : q[k].id = r /\ q[m].id = r => k = m
  BY <1>1, <1>2, OneEach
<1> QED  BY <1>2, <1>3, <1>4, EndingPreserves

LEMMA StreamEndsPreserves ==
  ASSUME GeriInv, StreamEnds
  PROVE  GeriInv'
<1> DEFINE s == Unfinished
           q == [i \in DOMAIN s |-> Response(s[i], "finished", <<>>)]
<1>1. batch \in Seq(Requests) /\ NoRepeat(batch)
  BY DEF GeriInv, GeriTypeOK, OnePlace
<1>2. s \in Seq(Requests) /\ NoRepeat(s) /\ Range(s) \subseteq Range(batch)
  BY <1>1, WithoutIs DEF Unfinished
<1>3. responses' = responses \o q
  BY DEF StreamEnds
<1> HIDE DEF s
<1>4. /\ q \in Seq(ResponseType) /\ DOMAIN q = DOMAIN s
      /\ \A k \in DOMAIN q : q[k].id = s[k] /\ q[k].status = "finished" /\ q[k].id \in Range(batch)
  <2>1. \A i \in DOMAIN s : Response(s[i], "finished", <<>>) \in ResponseType
    BY <1>2 DEF Response, ResponseType
  <2>2. DOMAIN s = 1 .. Len(s) /\ Len(s) \in Nat
    BY <1>2
  <2>3. q \in Seq(ResponseType)
    BY <2>1, <2>2
  <2>4. \A k \in DOMAIN q : q[k].id = s[k] /\ q[k].status = "finished"
    BY DEF Response
  <2> QED  BY <1>2, <2>3, <2>4 DEF Range
<1> HIDE DEF q
<1>5. \A r \in Requests : \A k, m \in DOMAIN q : q[k].id = r /\ q[m].id = r => k = m
  BY <1>2, <1>4, OneEach
<1>6. /\ EndBatch /\ geri_mode = "streaming" /\ batch # <<>> /\ start = MaxSeqLen
      /\ UNCHANGED <<geri_mode, clientVars, requests, queue>>
  BY DEF StreamEnds
<1>7. \A k \in DOMAIN q : Length[q[k].id] <= start
  BY <1>1, <1>4, <1>6, MaxSeqLenIs
<1> QED  BY <1>3, <1>4, <1>5, <1>6, <1>7, EndingPreserves

LEMMA StreamChunkPreserves ==
  ASSUME GeriInv, StreamChunk
  PROVE  GeriInv'
<1> USE DEF GeriInv
<1> DEFINE s == Addressed
           reply(r) == IF start < Length[r] THEN Response(r, "success", Slice(r))
                     ELSE Response(r, "finished", <<>>)
           q == [i \in DOMAIN s |-> reply(s[i])]
<1>1. /\ batch \in Seq(Requests) /\ NoRepeat(batch) /\ batch # <<>> /\ start \in Nat /\ start < MaxSeqLen
      /\ geri_mode = "streaming" /\ finished' = { r \in Range(batch) : start >= Length[r] }
      /\ start' = EndIndex
      /\ UNCHANGED <<geri_mode, client, pending, stream, got, requests, queue, batch>>
  BY DEF GeriTypeOK, OnePlace, StreamChunk, clientVars
<1>2. /\ s \in Seq(Requests) /\ NoRepeat(s)
      /\ Range(s) = Range(batch) \ { r \in finished : start >= Length[r] }
  BY <1>1, WithoutIs DEF Addressed
<1>3. responses' = responses \o q
  BY DEF StreamChunk
<1> HIDE DEF s
<1>4. \A r \in Range(batch) :
        /\ r \in Requests /\ EndIndex \in Nat /\ start < EndIndex /\ Length[r] \in Nat \ {0}
        /\ start < Length[r] => /\ Slice(r) = Upcoming(r, start)
                                /\ Least(EndIndex, Length[r]) = NextAfter(r, start)
  BY <1>1, SliceIs, RequestIs
<1>5. \A r \in Range(batch) :
        /\ reply(r) \in ResponseType /\ reply(r).id = r
        /\ reply(r).status = "success" => start < Length[r] /\ reply(r).piece = Upcoming(r, start)
        /\ reply(r).status = "finished" => Length[r] <= start
        /\ start < Length[r] => reply(r).status = "success"
  <2> SUFFICES ASSUME NEW r \in Range(batch)
               PROVE  /\ reply(r) \in ResponseType /\ reply(r).id = r
                      /\ reply(r).status = "success" => start < Length[r] /\ reply(r).piece = Upcoming(r, start)
                      /\ reply(r).status = "finished" => Length[r] <= start
                      /\ start < Length[r] => reply(r).status = "success"
    OBVIOUS
  <2>1. CASE start < Length[r]
    <3>1. start \in 0 .. Length[r] - 1
      BY <1>1, <1>4, <2>1
    <3>2. Upcoming(r, start) \in Seq(Requests \X Nat)
      BY <1>4, <3>1, PieceIs
    <3>3. reply(r) = [id |-> r, status |-> "success", piece |-> Upcoming(r, start)]
      BY <1>4, <2>1 DEF Response
    <3> QED  BY <1>4, <2>1, <3>2, <3>3 DEF ResponseType
  <2>2. CASE ~(start < Length[r])
    <3>1. reply(r) = [id |-> r, status |-> "finished", piece |-> <<>>]
      BY <2>2 DEF Response
    <3>2. Length[r] <= start
      BY <1>1, <1>4, <2>2
    <3>3. <<>> \in Seq(Requests \X Nat) /\ r \in Requests
      BY <1>4
    <3> HIDE DEF reply
    <3>4. reply(r) \in ResponseType
      BY <3>1, <3>3 DEF ResponseType
    <3> QED  BY <2>2, <3>1, <3>2, <3>4
  <2> QED  BY <2>1, <2>2
<1>6. /\ q \in Seq(ResponseType) /\ DOMAIN q = DOMAIN s /\ \A k \in DOMAIN q : q[k] = reply(s[k])
      /\ \A k \in DOMAIN q : s[k] \in Range(batch) /\ q[k].id = s[k]
  <2> HIDE DEF reply
  <2>1. DOMAIN s = 1 .. Len(s) /\ Len(s) \in Nat
    BY <1>2
  <2>2. \A k \in DOMAIN s : s[k] \in Range(batch)
    BY <1>2 DEF Range
  <2>3. \A k \in DOMAIN s : reply(s[k]) \in ResponseType /\ reply(s[k]).id = s[k]
    BY <1>5, <2>2
  <2> QED  BY <2>1, <2>2, <2>3
<1> HIDE DEF q, reply
<1>7. /\ \A r \in Requests : \A k, m \in DOMAIN q : q[k].id = r /\ q[m].id = r => k = m
      /\ \A r \in Range(s) : \E k \in DOMAIN q : q[k].id = r
  BY <1>2, <1>6, OneEach
<1>8. responses \in Seq(ResponseType) /\ responses' \in Seq(ResponseType)
  BY <1>3, <1>6 DEF GeriTypeOK
<1>9. start' \in Nat /\ start < start'
  BY <1>1, <1>4, MaxSeqLenIs
<1>10. GeriTypeOK' /\ OnePlace' /\ Batched'
  <2>1. finished' \subseteq Requests
    BY <1>1, <1>4
  <2> QED  BY <1>1, <1>8, <1>9, <2>1 DEF GeriTypeOK, OnePlace, Batched
<1>11. Alike'
  <2>1. \A r \in finished' : r \in Range(batch) /\ Length[r] <= start'
    <3>1. ASSUME NEW r \in finished' PROVE r \in Range(batch) /\ Length[r] <= start'
      <4>1. r \in Range(batch) /\ start >= Length[r]
        BY <1>1
      <4>2. Length[r] \in Nat
        BY <1>4, <4>1
      <4> QED  BY <1>1, <1>9, <4>1, <4>2
    <3> QED  BY <3>1
  <2> QED  BY <1>1, <2>1 DEF Alike
<1>12. ASSUME NEW r \in Requests PROVE StreamIs(r)'
  <2>1. StreamIs(r)
    BY <1>1 DEF Streams
  <2>2. client[r] = "idle" => \A k \in DOMAIN q : q[k].id # r
    BY <1>6 DEF OnePlace
  <2>3. ASSUME NEW sent \in 0 .. Length[r], SentIs(r, sent)
        PROVE  \E next \in 0 .. Length[r] : IsNext(q, r, sent, next) /\ SentIs(r, next)'
    <3>1. CASE r \notin Range(batch)
      <4>1. \A k \in DOMAIN q : q[k].id # r
        BY <1>6, <3>1
      <4>2. IsNext(q, r, sent, sent)
        BY <4>1 DEF IsNext, Says
      <4>3. SentIs(r, sent)'
        BY <1>1, <2>3, <3>1 DEF SentIs
      <4> QED  BY <4>2, <4>3
    <3>2. CASE r \in Range(batch)
      <4>1. /\ sent = Least(start, Length[r]) /\ Length[r] \in Nat \ {0} /\ EndIndex \in Nat
            /\ start < EndIndex
        BY <1>4, <2>3, <3>2 DEF SentIs
      <4>2. PICK next \in 0 .. Length[r] : next = Least(EndIndex, Length[r])
        BY <4>1 DEF Least
      <4>3. SentIs(r, next)'
        <5>1. r \notin Range(requests) \cup Range(queue)
          BY <3>2 DEF OnePlace
        <5> QED  BY <1>1, <4>2, <5>1 DEF SentIs
      <4>4. \A k \in DOMAIN q : q[k].id = r => q[k] = reply(r)
        BY <1>6
      <4>5. CASE start < Length[r]
        <5>1. sent = start /\ next = NextAfter(r, start)
          BY <1>4, <3>2, <4>1, <4>2, <4>5 DEF Least
        <5>2. r \in Range(s)
          <6>1. ~(start >= Length[r])
            BY <1>1, <4>1, <4>5
          <6> QED  BY <1>2, <3>2, <6>1
        <5>3. PICK k \in DOMAIN q : q[k].id = r
          BY <1>7, <5>2
        <5>4. Says(q[k], r, "success")
          BY <1>5, <3>2, <4>4, <4>5, <5>3 DEF Says
        <5>5. \A m \in DOMAIN q : Says(q[m], r, "success") =>
                start < Length[r] /\ q[m].piece = Upcoming(r, start)
          BY <1>5, <3>2, <4>4 DEF Says
        <5>6. \A m \in DOMAIN q : ~Says(q[m], r, "finished")
          BY <1>5, <3>2, <4>4, <4>5 DEF Says
        <5>7. IsNext(q, r, sent, next)
          BY <5>1, <5>4, <5>5, <5>6 DEF IsNext
        <5> QED  BY <4>2, <4>3, <5>7
      <4>6. CASE ~(start < Length[r])
        <5>1. sent = Length[r] /\ next = Length[r]
          BY <1>1, <4>1, <4>2, <4>6 DEF Least
        <5>2. \A m \in DOMAIN q : ~Says(q[m], r, "success")
          BY <1>5, <3>2, <4>4, <4>6 DEF Says
        <5>3. IsNext(q, r, sent, next)
          BY <5>1, <5>2 DEF IsNext
        <5> QED  BY <4>2, <4>3, <5>3
      <4> QED  BY <4>5, <4>6
    <3> QED  BY <3>1, <3>2
  <2>4. UNCHANGED clientVars
    BY <1>1 DEF clientVars
  <2> HIDE DEF GeriInv
  <2> QED  BY <1>3, <1>6, <1>7, <1>8, <2>1, <2>2, <2>3, <2>4, IsAnswered
<1>13. Streams'
  BY <1>12 DEF Streams
<1> QED  BY <1>10, <1>11, <1>13

-----------------------------------------------------------------------------
THEOREM GeriInvariant == GeriSpec => []GeriInv
<1>1. ASSUME GeriInv, [GeriNext]_geriVars PROVE GeriInv'
  <2>1. ASSUME NEW r \in Requests, Generate(r) \/ Disconnect(r) \/ Consume(r) PROVE GeriInv'
    BY <1>1, <2>1, GeneratePreserves, DisconnectPreserves, ConsumePreserves
  <2>2. CASE Enqueue \/ Schedule \/ BatchFails \/ ExecuteBatch \/ StreamChunk \/ StreamEnds
    BY <1>1, <2>2, EnqueuePreserves, SchedulePreserves, BatchFailsPreserves, ExecuteBatchPreserves,
       StreamChunkPreserves, StreamEndsPreserves
  <2>3. CASE ListenBatch \/ ListenStream
    BY <1>1, <2>3, ListenBatchPreserves, ListenStreamPreserves
  <2>4. CASE UNCHANGED geriVars
    <3>1. UNCHANGED <<geri_mode, client, pending, stream, got, requests, responses, queue, batch, start, finished>>
      BY <2>4 DEF geriVars, clientVars, engineVars
    <3>2. GeriTypeOK' /\ OnePlace' /\ Alike' /\ Batched'
      BY <1>1, <3>1 DEF GeriInv, GeriTypeOK, OnePlace, Alike, Batched
    <3>3. ASSUME geri_mode = "streaming", NEW r \in Requests PROVE StreamIs(r)'
      <4>1. \A sent \in 0 .. Length[r] : SentIs(r, sent) => SentIs(r, sent)'
        BY <3>1 DEF SentIs
      <4>2. StreamIs(r)
        BY <1>1, <3>3 DEF GeriInv, Streams
      <4> QED  BY <3>1, <4>1, <4>2, GoesOn
    <3>4. Streams'
      BY <3>1, <3>3 DEF Streams
    <3> QED  BY <3>2, <3>4 DEF GeriInv
  <2> QED  BY <1>1, <2>1, <2>2, <2>3, <2>4 DEF GeriNext, Progress, Rest
<1> QED  BY <1>1, GeriStarts, PTL DEF GeriSpec

(* What a client of Geri has is the beginning of its own audio, nothing of  *)
(* a neighbour, of the padding or of the context and nothing twice, cut as  *)
(* its own parameters say, and all of it when its stream has ended well:    *)
(* for every batch, every length and every size of chunk and of context     *)
(* (_execute_batch, core.py:600-665; generate, qwen3_omni_moe.py:132-177).  *)
THEOREM AnswersAreWhole == GeriSpec => []WholeAnswers
<1>1. GeriInv => WholeAnswers
  <2> SUFFICES ASSUME GeriInv, NEW r \in Requests
               PROVE  /\ IsPrefix(FlattenSeq(got[r]), Codes(r))
                      /\ geri_mode = "streaming" => \A i \in DOMAIN got[r] :
                           /\ got[r][i] # <<>> /\ Len(got[r][i]) <= Params[r].chunk_size
                           /\ i < Len(got[r]) => Len(got[r][i]) = Params[r].chunk_size
                      /\ client[r] = "finished" => FlattenSeq(got[r]) = Codes(r)
    BY DEF GeriInv, WholeAnswers
  <2>1. CASE geri_mode = "streaming"
    <3>1. PICK base \in 0 .. Length[r] :
            GotIs(got[r], r, base) /\ (client[r] = "finished" => base = Length[r])
      BY <2>1 DEF GeriInv, Streams, StreamIs
    <3>2. /\ IsPrefix(FlattenSeq(got[r]), Codes(r))
          /\ base = Length[r] => FlattenSeq(got[r]) = Codes(r)
      BY <3>1, GotMeans
    <3> QED  BY <3>1, <3>2 DEF GotIs
  <2>2. CASE geri_mode = "batch"
    <3>1. got[r] = IF client[r] = "finished" THEN <<Codes(r)>> ELSE <<>>
      BY <2>2 DEF GeriInv, Batched
    <3>2. Codes(r) \in Seq(Requests \X Nat)
      <4>1. Codes(r) = FirstCodes(r, Length[r]) /\ Length[r] \in Nat
        BY RequestIs DEF Codes, FirstCodes
      <4> QED  BY <4>1, FirstCodesIs
    <3>3. FlattenSeq(<<>>) = <<>> /\ FlattenSeq(<<Codes(r)>>) = Codes(r)
      <4> DEFINE c == Codes(r)
      <4>1. c \in Seq(Requests \X Nat)
        BY <3>2
      <4> HIDE DEF c
      <4>2. FlattenSeq(Append(<<>>, c)) = FlattenSeq(<<>>) \o c /\ FlattenSeq(<<>>) = <<>>
        <5>1. <<>> \in Seq(Seq(Requests \X Nat))
          OBVIOUS
        <5> QED  BY <4>1, <5>1, FlattenAppend
      <4>3. Append(<<>>, c) = <<c>> /\ <<>> \o c = c
        BY <4>1
      <4>4. FlattenSeq(<<c>>) = c
        BY <4>2, <4>3
      <4> QED  BY <4>2, <4>4 DEF c
    <3>4. IsPrefix(<<>>, Codes(r)) /\ IsPrefix(Codes(r), Codes(r))
      <4> DEFINE c == Codes(r)
      <4>1. c \in Seq(Requests \X Nat) /\ Len(c) \in Nat
        BY <3>2
      <4> HIDE DEF c
      <4>2. SubSeq(<<>>, 1, 0) = <<>> /\ SubSeq(c, 1, 0) = <<>> /\ Len(<<>>) = 0
        BY <4>1
      <4>3. IsPrefix(<<>>, c) /\ IsPrefix(c, c)
        BY <4>1, <4>2 DEF IsPrefix
      <4> QED  BY <4>3 DEF c
    <3> QED  BY <2>2, <3>1, <3>3, <3>4
  <2> QED  BY <2>1, <2>2 DEF GeriInv, GeriTypeOK
<1> QED  BY <1>1, GeriInvariant, PTL

-----------------------------------------------------------------------------
(* The sending Sidecar.                                                     *)
USE NumSlotsAssumption

-----------------------------------------------------------------------------
(* The slab.                                                                *)

(* Of the places where a buffer fits there is a first, which is FirstFit.   *)
LEMMA FirstFitFits ==
  ASSUME NEW occ, NEW n, Fits(occ, n) # {}
  PROVE  FirstFit(occ, n) \in Fits(occ, n)
<1>1. Fits(occ, n) \subseteq Nat
  BY DEF Fits, Slots
<1>2. PICK j \in Fits(occ, n) : \A l \in Fits(occ, n) : j <= l
  BY <1>1, LeastExists
<1> QED  BY <1>2 DEF FirstFit

(* A buffer gets slots of the slab that nobody has. *)
LEMMA AllocateIsFree ==
  ASSUME NEW occ, NEW n \in Nat \ {0}, Fits(occ, n) # {}
  PROVE  /\ Allocate(occ, n) \subseteq Slots
         /\ Allocate(occ, n) \cap occ = {}
         /\ Allocate(occ, n) # {}
<1> DEFINE j == FirstFit(occ, n)
<1>1. j \in Fits(occ, n)
  BY FirstFitFits
<1> HIDE DEF j
<1>2. Window(j, n) \cap occ = {} /\ j \in Nat /\ j + n <= NumSlots
  BY <1>1 DEF Fits, Slots
<1>3. Window(j, n) \subseteq Slots /\ j \in Window(j, n)
  BY <1>2 DEF Window, Slots
<1> QED  BY <1>2, <1>3 DEF Allocate, j

(* The destinations of a tensor are all on this node or all on others.      *)
OneKind == \A k \in Chunks : IntraDsts[k] = {} \/ InterDsts[k] = {}

(* Every worker of the group has elements of every tensor.                  *)
NoEmptyShard ==
  \A k \in Chunks, s \in Shards : ShardLength(Size[k] * SlotNumel, GroupSize, s) # 0

-----------------------------------------------------------------------------
(* The shard's copy is over. *)
Past(k, s) == send[<<k, s>>] \in {"sending", "ok", "failed"}

(* The destinations on this node that have not given the buffer back, and   *)
(* when the buffer has been freed.                                          *)
Pending(k) == { d \in IntraDsts[k] : unlink[<<k, d>>] # "done" }
Freed(k) == IF IntraDsts[k] = {} THEN shards_sent[k] = Copiers ELSE Pending(k) = {}
Held(k) == slots[k] # {} /\ ~Freed(k)

HeldApart ==
  \A k \in Chunks : Held(k) =>
    /\ slots[k] \subseteq occupancy
    /\ \A l \in Chunks \ {k} : Held(l) => slots[k] \cap slots[l] = {}

(* Who needs the buffer has it. *)
Buffered ==
  \A k \in Chunks :
    /\ malloc_events[k] = "set" => slots[k] # {}
    /\ slots[k] # {} => \E s \in Shards : <<k, s>> \in first
    /\ \A s \in Shards :
         /\ send[<<k, s>>] \in {"copying", "sending"} => slots[k] # {}
         /\ s \in ready[k] => slots[k] # {}

(* One call of a chunk is the first. *)
OneFirst ==
  \A k \in Chunks, s \in Shards :
    /\ <<k, s>> \in first => s \in Copiers /\ (concurrent_copy => malloc_events[k] # "none")
    /\ \A t \in Shards : <<k, s>> \in first /\ <<k, t>> \in first => s = t
    /\ send[<<k, s>>] \in {"memwait", "memwoken"} => <<k, s>> \in first

CopiesDone ==
  \A k \in Chunks :
    /\ k \in done_events => ready[k] = Copiers
    /\ \A s \in Shards :
         /\ send[<<k, s>>] \notin {"idle", "ok"} => s \in Copiers
         /\ s \in ready[k] => s \in Copiers /\ Past(k, s)
         /\ s \in shards_sent[k] => send[<<k, s>>] = "ok"

(* What the part of a shard for a destination says of the shard's copy, and *)
(* on this node of the copies of all shards.                                *)
PartIs(k, s, d) ==
  /\ out[<<k, s, d>>] # "none" => s \in ready[k]
  /\ s \in shards_sent[k] => out[<<k, s, d>>] = "ok"
  /\ d \in IntraDsts[k] =>
       /\ out[<<k, s, d>>] # "transfer"
       /\ s # 0 => out[<<k, s, d>>] \in {"none", "ok"}
       /\ s = 0 /\ out[<<k, s, d>>] \notin {"none", "waitdone"} => ready[k] = Copiers
PartsCopied == \A k \in Chunks, s \in Shards : \A d \in Dsts(k) : PartIs(k, s, d)

(* The tracker counts who has to give the buffer back; the first call makes *)
(* it when its shard is copied, and nothing is given back before.           *)
Tracked ==
  \A k \in Chunks :
    /\ k \in saved_buffers => Pending(k) # {} /\ ref_counts[k] = Cardinality(Pending(k))
    /\ k \in saved_buffers \/ Pending(k) # IntraDsts[k] =>
         \E t \in Shards : <<k, t>> \in first /\ Past(k, t)
    /\ \A d \in IntraDsts[k] : unlink[<<k, d>>] # "no" => Told(k, d)
    /\ \A s \in Shards :
         <<k, s>> \in first /\ s \in ready[k] /\ ~Empty(k, s) /\ IntraDsts[k] # {} =>
           k \in saved_buffers \/ Pending(k) = {}

NotRefused == NoEmptyShard => \A u \in IntraPairs : unlink[u] # "refused"

SendInv ==
  /\ TypeOK /\ HeldApart /\ Buffered /\ OneFirst
  /\ CopiesDone /\ PartsCopied /\ Tracked /\ NotRefused

-----------------------------------------------------------------------------
LEMMA Places ==
  /\ 0 \in Shards /\ Copiers \subseteq Shards
  /\ \A k \in Chunks, s \in Shards : \A d \in Dsts(k) : <<k, s, d>> \in Outs
  /\ \A k \in Chunks : \A d \in IntraDsts[k] :
       <<k, d>> \in IntraPairs /\ d \in Dsts(k) /\ d \notin InterDsts[k]
  /\ \A k \in Chunks : \A d \in InterDsts[k] : d \in Dsts(k)
<1>1. 0 \in Shards
  BY SenderAssumption DEF Shards
<1>2. Copiers \subseteq Shards
  BY <1>1 DEF Copiers
<1>3. \A k \in Chunks, s \in Shards : \A d \in Dsts(k) : <<k, s, d>> \in Outs
  BY DEF Outs
<1>4. \A k \in Chunks : \A d \in IntraDsts[k] :
        <<k, d>> \in IntraPairs /\ d \in Dsts(k) /\ d \notin InterDsts[k]
  BY SenderAssumption DEF IntraPairs, Dsts
<1>5. \A k \in Chunks : \A d \in InterDsts[k] : d \in Dsts(k)
  BY DEF Dsts
<1> QED  BY <1>1, <1>2, <1>3, <1>4, <1>5

LEMMA SenderInit == Init => SendInv
<1> SUFFICES ASSUME Init PROVE SendInv
  OBVIOUS
<1>1. TypeOK
  BY SenderAssumption DEF Init, TypeOK, SendStates, OutStates
<1>2. \A k \in Chunks : slots[k] = {} /\ malloc_events[k] = "none" /\ ready[k] = {} /\ shards_sent[k] = {}
  BY DEF Init
<1>3. /\ first = {} /\ saved_buffers = {} /\ done_events = {}
      /\ \A k \in Chunks, s \in Shards : send[<<k, s>>] = "idle"
      /\ \A k \in Chunks, s \in Shards : \A d \in Dsts(k) : out[<<k, s, d>>] = "none"
      /\ \A u \in IntraPairs : unlink[u] = "no"
  BY Places DEF Init
<1>4. \A k \in Chunks : Pending(k) = IntraDsts[k]
  BY <1>3, Places DEF Pending
<1>5. HeldApart /\ Buffered
  BY <1>2, <1>3 DEF HeldApart, Buffered, Held
<1>6. OneFirst /\ CopiesDone /\ PartsCopied
  BY <1>2, <1>3 DEF OneFirst, CopiesDone, PartsCopied, PartIs
<1>7. Tracked /\ NotRefused
  BY <1>2, <1>3, <1>4, Places DEF Tracked, NotRefused
<1> QED  BY <1>1, <1>5, <1>6, <1>7 DEF SendInv

-----------------------------------------------------------------------------
(* The calls that have no buffer yet, or have just got it.                  *)

(* Slots are given to chunk k, or to nobody. *)
Given(k) ==
  \/ UNCHANGED <<occupancy, slots>>
  \/ \E A \in SUBSET Slots :
       /\ A # {} /\ A \cap occupancy = {}
       /\ occupancy' = occupancy \cup A
       /\ slots' = [slots EXCEPT ![k] = A]

(* What a call does before its copy is over. *)
Enters(k, s) ==
  /\ send[<<k, s>>] \in {"idle", "memwoken", "waiting"}
  /\ send'[<<k, s>>] \in {"ok", "copying", "waiting", "memwait", "failed"}
  /\ \A l \in Chunks, t \in Shards : <<l, t>> # <<k, s>> => send'[<<l, t>>] = send[<<l, t>>]
  /\ s \in Copiers \/ send'[<<k, s>>] = "ok"
  /\ \A l \in Chunks \ {k} : /\ ready'[l] = ready[l] /\ malloc_events'[l] = malloc_events[l]
                             /\ l \in done_events' => l \in done_events
  /\ \/ ready'[k] = ready[k] /\ (k \in done_events' => k \in done_events)
     \/ /\ Empty(k, s) /\ s \in Copiers /\ send'[<<k, s>>] = "ok"
        /\ ready'[k] = ready[k] \cup {s}
        /\ k \in done_events' => k \in done_events \/ ready'[k] = Copiers
        /\ slots'[k] # {}
  /\ send'[<<k, s>>] = "copying" \/ malloc_events'[k] = "set" => slots'[k] # {}
  /\ send'[<<k, s>>] = "memwait" => <<k, s>> \in first'
  /\ \/ first' = first /\ (concurrent_copy => malloc_events[k] = "none" \/ malloc_events'[k] # "none")
     \/ /\ first' = first \cup {<<k, s>>} /\ send[<<k, s>>] = "idle" /\ s \in Copiers
        /\ concurrent_copy => malloc_events[k] = "none" /\ malloc_events'[k] # "none"
        /\ ~concurrent_copy => s = 0
  /\ slots'[k] = slots[k] \/ <<k, s>> \in first'
  /\ Given(k)
  /\ UNCHANGED <<shards_sent, saved_buffers, ref_counts, concurrent_copy, out, unlink>>

LEMMA EntersInv ==
  ASSUME SendInv, TypeOK', NEW k \in Chunks, NEW s \in Shards, Enters(k, s)
  PROVE  SendInv'
<1>1. /\ Copiers' = Copiers
      /\ \A l \in Chunks : Pending(l)' = Pending(l) /\ Freed(l)' = Freed(l)
      /\ \A l \in Chunks : \A d \in IntraDsts[l] : Told(l, d)' = Told(l, d)
      /\ \A l \in Chunks, t \in Shards : Empty(l, t)' = Empty(l, t)
  BY DEF Enters, Copiers, Pending, Freed, Told, Empty
<1>2. /\ \A l \in Chunks \ {k} : slots'[l] = slots[l]
      /\ \A l \in Chunks : slots[l] # {} => slots'[l] # {}
  <2>1. \A l \in Chunks \ {k} : slots'[l] = slots[l]
    BY SMTT(30) DEF SendInv, TypeOK, Enters, Given
  <2>2. slots[k] # {} => slots'[k] # {}
    BY SMTT(30) DEF SendInv, TypeOK, Enters, Given
  <2> QED  BY <2>1, <2>2
<1>3. HeldApart'
  <2>1. CASE UNCHANGED <<occupancy, slots>>
    BY <1>1, <2>1 DEF SendInv, HeldApart, Held
  <2>2. ASSUME NEW A \in SUBSET Slots, A \cap occupancy = {},
               occupancy' = occupancy \cup A, slots' = [slots EXCEPT ![k] = A]
        PROVE  HeldApart'
    <3>1. slots'[k] = A
      BY <2>2 DEF SendInv, TypeOK
    <3>2. \A l \in Chunks \ {k} : Held(l)' => Held(l) /\ slots'[l] = slots[l]
      BY <1>1, <1>2 DEF Held
    <3>3. \A l \in Chunks \ {k} : Held(l)' => slots'[l] \subseteq occupancy /\ slots'[l] \cap A = {}
      BY <2>2, <3>2 DEF SendInv, HeldApart
    <3>4. \A l \in Chunks : Held(l)' => slots'[l] \subseteq occupancy'
      BY <2>2, <3>1, <3>3
    <3>5. \A l, m \in Chunks : l # m /\ Held(l)' /\ Held(m)' => slots'[l] \cap slots'[m] = {}
      <4>1. \A l, m \in Chunks \ {k} : l # m /\ Held(l)' /\ Held(m)' => slots'[l] \cap slots'[m] = {}
        BY <3>2 DEF SendInv, HeldApart
      <4> QED  BY <3>1, <3>3, <4>1
    <3> QED  BY <3>4, <3>5 DEF HeldApart
  <2> QED  BY <2>1, <2>2 DEF Enters, Given
<1>4. Buffered'
  <2>1. \A l \in Chunks : malloc_events'[l] = "set" => slots'[l] # {}
    BY <1>2 DEF SendInv, Buffered, Enters
  <2>2. \A l \in Chunks : slots'[l] # {} => \E t \in Shards : <<l, t>> \in first'
    BY <1>2 DEF SendInv, Buffered, Enters
  <2>3. \A l \in Chunks, t \in Shards : send'[<<l, t>>] \in {"copying", "sending"} => slots'[l] # {}
    BY <1>2 DEF SendInv, Buffered, Enters
  <2>4. \A l \in Chunks, t \in Shards : t \in ready'[l] => slots'[l] # {}
    BY <1>2 DEF SendInv, Buffered, Enters
  <2> QED  BY <2>1, <2>2, <2>3, <2>4 DEF Buffered
<1>5. OneFirst'
  <2>1. \A l \in Chunks, t \in Shards :
          <<l, t>> \in first' => t \in Copiers /\ (concurrent_copy => malloc_events'[l] # "none")
    BY DEF SendInv, OneFirst, Enters
  <2>2. \A l \in Chunks, t, w \in Shards : <<l, t>> \in first' /\ <<l, w>> \in first' => t = w
    <3>1. CASE first' = first
      BY <3>1 DEF SendInv, OneFirst
    <3>2. CASE first' = first \cup {<<k, s>>} /\ \A t \in Shards : <<k, t>> \in first => t = s
      BY <3>2 DEF SendInv, OneFirst
    <3>3. CASE first' = first \cup {<<k, s>>}
      <4>1. \A t \in Shards : <<k, t>> \in first => t = s
        <5>1. CASE concurrent_copy
          BY <5>1, <3>3 DEF SendInv, OneFirst, Enters
        <5>2. CASE ~concurrent_copy
          BY <5>2, <3>3 DEF SendInv, OneFirst, Enters, Copiers
        <5> QED  BY <5>1, <5>2
      <4> QED  BY <3>2, <3>3, <4>1
    <3> QED  BY <3>1, <3>3 DEF Enters
  <2>3. \A l \in Chunks, t \in Shards :
          send'[<<l, t>>] \in {"memwait", "memwoken"} => <<l, t>> \in first'
    <3>1. ASSUME NEW l \in Chunks, NEW t \in Shards, <<l, t>> # <<k, s>>,
                 send'[<<l, t>>] \in {"memwait", "memwoken"}
          PROVE  <<l, t>> \in first'
      <4>1. send[<<l, t>>] \in {"memwait", "memwoken"}
        BY <3>1 DEF Enters
      <4>2. <<l, t>> \in first
        BY <4>1 DEF SendInv, OneFirst
      <4> QED  BY <4>2 DEF Enters
    <3>2. send'[<<k, s>>] \in {"memwait", "memwoken"} => <<k, s>> \in first'
      BY DEF Enters
    <3> QED  BY <3>1, <3>2
  <2> QED  BY <1>1, <2>1, <2>2, <2>3 DEF OneFirst, Enters
<1>6. s \notin ready[k] /\ s \notin shards_sent[k]
  BY DEF SendInv, CopiesDone, Past, Enters
<1>7. CopiesDone'
  <2>1. \A l \in Chunks : l \in done_events' => ready'[l] = Copiers
    <3>1. \A l \in Chunks : l \in done_events => ready[l] = Copiers
      BY DEF SendInv, CopiesDone
    <3>2. \A l \in Chunks \ {k} : l \in done_events' => ready'[l] = Copiers
      BY <3>1 DEF Enters
    <3>3. k \in done_events' => ready'[k] = Copiers
      <4>1. k \in done_events => s \notin Copiers
        BY <1>6, <3>1
      <4> QED  BY <3>1, <4>1 DEF Enters
    <3> QED  BY <3>2, <3>3
  <2>2. \A l \in Chunks, t \in Shards : send'[<<l, t>>] \notin {"idle", "ok"} => t \in Copiers
    BY DEF SendInv, CopiesDone, Enters
  <2>3. \A l \in Chunks, t \in Shards : t \in ready'[l] => t \in Copiers /\ Past(l, t)'
    BY <1>6 DEF SendInv, CopiesDone, Enters, Past
  <2>4. \A l \in Chunks, t \in Shards : t \in shards_sent'[l] => send'[<<l, t>>] = "ok"
    BY <1>6 DEF SendInv, CopiesDone, Enters
  <2> QED  BY <1>1, <2>1, <2>2, <2>3, <2>4 DEF CopiesDone
<1>8. \A l \in Chunks : /\ ready[l] \subseteq ready'[l]
                        /\ ready[l] = Copiers => ready'[l] = Copiers
  BY DEF Enters
<1>9. PartsCopied'
  <2>1. UNCHANGED <<out, shards_sent>>
    BY DEF Enters
  <2>2. ASSUME NEW l \in Chunks, NEW t \in Shards, NEW d \in Dsts(l), PartIs(l, t, d)
        PROVE  PartIs(l, t, d)'
    BY <1>1, <1>8, <2>1, <2>2 DEF PartIs
  <2> QED  BY <2>2 DEF SendInv, PartsCopied, Dsts
<1>10. Tracked'
  <2>1. \A l \in Chunks, t \in Shards : <<l, t>> \in first /\ Past(l, t) => <<l, t>> \in first' /\ Past(l, t)'
    BY DEF Enters, Past
  <2>2. \A l \in Chunks, t \in Shards :
          <<l, t>> \in first' /\ t \in ready'[l] /\ ~Empty(l, t) => <<l, t>> \in first /\ t \in ready[l]
    BY <1>6 DEF Enters
  <2>3. UNCHANGED <<saved_buffers, ref_counts, unlink>>
    BY DEF Enters
  <2> QED  BY <1>1, <2>1, <2>2, <2>3 DEF SendInv, Tracked
<1>11. NotRefused'
  BY DEF SendInv, NotRefused, Enters
<1> QED  BY <1>3, <1>4, <1>5, <1>7, <1>9, <1>10, <1>11 DEF SendInv

(* With the buffer at hand. *)
LEMMA StartCopyIs ==
  ASSUME TypeOK, NEW k \in Chunks, NEW s \in Shards, s \in Copiers, StartCopy(k, s)
  PROVE  /\ send' \in [Chunks \X Shards -> SendStates] /\ ready' \in [Chunks -> SUBSET Shards]
         /\ done_events' \subseteq Chunks
         /\ send'[<<k, s>>] \in {"ok", "copying"}
         /\ \A l \in Chunks, t \in Shards : <<l, t>> # <<k, s>> => send'[<<l, t>>] = send[<<l, t>>]
         /\ \A l \in Chunks \ {k} : ready'[l] = ready[l] /\ (l \in done_events' => l \in done_events)
         /\ \/ ready'[k] = ready[k] /\ (k \in done_events' => k \in done_events)
            \/ /\ Empty(k, s) /\ send'[<<k, s>>] = "ok" /\ ready'[k] = ready[k] \cup {s}
               /\ k \in done_events' => k \in done_events \/ ready'[k] = Copiers
<1>1. <<k, s>> \in Chunks \X Shards /\ send \in [Chunks \X Shards -> SendStates]
  BY DEF TypeOK
<1>2. CASE Empty(k, s)
  <2>1. /\ ready' = [ready EXCEPT ![k] = @ \cup {s}] /\ send' = [send EXCEPT ![<<k, s>>] = "ok"]
        /\ done_events' = IF ready[k] \cup {s} = Copiers THEN done_events \cup {k} ELSE done_events
    BY <1>2 DEF StartCopy, MarkShardReady
  <2>2. ready' \in [Chunks -> SUBSET Shards] /\ ready'[k] = ready[k] \cup {s}
        /\ \A l \in Chunks \ {k} : ready'[l] = ready[l]
    BY <2>1 DEF TypeOK
  <2>3. send' \in [Chunks \X Shards -> SendStates] /\ send'[<<k, s>>] = "ok"
        /\ \A l \in Chunks, t \in Shards : <<l, t>> # <<k, s>> => send'[<<l, t>>] = send[<<l, t>>]
    BY <1>1, <2>1 DEF SendStates
  <2>4. done_events' \subseteq Chunks
    BY <2>1 DEF TypeOK
  <2> QED  BY <1>2, <2>1, <2>2, <2>3, <2>4
<1>3. CASE ~Empty(k, s)
  <2>1. send' = [send EXCEPT ![<<k, s>>] = "copying"] /\ UNCHANGED <<ready, done_events>>
    BY <1>3 DEF StartCopy
  <2>2. send' \in [Chunks \X Shards -> SendStates] /\ send'[<<k, s>>] = "copying"
        /\ \A l \in Chunks, t \in Shards : <<l, t>> # <<k, s>> => send'[<<l, t>>] = send[<<l, t>>]
    BY <1>1, <2>1 DEF SendStates
  <2> QED  BY <2>1, <2>2 DEF TypeOK
<1> QED  BY <1>2, <1>3

LEMMA AllocatedIs ==
  ASSUME TypeOK, NEW k \in Chunks, NEW s \in Shards, s \in Copiers,
         Fits(occupancy, Size[k]) # {}, Allocated(k, s)
  PROVE  /\ Given(k) /\ slots'[k] # {}
         /\ occupancy' \subseteq Slots /\ slots' \in [Chunks -> SUBSET Slots]
         /\ malloc_events' \in [Chunks -> {"none", "clear", "set"}] /\ ledger' \subseteq Chunks
         /\ \A l \in Chunks \ {k} : malloc_events'[l] = malloc_events[l]
         /\ IF concurrent_copy THEN malloc_events'[k] = "set" ELSE malloc_events'[k] = malloc_events[k]
         /\ StartCopy(k, s)
<1> DEFINE A == Allocate(occupancy, Size[k])
<1>1. A \subseteq Slots /\ A \cap occupancy = {} /\ A # {}
  BY AllocateIsFree, SenderAssumption
<1> HIDE DEF A
<1>2. occupancy' = occupancy \cup A /\ slots' = [slots EXCEPT ![k] = A] /\ StartCopy(k, s)
  BY DEF Allocated, A
<1>3. Given(k)
  BY <1>1, <1>2 DEF Given
<1>4. slots'[k] # {} /\ slots' \in [Chunks -> SUBSET Slots] /\ occupancy' \subseteq Slots
  BY <1>1, <1>2 DEF TypeOK
<1>5. /\ malloc_events' \in [Chunks -> {"none", "clear", "set"}] /\ ledger' \subseteq Chunks
      /\ \A l \in Chunks \ {k} : malloc_events'[l] = malloc_events[l]
      /\ IF concurrent_copy THEN malloc_events'[k] = "set" ELSE malloc_events'[k] = malloc_events[k]
  BY DEF Allocated, TypeOK
<1> QED  BY <1>2, <1>3, <1>4, <1>5

LEMMA NoBufferIs ==
  ASSUME TypeOK, NEW k \in Chunks, NEW s \in Shards, NEW state \in SendStates, NoBuffer(k, s, state)
  PROVE  /\ Given(k) /\ UNCHANGED <<occupancy, slots, ledger, ready, done_events>>
         /\ malloc_events' \in [Chunks -> {"none", "clear", "set"}]
         /\ \A l \in Chunks \ {k} : malloc_events'[l] = malloc_events[l]
         /\ IF concurrent_copy THEN malloc_events'[k] = "clear" ELSE malloc_events' = malloc_events
         /\ send' \in [Chunks \X Shards -> SendStates] /\ send'[<<k, s>>] = state
         /\ \A l \in Chunks, t \in Shards : <<l, t>> # <<k, s>> => send'[<<l, t>>] = send[<<l, t>>]
<1>1. UNCHANGED <<occupancy, slots, ledger, ready, done_events>>
  BY DEF NoBuffer, memVars
<1>2. send' = [send EXCEPT ![<<k, s>>] = state] /\ <<k, s>> \in Chunks \X Shards
  BY DEF NoBuffer
<1>3. /\ send' \in [Chunks \X Shards -> SendStates] /\ send'[<<k, s>>] = state
      /\ \A l \in Chunks, t \in Shards : <<l, t>> # <<k, s>> => send'[<<l, t>>] = send[<<l, t>>]
  BY <1>2 DEF TypeOK
<1>4. /\ malloc_events' \in [Chunks -> {"none", "clear", "set"}]
      /\ \A l \in Chunks \ {k} : malloc_events'[l] = malloc_events[l]
      /\ IF concurrent_copy THEN malloc_events'[k] = "clear" ELSE malloc_events' = malloc_events
  BY DEF NoBuffer, TypeOK
<1> QED  BY <1>1, <1>3, <1>4 DEF Given

LEMMA SendFirstInv ==
  ASSUME SendInv, NEW k \in Chunks, NEW s \in Shards, SendFirst(k, s)
  PROVE  SendInv'
<1>1. /\ TypeOK /\ send[<<k, s>>] = "idle" /\ first' = first \cup {<<k, s>>}
      /\ concurrent_copy => malloc_events[k] = "none"
      /\ ~concurrent_copy => s = 0
      /\ UNCHANGED <<shards_sent, saved_buffers, ref_counts, concurrent_copy, out, unlink>>
  BY DEF SendFirst, SendInv
<1>2. s \in Copiers /\ first' \subseteq Chunks \X Shards /\ <<k, s>> \in first'
  BY <1>1 DEF Copiers, TypeOK
<1>3. CASE Fits(occupancy, Size[k]) # {} /\ Allocated(k, s)
  <2>1. TypeOK'
    BY <1>1, <1>2, <1>3, AllocatedIs, StartCopyIs DEF TypeOK
  <2>2. Enters(k, s)
    BY <1>1, <1>2, <1>3, AllocatedIs, StartCopyIs DEF Enters
  <2> QED  BY <2>1, <2>2, EntersInv
<1>4. ASSUME NEW state \in {"memwait", "failed"}, NoBuffer(k, s, state)
      PROVE  SendInv'
  <2>1. state \in SendStates
    BY DEF SendStates
  <2>2. TypeOK'
    BY <1>1, <1>2, <1>4, <2>1, NoBufferIs DEF TypeOK
  <2>3. malloc_events'[k] = "set" => slots'[k] # {}
    BY <1>1, <1>4, <2>1, NoBufferIs DEF SendInv, Buffered
  <2>4. Enters(k, s)
    BY <1>1, <1>2, <1>4, <2>1, <2>3, NoBufferIs DEF Enters
  <2> QED  BY <2>2, <2>4, EntersInv
<1> QED  BY <1>3, <1>4 DEF SendFirst

LEMMA RetryAllocateInv ==
  ASSUME SendInv, NEW k \in Chunks, NEW s \in Shards, RetryAllocate(k, s)
  PROVE  SendInv'
<1>1. /\ TypeOK /\ send[<<k, s>>] = "memwoken"
      /\ UNCHANGED <<shards_sent, saved_buffers, ref_counts, first, concurrent_copy, out, unlink>>
  BY DEF RetryAllocate, SendInv
<1>2. s \in Copiers /\ <<k, s>> \in first'
  BY <1>1 DEF SendInv, CopiesDone, OneFirst
<1>3. CASE Fits(occupancy, Size[k]) # {} /\ Allocated(k, s)
  <2>1. TypeOK'
    BY <1>1, <1>2, <1>3, AllocatedIs, StartCopyIs DEF TypeOK
  <2>2. Enters(k, s)
    BY <1>1, <1>2, <1>3, AllocatedIs, StartCopyIs, ZenonT(40) DEF Enters
  <2> QED  BY <2>1, <2>2, EntersInv
<1>4. CASE NoBuffer(k, s, "memwait")
  <2>1. "memwait" \in SendStates
    BY DEF SendStates
  <2>2. TypeOK'
    BY <1>1, <1>2, <1>4, <2>1, NoBufferIs DEF TypeOK
  <2>3. malloc_events'[k] = "set" => slots'[k] # {}
    BY <1>1, <1>4, <2>1, NoBufferIs DEF SendInv, Buffered
  <2>4. Enters(k, s)
    BY <1>1, <1>2, <1>4, <2>1, <2>3, NoBufferIs DEF Enters
  <2> QED  BY <2>2, <2>4, EntersInv
<1> QED  BY <1>3, <1>4 DEF RetryAllocate

LEMMA LaterInv ==
  ASSUME SendInv, NEW k \in Chunks, NEW s \in Shards, SendLater(k, s) \/ ResumeLater(k, s)
  PROVE  SendInv'
<1>1. /\ TypeOK /\ send[<<k, s>>] \in {"idle", "waiting"} /\ s \in Copiers
      /\ UNCHANGED <<occupancy, slots, malloc_events, ledger>>
      /\ UNCHANGED <<shards_sent, saved_buffers, ref_counts, first, concurrent_copy, out, unlink>>
  <2>1. s \in Copiers
    BY DEF SendLater, ResumeLater, SendInv, CopiesDone, Copiers
  <2> QED  BY <2>1 DEF SendLater, ResumeLater, SendInv, memVars
<1>2. Given(k) /\ (malloc_events'[k] = "set" => slots'[k] # {})
  BY <1>1 DEF Given, SendInv, Buffered
<1>3. CASE malloc_events[k] = "set" /\ StartCopy(k, s)
  <2>1. TypeOK'
    BY <1>1, <1>3, StartCopyIs DEF TypeOK
  <2>2. Enters(k, s)
    BY <1>1, <1>2, <1>3, StartCopyIs DEF Enters
  <2> QED  BY <2>1, <2>2, EntersInv
<1>4. CASE send' = [send EXCEPT ![<<k, s>>] = "waiting"] /\ UNCHANGED <<ready, done_events>>
  <2>1. <<k, s>> \in Chunks \X Shards /\ send \in [Chunks \X Shards -> SendStates]
    BY <1>1 DEF TypeOK
  <2>2. /\ send' \in [Chunks \X Shards -> SendStates] /\ send'[<<k, s>>] = "waiting"
        /\ \A l \in Chunks, t \in Shards : <<l, t>> # <<k, s>> => send'[<<l, t>>] = send[<<l, t>>]
    BY <1>4, <2>1 DEF SendStates
  <2>3. TypeOK'
    BY <1>1, <1>4, <2>2 DEF TypeOK
  <2>4. Enters(k, s)
    BY <1>1, <1>2, <1>4, <2>2 DEF Enters
  <2> QED  BY <2>3, <2>4, EntersInv
<1> QED  BY <1>3, <1>4 DEF SendLater, ResumeLater

LEMMA SendIgnoredInv ==
  ASSUME SendInv, NEW k \in Chunks, NEW s \in Shards, SendIgnored(k, s)
  PROVE  SendInv'
<1>1. /\ TypeOK /\ send[<<k, s>>] = "idle" /\ ~concurrent_copy
      /\ send' = [send EXCEPT ![<<k, s>>] = "ok"]
      /\ UNCHANGED <<occupancy, slots, malloc_events, ledger, ready, done_events, first>>
      /\ UNCHANGED <<shards_sent, saved_buffers, ref_counts, concurrent_copy, out, unlink>>
  BY DEF SendIgnored, SendInv, memVars, bookVars
<1>2. <<k, s>> \in Chunks \X Shards /\ send \in [Chunks \X Shards -> SendStates]
  BY <1>1 DEF TypeOK
<1>3. /\ send' \in [Chunks \X Shards -> SendStates] /\ send'[<<k, s>>] = "ok"
      /\ \A l \in Chunks, t \in Shards : <<l, t>> # <<k, s>> => send'[<<l, t>>] = send[<<l, t>>]
  BY <1>1, <1>2 DEF SendStates
<1>4. TypeOK'
  BY <1>1, <1>3 DEF TypeOK
<1>5. Enters(k, s)
  BY <1>1, <1>3 DEF Enters, Given, SendInv, Buffered
<1> QED  BY <1>4, <1>5, EntersInv

-----------------------------------------------------------------------------
(* The shard's copy ends. *)
LEMMA CopiedInv ==
  ASSUME SendInv, NEW k \in Chunks, NEW s \in Shards, Copied(k, s)
  PROVE  SendInv'
<1>1. /\ TypeOK /\ send[<<k, s>>] = "copying" /\ send' = [send EXCEPT ![<<k, s>>] = "sending"]
      /\ ready' = [ready EXCEPT ![k] = @ \cup {s}]
      /\ done_events' = IF ready[k] \cup {s} = Copiers THEN done_events \cup {k} ELSE done_events
      /\ out' = [o \in Outs |-> IF o[1] = k /\ o[2] = s THEN FirstOut(k, s, o[3]) ELSE out[o]]
      /\ UNCHANGED <<occupancy, slots, malloc_events, ledger, shards_sent, first, concurrent_copy, unlink>>
  BY DEF Copied, MarkShardReady, SendInv, memVars
<1>2. /\ <<k, s>> \in Chunks \X Shards /\ send \in [Chunks \X Shards -> SendStates]
      /\ ready \in [Chunks -> SUBSET Shards] /\ out \in [Outs -> OutStates]
  BY <1>1 DEF TypeOK
<1>3. /\ send' \in [Chunks \X Shards -> SendStates] /\ send'[<<k, s>>] = "sending"
      /\ \A l \in Chunks, t \in Shards : <<l, t>> # <<k, s>> => send'[<<l, t>>] = send[<<l, t>>]
  BY <1>1, <1>2 DEF SendStates
<1>4. /\ ready' \in [Chunks -> SUBSET Shards] /\ ready'[k] = ready[k] \cup {s}
      /\ \A l \in Chunks \ {k} : ready'[l] = ready[l]
  BY <1>1, <1>2
<1>5. /\ out' \in [Outs -> OutStates]
      /\ \A l \in Chunks, t \in Shards : \A d \in Dsts(l) :
           out'[<<l, t, d>>] = IF l = k /\ t = s THEN FirstOut(k, s, d) ELSE out[<<l, t, d>>]
  <2>1. \A d : FirstOut(k, s, d) \in OutStates
    BY DEF FirstOut, OutStates
  <2> QED  BY <1>1, <1>2, <2>1, Places
<1>6. \/ /\ <<k, s>> \in first /\ IntraDsts[k] # {}
         /\ saved_buffers' = saved_buffers \cup {k}
         /\ ref_counts' = [ref_counts EXCEPT ![k] = Cardinality(IntraDsts[k])]
      \/ /\ ~(<<k, s>> \in first /\ IntraDsts[k] # {})
         /\ UNCHANGED <<saved_buffers, ref_counts>>
  BY DEF Copied, RefCount
<1>7. Cardinality(IntraDsts[k]) \in Nat
  BY SenderAssumption, FS_CardinalityType
<1>8. TypeOK'
  <2>1. done_events' \subseteq Chunks
    BY <1>1 DEF TypeOK
  <2>2. saved_buffers' \subseteq Chunks /\ ref_counts' \in [Chunks -> Nat]
    BY <1>1, <1>6, <1>7 DEF TypeOK
  <2> QED  BY <1>1, <1>3, <1>4, <1>5, <2>1, <2>2 DEF TypeOK
<1>9. /\ Copiers' = Copiers
      /\ \A l \in Chunks : Pending(l)' = Pending(l) /\ Freed(l)' = Freed(l) /\ Held(l)' = Held(l)
      /\ \A l \in Chunks, t \in Shards : Empty(l, t)' = Empty(l, t)
  BY <1>1 DEF Copiers, Pending, Freed, Held, Empty
<1>10. HeldApart'
  BY <1>1, <1>9 DEF SendInv, HeldApart
<1>11. slots[k] # {}
  BY <1>1 DEF SendInv, Buffered
<1>12. Buffered'
  BY <1>1, <1>3, <1>4, <1>11 DEF SendInv, Buffered
<1>13. OneFirst'
  BY <1>1, <1>3, <1>9 DEF SendInv, OneFirst
<1>14. s \in Copiers /\ s \notin shards_sent[k] /\ s \notin ready[k]
  BY <1>1 DEF SendInv, CopiesDone, Past
<1>15. CopiesDone'
  <2>1. \A l \in Chunks : l \in done_events' => ready'[l] = Copiers
    BY <1>1, <1>4, <1>14 DEF SendInv, CopiesDone
  <2>2. ASSUME NEW l \in Chunks, NEW t \in Shards, <<l, t>> # <<k, s>>
        PROVE  /\ send'[<<l, t>>] \notin {"idle", "ok"} => t \in Copiers
               /\ t \in ready'[l] => t \in Copiers /\ Past(l, t)'
               /\ t \in shards_sent'[l] => send'[<<l, t>>] = "ok"
    <3>1. /\ send'[<<l, t>>] = send[<<l, t>>] /\ shards_sent' = shards_sent
          /\ t \in ready'[l] => t \in ready[l]
      BY <1>1, <1>3, <1>4, <2>2
    <3> QED  BY <3>1 DEF SendInv, CopiesDone, Past
  <2>3. s \notin shards_sent'[k] /\ Past(k, s)'
    BY <1>1, <1>3, <1>14 DEF Past
  <2>4. \A l \in Chunks, t \in Shards :
          /\ send'[<<l, t>>] \notin {"idle", "ok"} => t \in Copiers
          /\ t \in ready'[l] => t \in Copiers /\ Past(l, t)'
          /\ t \in shards_sent'[l] => send'[<<l, t>>] = "ok"
    BY <1>14, <2>2, <2>3
  <2> QED  BY <1>9, <2>1, <2>4 DEF CopiesDone
(* A single copy is of all shards. *)
<1>16. s = 0 /\ ~concurrent_copy => ready'[k] = Copiers
  <2>1. \A t \in ready[k] : t \in Copiers
    BY <1>2 DEF SendInv, CopiesDone
  <2> QED  BY <1>4, <2>1 DEF Copiers
<1>17. PartsCopied'
  <2>1. \A l \in Chunks : ready[l] \subseteq ready'[l] /\ (ready[l] = Copiers => ready'[l] = Copiers)
    <3>1. ready[k] = Copiers => s \in ready[k]
      BY <1>14
    <3> QED  BY <1>4, <1>14, <3>1
  <2>2. ASSUME NEW l \in Chunks, NEW t \in Shards, NEW d \in Dsts(l), ~(l = k /\ t = s)
        PROVE  PartIs(l, t, d)'
    <3>1. PartIs(l, t, d) /\ out'[<<l, t, d>>] = out[<<l, t, d>>]
      BY <1>5, <2>2 DEF SendInv, PartsCopied
    <3> QED  BY <1>1, <1>9, <2>1, <3>1 DEF PartIs
  <2>3. ASSUME NEW d \in Dsts(k)
        PROVE  PartIs(k, s, d)'
    <3>1. out'[<<k, s, d>>] = FirstOut(k, s, d) /\ s \in ready'[k] /\ s \notin shards_sent'[k]
      BY <1>1, <1>4, <1>5, <1>14
    <3>2. d \in IntraDsts[k] =>
            FirstOut(k, s, d) = IF s # 0 THEN "ok" ELSE IF concurrent_copy THEN "waitdone" ELSE "preparing"
      BY Places DEF FirstOut
    <3> QED  BY <1>9, <1>16, <3>1, <3>2 DEF PartIs
  <2>4. \A l \in Chunks, t \in Shards : \A d \in Dsts(l) : PartIs(l, t, d)'
    BY <2>2, <2>3
  <2> QED  BY <2>4 DEF PartsCopied, Dsts
<1>18. \A l \in Chunks, t \in Shards : Past(l, t) => Past(l, t)'
  BY <1>1, <1>3 DEF Past
<1>19. Past(k, s)' /\ ~Past(k, s)
  BY <1>1, <1>3 DEF Past
(* The one that makes the tracker is the first to.                          *)
<1>20. <<k, s>> \in first => k \notin saved_buffers /\ Pending(k) = IntraDsts[k]
  <2>1. SUFFICES ASSUME <<k, s>> \in first, k \in saved_buffers \/ Pending(k) # IntraDsts[k]
                 PROVE  FALSE
    OBVIOUS
  <2>2. PICK t \in Shards : <<k, t>> \in first /\ Past(k, t)
    BY <2>1 DEF SendInv, Tracked
  <2>3. t = s
    BY <2>1, <2>2 DEF SendInv, OneFirst
  <2> QED  BY <1>19, <2>2, <2>3
<1>21. \A l \in Chunks \ {k} :
          /\ l \in saved_buffers' <=> l \in saved_buffers
          /\ ref_counts'[l] = ref_counts[l]
  BY <1>1, <1>6 DEF TypeOK
<1>22. Tracked'
  <2>1. ASSUME NEW l \in Chunks, l \in saved_buffers'
        PROVE  Pending(l) # {} /\ ref_counts'[l] = Cardinality(Pending(l))
    <3>1. CASE l # k
      BY <1>21, <2>1, <3>1 DEF SendInv, Tracked
    <3>2. CASE l = k /\ <<k, s>> \in first /\ IntraDsts[k] # {}
      BY <1>1, <1>6, <1>20, <3>2 DEF TypeOK
    <3>3. CASE l = k /\ ~(<<k, s>> \in first /\ IntraDsts[k] # {})
      BY <1>6, <2>1, <3>3 DEF SendInv, Tracked
    <3> QED  BY <3>1, <3>2, <3>3
  <2>2. ASSUME NEW l \in Chunks, l \in saved_buffers' \/ Pending(l) # IntraDsts[l]
        PROVE  \E t \in Shards : <<l, t>> \in first' /\ Past(l, t)'
    <3>1. CASE l \in saved_buffers \/ Pending(l) # IntraDsts[l]
      BY <1>1, <1>18, <3>1 DEF SendInv, Tracked
    <3>2. CASE l \notin saved_buffers /\ l \in saved_buffers'
      BY <1>1, <1>6, <1>19, <3>2
    <3> QED  BY <2>2, <3>1, <3>2
  <2>3. ASSUME NEW l \in Chunks, NEW d \in IntraDsts[l], unlink'[<<l, d>>] # "no"
        PROVE  Told(l, d)'
    <3>1. Told(l, d)
      BY <1>1, <2>3 DEF SendInv, Tracked
    <3>2. out[<<l, 0, d>>] # "none" /\ d \in Dsts(l) /\ 0 \in Shards
      BY <3>1, Places DEF Told
    <3>3. ~(l = k /\ 0 = s)
      BY <1>14, <3>2 DEF SendInv, PartsCopied, PartIs
    <3> QED  BY <1>5, <3>1, <3>2, <3>3 DEF Told
  <2>4. ASSUME NEW l \in Chunks, NEW t \in Shards,
               <<l, t>> \in first', t \in ready'[l], ~Empty(l, t), IntraDsts[l] # {}
        PROVE  l \in saved_buffers' \/ Pending(l) = {}
    <3>1. CASE l = k /\ t = s
      BY <1>1, <1>6, <2>4, <3>1
    <3>2. CASE ~(l = k /\ t = s)
      <4>1. t \in ready[l]
        BY <1>4, <2>4, <3>2
      <4>2. l \in saved_buffers \/ Pending(l) = {}
        BY <1>1, <2>4, <4>1 DEF SendInv, Tracked
      <4> QED  BY <1>6, <4>2
    <3> QED  BY <3>1, <3>2
  <2> QED  BY <1>9, <2>1, <2>2, <2>3, <2>4 DEF Tracked
<1>23. NotRefused'
  BY <1>1 DEF SendInv, NotRefused
<1> QED  BY <1>8, <1>10, <1>12, <1>13, <1>15, <1>17, <1>22, <1>23 DEF SendInv

-----------------------------------------------------------------------------
(* One of the parts goes on; what it says stays true. *)
LEMMA PartInv ==
  ASSUME SendInv, NEW o \in Outs,
         AllCopied(o) \/ Handled(o) \/ Abort(o) \/ Answered(o) \/ Transferred(o)
  PROVE  SendInv'
<1> DEFINE k == o[1]
           s == o[2]
           d == o[3]
<1>1. k \in Chunks /\ s \in Shards /\ d \in Dsts(k) /\ o = <<k, s, d>>
  BY DEF Outs
<1> HIDE DEF k, s, d
<1>2. /\ TypeOK /\ UNCHANGED <<memVars, bookVars, ready, send, unlink>>
      /\ out' = [out EXCEPT ![o] = out'[o]] /\ out \in [Outs -> OutStates]
      /\ out[o] \in {"waitdone", "preparing", "handled", "transfer"}
      /\ out'[o] \in {"preparing", "handled", "aborted", "transfer", "ok"}
      /\ out[o] = "waitdone" => k \in done_events
      /\ out'[o] = "transfer" => d \in InterDsts[k]
      /\ out[o] = "handled" => d \in InterDsts[k] \/ out'[o] = "ok"
  BY <1>1 DEF k, d, AllCopied, Handled, Abort, Answered, Transferred, Part, SendInv, TypeOK
<1>3. UNCHANGED <<occupancy, slots, malloc_events, done_events, ledger, shards_sent, saved_buffers,
                  ref_counts, first, concurrent_copy>>
  BY <1>2 DEF memVars, bookVars
<1>4. out' \in [Outs -> OutStates] /\ \A x \in Outs : x # o => out'[x] = out[x]
  BY <1>2 DEF OutStates
<1>5. TypeOK'
  BY <1>2, <1>3, <1>4 DEF TypeOK
<1>6. /\ Copiers' = Copiers
      /\ \A l \in Chunks : Pending(l)' = Pending(l) /\ Held(l)' = Held(l)
      /\ \A l \in Chunks, t \in Shards : Past(l, t)' = Past(l, t) /\ Empty(l, t)' = Empty(l, t)
  BY <1>2, <1>3 DEF Copiers, Pending, Freed, Held, Past, Empty
<1>7. HeldApart' /\ Buffered' /\ OneFirst' /\ NotRefused'
  <2>1. HeldApart'
    BY <1>3, <1>6 DEF SendInv, HeldApart
  <2>2. Buffered'
    BY <1>2, <1>3 DEF SendInv, Buffered
  <2>3. OneFirst'
    BY <1>2, <1>3, <1>6 DEF SendInv, OneFirst
  <2>4. NotRefused'
    BY <1>2 DEF SendInv, NotRefused
  <2> QED  BY <2>1, <2>2, <2>3, <2>4
<1>8. CopiesDone'
  BY <1>2, <1>3, <1>6 DEF SendInv, CopiesDone
<1>9. PartsCopied'
  <2>1. ASSUME NEW l \in Chunks, NEW t \in Shards, NEW e \in Dsts(l), <<l, t, e>> # o
        PROVE  PartIs(l, t, e)'
    <3>1. PartIs(l, t, e) /\ out'[<<l, t, e>>] = out[<<l, t, e>>]
      BY <1>4, <2>1, Places DEF SendInv, PartsCopied
    <3> QED  BY <1>2, <1>3, <1>6, <3>1 DEF PartIs
  <2>2. PartIs(k, s, d)'
    <3>1. PartIs(k, s, d)
      BY <1>1 DEF SendInv, PartsCopied
    <3>2. out[<<k, s, d>>] = "waitdone" => ready[k] = Copiers
      BY <1>1, <1>2 DEF SendInv, CopiesDone
    <3>3. d \in IntraDsts[k] => d \notin InterDsts[k]
      BY <1>1, Places
    <3> QED  BY <1>1, <1>2, <1>3, <1>6, <3>1, <3>2, <3>3 DEF PartIs
  <2>3. \A l \in Chunks, t \in Shards : \A e \in Dsts(l) : PartIs(l, t, e)'
    BY <1>1, <2>1, <2>2
  <2> QED  BY <2>3 DEF PartsCopied, Dsts
<1>10. Tracked'
  <2>1. ASSUME NEW l \in Chunks, NEW e \in IntraDsts[l], Told(l, e)
        PROVE  Told(l, e)'
    <3>1. <<l, 0, e>> \in Outs /\ e \notin InterDsts[l]
      BY Places
    <3>2. CASE <<l, 0, e>> = o
      BY <1>1, <1>2, <2>1, <3>1, <3>2 DEF Told
    <3>3. CASE <<l, 0, e>> # o
      BY <1>4, <2>1, <3>1, <3>3 DEF Told
    <3> QED  BY <3>2, <3>3
  <2> QED  BY <1>2, <1>3, <1>6, <2>1 DEF SendInv, Tracked
<1> QED  BY <1>5, <1>7, <1>8, <1>9, <1>10 DEF SendInv

-----------------------------------------------------------------------------
(* The buffer is freed, and those who wait for memory are woken.            *)

Woken(l, t) ==
  \/ send'[<<l, t>>] = send[<<l, t>>]
  \/ send[<<l, t>>] = "memwait" /\ send'[<<l, t>>] = "memwoken"

LEMMA FreedApart ==
  ASSUME HeldApart, NEW k \in Chunks, UNCHANGED slots,
         \A l \in Chunks : Held(l)' => Held(l),
         \/ occupancy' = occupancy
         \/ occupancy' = occupancy \ slots[k] /\ Held(k) /\ ~Held(k)'
  PROVE  HeldApart'
<1>1. \A l \in Chunks : Held(l)' => slots[l] \subseteq occupancy'
  <2>1. CASE occupancy' = occupancy
    BY <2>1 DEF HeldApart
  <2>2. CASE occupancy' = occupancy \ slots[k] /\ Held(k) /\ ~Held(k)'
    <3>1. \A l \in Chunks : Held(l)' => l # k /\ slots[l] \subseteq occupancy /\ slots[k] \cap slots[l] = {}
      BY <2>2 DEF HeldApart
    <3> QED  BY <2>2, <3>1
  <2> QED  BY <2>1, <2>2
<1>2. \A l, m \in Chunks : l # m /\ Held(l)' /\ Held(m)' => slots[l] \cap slots[m] = {}
  BY DEF HeldApart
<1> QED  BY <1>1, <1>2 DEF HeldApart

(* A call whose parts are over returns. *)
Returns(k, s) ==
  /\ send[<<k, s>>] = "sending" /\ send'[<<k, s>>] \in {"ok", "failed"}
  /\ \A l \in Chunks, t \in Shards : <<l, t>> # <<k, s>> => Woken(l, t)
  /\ \A l \in Chunks \ {k} : shards_sent'[l] = shards_sent[l]
  /\ \/ shards_sent'[k] = shards_sent[k] /\ occupancy' = occupancy
     \/ /\ IntraDsts[k] = {} /\ send'[<<k, s>>] = "ok"
        /\ \A d \in Dsts(k) : out[<<k, s, d>>] = "ok"
        /\ shards_sent'[k] = shards_sent[k] \cup {s}
        /\ \/ occupancy' = occupancy
           \/ occupancy' = occupancy \ slots[k] /\ shards_sent'[k] = Copiers
  /\ UNCHANGED <<slots, malloc_events, done_events, ready, saved_buffers, ref_counts, first,
                 concurrent_copy, out, unlink>>

LEMMA ReturnsInv ==
  ASSUME SendInv, TypeOK', NEW k \in Chunks, NEW s \in Shards, Returns(k, s)
  PROVE  SendInv'
<1>1. /\ Copiers' = Copiers
      /\ \A l \in Chunks : Pending(l)' = Pending(l)
      /\ \A l \in Chunks, t \in Shards : Empty(l, t)' = Empty(l, t)
  BY DEF Returns, Copiers, Pending, Empty
<1>2. s \in Copiers /\ s \notin shards_sent[k] /\ slots[k] # {}
  BY DEF SendInv, CopiesDone, Buffered, Returns
<1>3. HeldApart'
  <2>1. \A l \in Chunks : Held(l)' => Held(l)
    <3>1. \A l \in Chunks \ {k} : Held(l)' => Held(l)
      BY <1>1 DEF Returns, Held, Freed
    <3>2. Held(k)' => Held(k)
      BY <1>1, <1>2 DEF Returns, Held, Freed
    <3> QED  BY <3>1, <3>2
  <2>2. IntraDsts[k] = {} => Held(k)
    BY <1>2 DEF Held, Freed
  <2>3. IntraDsts[k] = {} /\ shards_sent'[k] = Copiers => ~Held(k)'
    BY <1>1 DEF Held, Freed
  <2> QED  BY <2>1, <2>2, <2>3, FreedApart DEF SendInv, Returns
<1>4. Buffered'
  <2>1. \A l \in Chunks, t \in Shards :
          send'[<<l, t>>] \in {"copying", "sending"} => send[<<l, t>>] \in {"copying", "sending"}
    BY DEF Returns, Woken
  <2> QED  BY <2>1 DEF SendInv, Buffered, Returns
<1>5. OneFirst'
  <2>1. \A l \in Chunks, t \in Shards :
          send'[<<l, t>>] \in {"memwait", "memwoken"} => send[<<l, t>>] \in {"memwait", "memwoken"}
    BY DEF Returns, Woken
  <2> QED  BY <1>1, <2>1 DEF SendInv, OneFirst, Returns
<1>6. \A l \in Chunks, t \in Shards : Past(l, t) => Past(l, t)'
  BY DEF Past, Returns, Woken
<1>7. CopiesDone'
  <2>1. \A l \in Chunks, t \in Shards : send'[<<l, t>>] \notin {"idle", "ok"} => t \in Copiers
    <3>1. \A l \in Chunks, t \in Shards :
            send'[<<l, t>>] \notin {"idle", "ok"} => send[<<l, t>>] \notin {"idle", "ok"}
      BY DEF Returns, Woken
    <3> QED  BY <3>1 DEF SendInv, CopiesDone
  <2>2. \A l \in Chunks, t \in Shards : t \in ready'[l] => t \in Copiers /\ Past(l, t)'
    BY <1>6 DEF SendInv, CopiesDone, Returns
  <2>3. \A l \in Chunks, t \in Shards : t \in shards_sent'[l] => send'[<<l, t>>] = "ok"
    <3>1. \A l \in Chunks, t \in Shards : t \in shards_sent[l] => send'[<<l, t>>] = "ok"
      BY <1>2 DEF SendInv, CopiesDone, Returns, Woken
    <3> QED  BY <3>1 DEF Returns
  <2> QED  BY <1>1, <2>1, <2>2, <2>3 DEF SendInv, CopiesDone, Returns
<1>8. PartsCopied'
  <2>1. ASSUME NEW l \in Chunks, NEW t \in Shards, NEW d \in Dsts(l)
        PROVE  PartIs(l, t, d)'
    <3>1. PartIs(l, t, d)
      BY DEF SendInv, PartsCopied
    <3>2. t \in shards_sent'[l] => out[<<l, t, d>>] = "ok"
      BY <3>1 DEF PartIs, Returns
    <3> QED  BY <1>1, <3>1, <3>2 DEF PartIs, Returns
  <2> QED  BY <2>1 DEF PartsCopied, Dsts
<1>9. Tracked' /\ NotRefused'
  <2>1. UNCHANGED <<saved_buffers, ref_counts, first, ready, unlink, out>>
    BY DEF Returns
  <2>2. Tracked'
    BY <1>1, <1>6, <2>1 DEF SendInv, Tracked, Told
  <2>3. NotRefused'
    BY <2>1 DEF SendInv, NotRefused
  <2> QED  BY <2>2, <2>3
<1> QED  BY <1>3, <1>4, <1>5, <1>7, <1>8, <1>9 DEF SendInv

(* What notify_all does to the calls. *)
LEMMA NotifyIs ==
  ASSUME TypeOK, NEW k \in Chunks, NEW s \in Shards, NEW state \in SendStates,
         NotifyMemory(<<k, s>>, state)
  PROVE  /\ send' \in [Chunks \X Shards -> SendStates] /\ send'[<<k, s>>] = state
         /\ \A l \in Chunks, t \in Shards : <<l, t>> # <<k, s>> => Woken(l, t)
<1>1. "memwoken" \in SendStates
  BY DEF SendStates
<1>2. send' \in [Chunks \X Shards -> SendStates]
  BY <1>1 DEF NotifyMemory, TypeOK
<1>3. \A l \in Chunks, t \in Shards : <<l, t>> \in Chunks \X Shards
  OBVIOUS
<1>4. send'[<<k, s>>] = state /\ \A l \in Chunks, t \in Shards : <<l, t>> # <<k, s>> => Woken(l, t)
  BY <1>3 DEF NotifyMemory, Woken
<1> QED  BY <1>2, <1>4

LEMMA GatheredInv ==
  ASSUME SendInv, NEW k \in Chunks, NEW s \in Shards, Gathered(k, s)
  PROVE  SendInv'
<1>1. /\ TypeOK /\ send[<<k, s>>] = "sending"
      /\ UNCHANGED <<slots, malloc_events, done_events, ready, saved_buffers, ref_counts, first,
                     concurrent_copy, out, unlink>>
  BY DEF Gathered, SendInv
<1>2. \A d \in Dsts(k) : out[<<k, s, d>>] = "ok"
  <2>1. \A d \in Dsts(k) : <<k, s, d>> \in PartsOf(k, s)
    BY Places DEF PartsOf
  <2> QED  BY <2>1 DEF Gathered
<1>3. "ok" \in SendStates
  BY DEF SendStates
<1>4. send' = [send EXCEPT ![<<k, s>>] = "ok"] =>
        /\ send' \in [Chunks \X Shards -> SendStates] /\ send'[<<k, s>>] = "ok"
        /\ \A l \in Chunks, t \in Shards : <<l, t>> # <<k, s>> => Woken(l, t)
  BY <1>1, <1>3 DEF TypeOK, Woken
<1>5. shards_sent' = [shards_sent EXCEPT ![k] = @ \cup {s}] =>
        /\ shards_sent' \in [Chunks -> SUBSET Shards] /\ shards_sent'[k] = shards_sent[k] \cup {s}
        /\ \A l \in Chunks \ {k} : shards_sent'[l] = shards_sent[l]
  BY <1>1 DEF TypeOK
<1>6. CASE send' = [send EXCEPT ![<<k, s>>] = "ok"] /\ UNCHANGED <<occupancy, ledger, shards_sent>>
  <2>1. TypeOK'
    BY <1>1, <1>4, <1>6 DEF TypeOK
  <2>2. Returns(k, s)
    BY <1>1, <1>4, <1>6 DEF Returns
  <2> QED  BY <2>1, <2>2, ReturnsInv
<1>7. CASE /\ IntraDsts[k] = {} /\ send' = [send EXCEPT ![<<k, s>>] = "ok"]
           /\ shards_sent' = [shards_sent EXCEPT ![k] = @ \cup {s}] /\ UNCHANGED <<occupancy, ledger>>
  <2>1. TypeOK'
    BY <1>1, <1>4, <1>5, <1>7 DEF TypeOK
  <2>2. Returns(k, s)
    BY <1>1, <1>2, <1>4, <1>5, <1>7 DEF Returns
  <2> QED  BY <2>1, <2>2, ReturnsInv
<1>8. CASE /\ IntraDsts[k] = {} /\ LastSent(k, s) /\ NotifyMemory(<<k, s>>, "ok")
           /\ shards_sent' = [shards_sent EXCEPT ![k] = @ \cup {s}]
           /\ ledger' = ledger \ {k} /\ occupancy' = occupancy \ slots[k]
  <2>1. /\ send' \in [Chunks \X Shards -> SendStates] /\ send'[<<k, s>>] = "ok"
        /\ \A l \in Chunks, t \in Shards : <<l, t>> # <<k, s>> => Woken(l, t)
    BY <1>1, <1>3, <1>8, NotifyIs
  <2>2. TypeOK'
    BY <1>1, <1>5, <1>8, <2>1 DEF TypeOK
  <2>3. Returns(k, s)
    BY <1>1, <1>2, <1>5, <1>8, <2>1 DEF Returns, LastSent
  <2> QED  BY <2>2, <2>3, ReturnsInv
<1> QED  BY <1>6, <1>7, <1>8 DEF Gathered

LEMMA GatherRaisesInv ==
  ASSUME SendInv, NEW k \in Chunks, NEW s \in Shards, GatherRaises(k, s)
  PROVE  SendInv'
<1>1. /\ TypeOK /\ send[<<k, s>>] = "sending" /\ send' = [send EXCEPT ![<<k, s>>] = "failed"]
      /\ UNCHANGED <<memVars, bookVars, ready, out, unlink>>
  BY DEF GatherRaises, SendInv
<1>2. "failed" \in SendStates
  BY DEF SendStates
<1>3. /\ send' \in [Chunks \X Shards -> SendStates] /\ send'[<<k, s>>] = "failed"
      /\ \A l \in Chunks, t \in Shards : <<l, t>> # <<k, s>> => Woken(l, t)
  BY <1>1, <1>2 DEF TypeOK, Woken
<1>4. TypeOK'
  BY <1>1, <1>3 DEF TypeOK, memVars, bookVars
<1>5. Returns(k, s)
  BY <1>1, <1>3 DEF Returns, memVars, bookVars
<1> QED  BY <1>4, <1>5, ReturnsInv

-----------------------------------------------------------------------------
(* A receiver gives the buffer back.                                        *)

(* With a tracker it counts the destination, and no buffer is freed before  *)
(* the last of them.                                                        *)
LEMMA UnlinkIs ==
  ASSUME SendInv, NEW k \in Chunks, NEW d \in IntraDsts[k], Unlink(k, d)
  PROVE  /\ unlink' \in [IntraPairs -> {"no", "done", "refused"}]
         /\ \A u \in IntraPairs : u # <<k, d>> => unlink'[u] = unlink[u]
         /\ unlink'[<<k, d>>] \in {"done", "refused"}
         /\ \/ /\ unlink'[<<k, d>>] = "refused" /\ ~NoEmptyShard
               /\ Pending(k)' = Pending(k)
               /\ UNCHANGED <<occupancy, saved_buffers, ref_counts, send>>
            \/ /\ unlink'[<<k, d>>] = "done" /\ k \in saved_buffers
               /\ Pending(k)' = Pending(k) \ {d}
               /\ ref_counts' = [ref_counts EXCEPT ![k] = @ - 1]
               /\ ref_counts'[k] = Cardinality(Pending(k)')
               /\ \/ /\ Pending(k)' # {}
                     /\ UNCHANGED <<occupancy, saved_buffers, send>>
                  \/ /\ Pending(k)' = {}
                     /\ saved_buffers' = saved_buffers \ {k}
                     /\ occupancy' = occupancy \ slots[k]
                     /\ NotifyMemory(<<k, 0>>, send[<<k, 0>>])
<1>1. /\ TypeOK /\ Told(k, d) /\ unlink[<<k, d>>] = "no" /\ <<k, d>> \in IntraPairs
      /\ UNCHANGED <<slots, malloc_events, done_events, ledger, ready, shards_sent, first,
                     concurrent_copy, out>>
  BY Places DEF Unlink, SendInv
<1>2. 0 \in Shards /\ 0 \in Copiers /\ d \in Pending(k) /\ IntraDsts[k] # {}
  BY <1>1, Places DEF Copiers, Pending
<1>3. ready[k] = Copiers /\ slots[k] # {}
  <2>1. PartIs(k, 0, d)
    BY <1>2, Places DEF SendInv, PartsCopied
  <2>2. ready[k] = Copiers
    BY <1>1, <2>1 DEF PartIs, Told
  <2> QED  BY <1>2, <2>2 DEF SendInv, Buffered
<1>4. PICK t \in Shards : <<k, t>> \in first /\ t \in ready[k] /\ Past(k, t)
  <2>1. PICK t \in Shards : <<k, t>> \in first
    BY <1>3 DEF SendInv, Buffered
  <2>2. t \in ready[k]
    BY <1>3, <2>1 DEF SendInv, OneFirst
  <2>3. Past(k, t)
    BY <2>2 DEF SendInv, CopiesDone
  <2> QED  BY <2>1, <2>2, <2>3
<1>5. IsFiniteSet(Pending(k)) /\ Cardinality(Pending(k)) \in Nat
  BY SenderAssumption, FS_Subset, FS_CardinalityType DEF Pending
<1>6. /\ unlink' \in [IntraPairs -> {"no", "done", "refused"}]
      /\ \A u \in IntraPairs : u # <<k, d>> => unlink'[u] = unlink[u]
      /\ unlink'[<<k, d>>] \in {"done", "refused"}
  BY <1>1 DEF Unlink, TypeOK
<1>7. \/ /\ unlink'[<<k, d>>] = "refused" /\ ~NoEmptyShard
         /\ Pending(k)' = Pending(k)
         /\ UNCHANGED <<occupancy, saved_buffers, ref_counts, send>>
      \/ /\ unlink'[<<k, d>>] = "done" /\ k \in saved_buffers
         /\ Pending(k)' = Pending(k) \ {d}
         /\ ref_counts' = [ref_counts EXCEPT ![k] = @ - 1]
         /\ ref_counts'[k] = Cardinality(Pending(k)')
         /\ \/ /\ Pending(k)' # {}
               /\ UNCHANGED <<occupancy, saved_buffers, send>>
            \/ /\ Pending(k)' = {}
               /\ saved_buffers' = saved_buffers \ {k}
               /\ occupancy' = occupancy \ slots[k]
               /\ NotifyMemory(<<k, 0>>, send[<<k, 0>>])
  <2>1. k \in saved_buffers => ref_counts[k] = Cardinality(Pending(k)) /\ Pending(k) # {}
    BY DEF SendInv, Tracked
  <2>2. Pending(k) # {} => Cardinality(Pending(k)) # 0
    BY <1>5, FS_EmptySet
  <2>3. CASE k \notin saved_buffers \/ ref_counts[k] = 0
    <3>1. k \notin saved_buffers
      BY <2>1, <2>2, <2>3
    <3>2. unlink' = [unlink EXCEPT ![<<k, d>>] = "refused"]
          /\ UNCHANGED <<occupancy, saved_buffers, ref_counts, send>>
      BY <3>1 DEF Unlink
    <3>3. ~NoEmptyShard
      <4>1. Empty(k, t)
        BY <1>2, <1>4, <3>1 DEF SendInv, Tracked
      <4> QED  BY <4>1 DEF Empty, NoEmptyShard
    <3>4. unlink'[<<k, d>>] = "refused"
      BY <1>1, <3>2 DEF TypeOK
    <3>5. Pending(k)' = Pending(k)
      BY <1>1, <1>6, <3>4, Places DEF Pending
    <3> QED  BY <3>2, <3>3, <3>4, <3>5
  <2>4. CASE k \in saved_buffers /\ ref_counts[k] # 0
    <3>1. /\ unlink' = [unlink EXCEPT ![<<k, d>>] = "done"]
          /\ ref_counts' = [ref_counts EXCEPT ![k] = @ - 1]
          /\ IF ref_counts[k] = 1
               THEN /\ saved_buffers' = saved_buffers \ {k}
                    /\ occupancy' = occupancy \ slots[k]
                    /\ NotifyMemory(<<k, 0>>, send[<<k, 0>>])
               ELSE UNCHANGED <<occupancy, saved_buffers, send>>
      BY <2>4 DEF Unlink
    <3>2. unlink'[<<k, d>>] = "done"
      BY <1>1, <3>1 DEF TypeOK
    <3>3. Pending(k)' = Pending(k) \ {d}
      BY <1>6, <3>2, Places DEF Pending
    <3>4. Cardinality(Pending(k) \ {d}) = Cardinality(Pending(k)) - 1 /\ IsFiniteSet(Pending(k) \ {d})
      BY <1>2, <1>5, FS_RemoveElement
    <3>5. ref_counts'[k] = Cardinality(Pending(k)')
      BY <1>1, <2>1, <2>4, <3>1, <3>3, <3>4 DEF TypeOK
    <3>6. ref_counts[k] = 1 <=> Pending(k)' = {}
      BY <1>5, <2>1, <2>4, <3>3, <3>4, FS_EmptySet
    <3> QED  BY <2>4, <3>1, <3>2, <3>3, <3>5, <3>6
  <2> QED  BY <2>3, <2>4
<1> QED  BY <1>6, <1>7

LEMMA UnlinkInv ==
  ASSUME SendInv, NEW k \in Chunks, NEW d \in IntraDsts[k], Unlink(k, d)
  PROVE  SendInv'
<1>1. /\ TypeOK /\ Told(k, d) /\ unlink[<<k, d>>] = "no" /\ <<k, d>> \in IntraPairs
      /\ UNCHANGED <<slots, malloc_events, done_events, ledger, ready, shards_sent, first,
                     concurrent_copy, out>>
  BY Places DEF Unlink, SendInv
<1>2. 0 \in Shards /\ 0 \in Copiers /\ d \in Pending(k) /\ IntraDsts[k] # {}
  BY <1>1, Places DEF Copiers, Pending
<1>3. ready[k] = Copiers /\ slots[k] # {}
  <2>1. PartIs(k, 0, d)
    BY <1>2, Places DEF SendInv, PartsCopied
  <2>2. ready[k] = Copiers
    BY <1>1, <2>1 DEF PartIs, Told
  <2> QED  BY <1>2, <2>2 DEF SendInv, Buffered
<1>4. PICK t \in Shards : <<k, t>> \in first /\ t \in ready[k] /\ Past(k, t)
  <2>1. PICK t \in Shards : <<k, t>> \in first
    BY <1>3 DEF SendInv, Buffered
  <2>2. t \in ready[k]
    BY <1>3, <2>1 DEF SendInv, OneFirst
  <2>3. Past(k, t)
    BY <2>2 DEF SendInv, CopiesDone
  <2> QED  BY <2>1, <2>2, <2>3
<1>5. IsFiniteSet(Pending(k)) /\ Cardinality(Pending(k)) \in Nat
  BY SenderAssumption, FS_Subset, FS_CardinalityType DEF Pending
<1>6. \A l \in Chunks \ {k} : \A e \in IntraDsts[l] :
        <<l, e>> \in IntraPairs /\ <<l, e>> # <<k, d>>
  BY Places
<1>7. /\ Copiers' = Copiers
      /\ \A l \in Chunks, w \in Shards : Empty(l, w)' = Empty(l, w)
      /\ \A l \in Chunks, e \in IntraDsts[k] : Told(l, e)' = Told(l, e)
  BY <1>1 DEF Copiers, Empty, Told
<1>8. /\ unlink' \in [IntraPairs -> {"no", "done", "refused"}]
      /\ \A u \in IntraPairs : u # <<k, d>> => unlink'[u] = unlink[u]
      /\ unlink'[<<k, d>>] \in {"done", "refused"}
  BY UnlinkIs
<1>9. \A l \in Chunks \ {k} : Pending(l)' = Pending(l)
  BY <1>6, <1>8 DEF Pending
<1>10. /\ \A l \in Chunks \ {k} : l \in saved_buffers' <=> l \in saved_buffers
       /\ \A l \in Chunks \ {k} : ref_counts'[l] = ref_counts[l]
  BY <1>1 DEF Unlink, TypeOK
<1>11. \/ /\ unlink'[<<k, d>>] = "refused" /\ ~NoEmptyShard
          /\ Pending(k)' = Pending(k)
          /\ UNCHANGED <<occupancy, saved_buffers, ref_counts, send>>
       \/ /\ unlink'[<<k, d>>] = "done" /\ k \in saved_buffers
          /\ Pending(k)' = Pending(k) \ {d}
          /\ ref_counts' = [ref_counts EXCEPT ![k] = @ - 1]
          /\ ref_counts'[k] = Cardinality(Pending(k)')
          /\ \/ /\ Pending(k)' # {}
                /\ UNCHANGED <<occupancy, saved_buffers, send>>
             \/ /\ Pending(k)' = {}
                /\ saved_buffers' = saved_buffers \ {k}
                /\ occupancy' = occupancy \ slots[k]
                /\ NotifyMemory(<<k, 0>>, send[<<k, 0>>])
  BY UnlinkIs
<1>12. /\ send' \in [Chunks \X Shards -> SendStates]
       /\ \A l \in Chunks, w \in Shards : Woken(l, w)
  <2>1. send[<<k, 0>>] \in SendStates
    BY <1>1, <1>2 DEF TypeOK
  <2>2. CASE NotifyMemory(<<k, 0>>, send[<<k, 0>>])
    <3>1. /\ send' \in [Chunks \X Shards -> SendStates] /\ send'[<<k, 0>>] = send[<<k, 0>>]
          /\ \A l \in Chunks, w \in Shards : <<l, w>> # <<k, 0>> => Woken(l, w)
      BY <1>1, <1>2, <2>1, <2>2, NotifyIs
    <3> QED  BY <3>1 DEF Woken
  <2>3. CASE send' = send
    BY <1>1, <2>3 DEF TypeOK, Woken
  <2> QED  BY <1>11, <2>2, <2>3
<1>13. TypeOK'
  <2>1. ref_counts' \in [Chunks -> Nat]
    <3>1. CASE ref_counts' = ref_counts
      BY <1>1, <3>1 DEF TypeOK
    <3>2. CASE /\ ref_counts' = [ref_counts EXCEPT ![k] = @ - 1]
               /\ ref_counts'[k] = Cardinality(Pending(k) \ {d})
      <4>1. Cardinality(Pending(k) \ {d}) \in Nat
        BY <1>5, FS_Subset, FS_CardinalityType
      <4> QED  BY <1>1, <3>2, <4>1 DEF TypeOK
    <3> QED  BY <1>11, <3>1, <3>2
  <2>2. saved_buffers' \subseteq Chunks /\ occupancy' \subseteq Slots
    BY <1>1, <1>11 DEF TypeOK
  <2> QED  BY <1>1, <1>8, <1>12, <2>1, <2>2 DEF TypeOK
<1>14. HeldApart'
  <2>1. \A l \in Chunks \ {k} : Held(l)' = Held(l)
    BY <1>1, <1>7, <1>9 DEF Held, Freed
  <2>2. Held(k)
    BY <1>2, <1>3 DEF Held, Freed
  <2>3. Pending(k)' = {} => ~Held(k)'
    BY <1>2 DEF Held, Freed
  <2>4. occupancy' = occupancy \/ (occupancy' = occupancy \ slots[k] /\ ~Held(k)')
    BY <1>11, <2>3
  <2>5. \A l \in Chunks : Held(l)' => Held(l)
    BY <2>1, <2>2
  <2> QED  BY <1>1, <2>2, <2>4, <2>5, FreedApart DEF SendInv
<1>15. Buffered'
  <2>1. \A l \in Chunks, w \in Shards :
          send'[<<l, w>>] \in {"copying", "sending"} => send[<<l, w>>] \in {"copying", "sending"}
    BY <1>12 DEF Woken
  <2> QED  BY <1>1, <2>1 DEF SendInv, Buffered
<1>16. OneFirst'
  <2>1. \A l \in Chunks, w \in Shards :
          send'[<<l, w>>] \in {"memwait", "memwoken"} => send[<<l, w>>] \in {"memwait", "memwoken"}
    BY <1>12 DEF Woken
  <2> QED  BY <1>1, <1>7, <2>1 DEF SendInv, OneFirst
<1>17. \A l \in Chunks, w \in Shards : Past(l, w) => Past(l, w)'
  BY <1>12 DEF Past, Woken
<1>18. CopiesDone'
  <2>1. \A l \in Chunks, w \in Shards :
          /\ send'[<<l, w>>] \notin {"idle", "ok"} => send[<<l, w>>] \notin {"idle", "ok"}
          /\ send[<<l, w>>] = "ok" => send'[<<l, w>>] = "ok"
    BY <1>12 DEF Woken
  <2> QED  BY <1>1, <1>7, <1>17, <2>1 DEF SendInv, CopiesDone
<1>19. PartsCopied'
  <2>1. ASSUME NEW l \in Chunks, NEW w \in Shards, NEW e \in Dsts(l)
        PROVE  PartIs(l, w, e)'
    <3>1. PartIs(l, w, e)
      BY DEF SendInv, PartsCopied
    <3> QED  BY <1>1, <1>7, <3>1 DEF PartIs
  <2> QED  BY <2>1 DEF PartsCopied, Dsts
<1>20. Tracked'
  <2>1. ASSUME NEW l \in Chunks, l \in saved_buffers'
        PROVE  Pending(l)' # {} /\ ref_counts'[l] = Cardinality(Pending(l)')
    <3>1. CASE l # k
      BY <1>9, <1>10, <2>1, <3>1 DEF SendInv, Tracked
    <3>2. CASE l = k /\ Pending(k)' = Pending(k) /\ UNCHANGED <<saved_buffers, ref_counts>>
      BY <2>1, <3>2 DEF SendInv, Tracked
    <3>3. CASE l = k /\ ref_counts'[k] = Cardinality(Pending(k)')
               /\ (Pending(k)' # {} \/ k \notin saved_buffers')
      BY <2>1, <3>3
    <3> QED  BY <1>11, <3>1, <3>2, <3>3
  <2>2. ASSUME NEW l \in Chunks, l \in saved_buffers' \/ Pending(l)' # IntraDsts[l]
        PROVE  \E w \in Shards : <<l, w>> \in first' /\ Past(l, w)'
    <3>1. CASE l = k
      BY <1>1, <1>4, <1>17, <3>1
    <3>2. CASE l # k
      <4>1. PICK w \in Shards : <<l, w>> \in first /\ Past(l, w)
        BY <1>9, <1>10, <2>2, <3>2 DEF SendInv, Tracked
      <4> QED  BY <1>1, <1>17, <4>1
    <3> QED  BY <3>1, <3>2
  <2>3. ASSUME NEW l \in Chunks, NEW e \in IntraDsts[l], unlink'[<<l, e>>] # "no"
        PROVE  Told(l, e)'
    <3>1. CASE <<l, e>> = <<k, d>>
      BY <1>1, <3>1 DEF Told
    <3>2. CASE <<l, e>> # <<k, d>>
      <4>1. unlink[<<l, e>>] # "no"
        BY <1>8, <2>3, <3>2, Places
      <4> QED  BY <1>1, <4>1 DEF SendInv, Tracked, Told
    <3> QED  BY <3>1, <3>2
  <2>4. ASSUME NEW l \in Chunks, NEW w \in Shards,
               <<l, w>> \in first', w \in ready'[l], ~Empty(l, w)', IntraDsts[l] # {}
        PROVE  l \in saved_buffers' \/ Pending(l)' = {}
    <3>1. l \in saved_buffers \/ Pending(l) = {}
      BY <1>1, <1>7, <2>4 DEF SendInv, Tracked
    <3>2. CASE l # k
      BY <1>9, <1>10, <3>1, <3>2
    <3>3. CASE l = k
      BY <1>11, <3>1, <3>3
    <3> QED  BY <3>2, <3>3
  <2> QED  BY <2>1, <2>2, <2>3, <2>4 DEF Tracked
<1>21. NotRefused'
  BY <1>8, <1>11 DEF SendInv, NotRefused, NoEmptyShard
<1> QED  BY <1>13, <1>14, <1>15, <1>16, <1>18, <1>19, <1>20, <1>21 DEF SendInv

-----------------------------------------------------------------------------
LEMMA SenderStutters == SendInv /\ UNCHANGED vars => SendInv'
<1> SUFFICES ASSUME SendInv, UNCHANGED vars PROVE SendInv'
  OBVIOUS
<1>1. UNCHANGED <<concurrent_copy, occupancy, slots, malloc_events, done_events, ledger, ready,
                  shards_sent, saved_buffers, ref_counts, first, send, out, unlink>>
  BY DEF vars, memVars, bookVars
<1>2. TypeOK'
  BY <1>1 DEF SendInv, TypeOK
<1>3. /\ Copiers' = Copiers
      /\ \A l \in Chunks : Pending(l)' = Pending(l) /\ Held(l)' = Held(l)
      /\ \A l \in Chunks, t \in Shards : Past(l, t)' = Past(l, t) /\ Empty(l, t)' = Empty(l, t)
  BY <1>1 DEF Copiers, Pending, Freed, Held, Past, Empty
<1>4. HeldApart' /\ Buffered' /\ OneFirst'
  BY <1>1, <1>3 DEF SendInv, HeldApart, Buffered, OneFirst
<1>5. CopiesDone' /\ NotRefused'
  BY <1>1, <1>3 DEF SendInv, CopiesDone, NotRefused
<1>6. PartsCopied'
  BY <1>1, <1>3 DEF SendInv, PartsCopied, PartIs
<1>7. Tracked'
  BY <1>1, <1>3 DEF SendInv, Tracked, Told
<1> QED  BY <1>2, <1>4, <1>5, <1>6, <1>7 DEF SendInv

LEMMA SenderNext == SendInv /\ [Next]_vars => SendInv'
<1> SUFFICES ASSUME SendInv, [Next]_vars PROVE SendInv'
  OBVIOUS
<1>1. CASE SendCalls
  BY <1>1, SendFirstInv, LaterInv, SendIgnoredInv DEF SendCalls
<1>2. CASE Resumptions
  BY <1>2, RetryAllocateInv, LaterInv, GatheredInv, GatherRaisesInv DEF Resumptions
<1>3. CASE Completions
  BY <1>3, CopiedInv, PartInv DEF Completions
<1>4. CASE Receivers
  <2>1. PICK u \in IntraPairs : Unlink(u[1], u[2])
    BY <1>4 DEF Receivers
  <2>2. u[1] \in Chunks /\ u[2] \in IntraDsts[u[1]]
    BY DEF IntraPairs
  <2> QED  BY <2>1, <2>2, UnlinkInv
<1>5. CASE \E o \in Outs : Abort(o)
  BY <1>5, PartInv
<1>6. CASE Stop \/ UNCHANGED vars
  BY <1>6, SenderStutters DEF Stop
<1> QED  BY <1>1, <1>2, <1>3, <1>4, <1>5, <1>6 DEF Next

THEOREM SenderInvariant == Spec => []SendInv
<1> QED  BY SenderInit, SenderNext, PTL DEF Spec

-----------------------------------------------------------------------------
LEMMA UsedIsHeld ==
  ASSUME SendInv, OneKind, NEW k \in Chunks, InUse(k)
  PROVE  Held(k)
(* A destination that has given the buffer back was told of it, whole. *)
<1>1. IntraDsts[k] # {} /\ Freed(k) =>
        /\ \A d \in IntraDsts[k] : Told(k, d) /\ unlink[<<k, d>>] # "no"
        /\ ready[k] = Copiers
  <2>1. SUFFICES ASSUME IntraDsts[k] # {}, Freed(k)
                 PROVE  /\ \A d \in IntraDsts[k] : Told(k, d) /\ unlink[<<k, d>>] # "no"
                        /\ ready[k] = Copiers
    OBVIOUS
  <2>2. \A d \in IntraDsts[k] : unlink[<<k, d>>] = "done"
    BY <2>1 DEF Freed, Pending
  <2>3. \A d \in IntraDsts[k] : Told(k, d)
    BY <2>2 DEF SendInv, Tracked
  <2>4. PICK d \in IntraDsts[k] : TRUE
    BY <2>1
  <2>5. PartIs(k, 0, d)
    BY Places DEF SendInv, PartsCopied
  <2> QED  BY <2>2, <2>3, <2>5 DEF PartIs, Told
<1>2. CASE \E s \in Shards : send[<<k, s>>] = "copying"
  <2>1. PICK s \in Shards : send[<<k, s>>] = "copying"
    BY <1>2
  <2>2. slots[k] # {} /\ s \in Copiers /\ s \notin ready[k] /\ s \notin shards_sent[k]
    BY <2>1 DEF SendInv, Buffered, CopiesDone, Past
  <2> QED  BY <1>1, <2>2 DEF Held, Freed
<1>3. ASSUME NEW s \in Shards, NEW d \in Dsts(k), out[<<k, s, d>>] \notin {"none", "ok"},
             d \in InterDsts[k] \/ out[<<k, s, d>>] # "handled"
      PROVE  out[<<k, s, d>>] = "aborted" \/ Held(k)
  <2>1. PartIs(k, s, d)
    BY DEF SendInv, PartsCopied
  <2>2. s \in ready[k] /\ s \notin shards_sent[k]
    BY <1>3, <2>1 DEF PartIs
  <2>3. slots[k] # {} /\ s \in Copiers
    BY <2>2 DEF SendInv, Buffered, CopiesDone
  <2>4. CASE d \in InterDsts[k]
    BY <2>2, <2>3, <2>4 DEF OneKind, Held, Freed
  <2>5. CASE d \in IntraDsts[k]
    <3>1. s = 0
      BY <1>3, <2>1, <2>5 DEF PartIs
    <3>2. ~Told(k, d)
      BY <1>3, <2>5, <3>1, Places DEF Told
    <3> QED  BY <1>1, <2>3, <2>5, <3>2 DEF Held
  <2> QED  BY <2>4, <2>5 DEF Dsts
<1>4. ASSUME NEW d \in IntraDsts[k], Told(k, d), unlink[<<k, d>>] = "no"
      PROVE  Held(k)
  <2>1. PartIs(k, 0, d)
    BY Places DEF SendInv, PartsCopied
  <2>2. 0 \in ready[k] /\ 0 \in Shards
    BY <1>4, <2>1, Places DEF PartIs, Told
  <2>3. slots[k] # {}
    BY <2>2 DEF SendInv, Buffered
  <2> QED  BY <1>1, <1>4, <2>3 DEF Held
<1> QED  BY <1>2, <1>3, <1>4, Places DEF InUse

(* While a copy, a transfer or a receiver of this node needs a buffer, it   *)
(* is neither freed nor given to another chunk, when the destinations of    *)
(* every chunk are of one kind (send, unlink, _send_intra_node_buffer,      *)
(* sender.py:168-260, 540-570).                                             *)
THEOREM BuffersAreHeld == OneKind => (Spec => []UsedBuffersAreHeld)
<1> SUFFICES ASSUME OneKind PROVE Spec => []UsedBuffersAreHeld
  OBVIOUS
<1>1. SendInv => UsedBuffersAreHeld
  <2> SUFFICES ASSUME SendInv PROVE UsedBuffersAreHeld
    OBVIOUS
  <2>1. \A k \in Chunks : InUse(k) => Held(k)
    BY UsedIsHeld
  <2>2. \A k \in Chunks : InUse(k) =>
          /\ slots[k] # {} /\ slots[k] \subseteq occupancy
          /\ \A l \in Chunks \ {k} : InUse(l) => slots[k] \cap slots[l] = {}
    BY <2>1 DEF SendInv, HeldApart, Held
  <2> QED  BY <2>2 DEF SendInv, UsedBuffersAreHeld
<1> QED  BY <1>1, SenderInvariant, PTL

(* A receiver of this node is told of a buffer when every shard is in it,   *)
(* and its Unlink is never refused, when every worker has something to      *)
(* send, whichever of them calls first; a shard leaves the node after its   *)
(* copy.                                                                    *)
THEOREM WholeBuffers == NoEmptyShard => (Spec => []ToldOfWholeBuffers)
<1> SUFFICES ASSUME NoEmptyShard PROVE Spec => []ToldOfWholeBuffers
  OBVIOUS
<1>1. SendInv => ToldOfWholeBuffers
  <2> SUFFICES ASSUME SendInv PROVE ToldOfWholeBuffers
    OBVIOUS
  <2>1. \A u \in IntraPairs : unlink[u] # "refused"
    BY DEF SendInv, NotRefused
  <2>2. \A k \in Chunks : \A d \in IntraDsts[k] : Told(k, d) => ready[k] = Copiers
    <3>1. \A k \in Chunks : \A d \in IntraDsts[k] : PartIs(k, 0, d)
      BY Places DEF SendInv, PartsCopied
    <3> QED  BY <3>1 DEF PartIs, Told
  <2>3. \A k \in Chunks, s \in Shards : \A d \in InterDsts[k] :
          out[<<k, s, d>>] \in {"handled", "transfer", "ok"} => s \in ready[k]
    <3>1. \A k \in Chunks, s \in Shards : \A d \in InterDsts[k] : PartIs(k, s, d)
      BY Places DEF SendInv, PartsCopied
    <3> QED  BY <3>1 DEF PartIs
  <2> QED  BY <2>1, <2>2, <2>3 DEF ToldOfWholeBuffers
<1> QED  BY <1>1, SenderInvariant, PTL

-----------------------------------------------------------------------------
(* Nothing is left: what is in use belongs to a buffer that is not freed    *)
(* yet, and of a chunk without a receiver on this node every shard that was *)
(* sent is counted.                                                         *)
OccupiedIsHeld == \A p \in occupancy : \E k \in Chunks : Held(k) /\ p \in slots[k]

(* A chunk gets its buffer once. *)
OneBuffer ==
  \A k \in Chunks, s \in Shards :
    /\ <<k, s>> \in first => send[<<k, s>>] # "idle"
    /\ send[<<k, s>>] \in {"memwait", "memwoken"} => slots[k] = {}

SentCounted ==
  \A k \in Chunks :
    /\ shards_sent[k] \subseteq Copiers
    /\ IntraDsts[k] = {} => \A s \in Copiers :
         send[<<k, s>>] = "ok" => s \in shards_sent[k] \/ Empty(k, s)

LeftInv == OccupiedIsHeld /\ OneBuffer /\ SentCounted

LEMMA LeftInit == Init => LeftInv
<1> SUFFICES ASSUME Init PROVE LeftInv
  OBVIOUS
<1>1. /\ occupancy = {} /\ first = {}
      /\ \A k \in Chunks, s \in Shards : send[<<k, s>>] = "idle"
      /\ \A k \in Chunks : shards_sent[k] = {}
  BY DEF Init
<1>2. OccupiedIsHeld /\ OneBuffer
  BY <1>1 DEF OccupiedIsHeld, OneBuffer
<1>3. SentCounted
  BY <1>1, Places DEF SentCounted
<1> QED  BY <1>2, <1>3 DEF LeftInv

(* A chunk without a buffer is not over. *)
LEMMA FreedHadBuffer ==
  ASSUME SendInv, NEW k \in Chunks, NEW s \in Copiers, s \notin shards_sent[k], slots[k] = {}
  PROVE  ~Freed(k)
<1>1. CASE IntraDsts[k] = {}
  BY <1>1 DEF Freed
<1>2. CASE IntraDsts[k] # {}
  <2>1. SUFFICES ASSUME Pending(k) = {} PROVE FALSE
    BY <1>2 DEF Freed
  <2>2. PICK d \in IntraDsts[k] : unlink[<<k, d>>] = "done"
    BY <1>2, <2>1 DEF Pending
  <2>3. Told(k, d)
    BY <2>2 DEF SendInv, Tracked
  <2>4. PartIs(k, 0, d) /\ 0 \in Shards
    BY Places DEF SendInv, PartsCopied
  <2>5. 0 \in ready[k]
    BY <2>3, <2>4 DEF PartIs, Told
  <2> QED  BY <2>4, <2>5 DEF SendInv, Buffered
<1> QED  BY <1>1, <1>2

(* A call before its copy is over, as far as it bears on what is left. *)
Begins(k, s) ==
  /\ send'[<<k, s>>] # "idle"
  /\ \A l \in Chunks, t \in Shards : <<l, t>> # <<k, s>> => send'[<<l, t>>] = send[<<l, t>>]
  /\ send'[<<k, s>>] = "ok" => Empty(k, s) \/ s \notin Copiers
  /\ s \notin shards_sent[k]
  /\ \A l \in Chunks, t \in Shards : <<l, t>> \in first' => <<l, t>> \in first \/ <<l, t>> = <<k, s>>
  /\ \/ /\ UNCHANGED <<occupancy, slots>>
        /\ send'[<<k, s>>] \in {"memwait", "memwoken"} => slots[k] = {}
     \/ /\ slots[k] = {} /\ <<k, s>> \in first' /\ s \in Copiers
        /\ send'[<<k, s>>] \notin {"memwait", "memwoken"}
        /\ Given(k)
  /\ UNCHANGED <<shards_sent, concurrent_copy, unlink>>

LEMMA BeginsLeft ==
  ASSUME SendInv, SendInv', LeftInv, NEW k \in Chunks, NEW s \in Shards, Begins(k, s)
  PROVE  LeftInv'
<1>1. /\ Copiers' = Copiers
      /\ \A l \in Chunks : Freed(l)' = Freed(l)
      /\ \A l \in Chunks, t \in Shards : Empty(l, t)' = Empty(l, t)
  BY DEF Begins, Copiers, Freed, Pending, Empty
<1>2. \/ UNCHANGED <<occupancy, slots>>
      \/ /\ slots[k] = {} /\ s \in Copiers
         /\ \E A \in SUBSET Slots : /\ A # {} /\ occupancy' = occupancy \cup A
                                    /\ slots' = [slots EXCEPT ![k] = A]
  BY DEF Begins, Given
<1>3. OccupiedIsHeld'
  <2>1. CASE UNCHANGED <<occupancy, slots>>
    BY <1>1, <2>1 DEF LeftInv, OccupiedIsHeld, Held
  <2>2. ASSUME slots[k] = {}, s \in Copiers,
               NEW A \in SUBSET Slots, A # {}, occupancy' = occupancy \cup A,
               slots' = [slots EXCEPT ![k] = A]
        PROVE  OccupiedIsHeld'
    <3>1. slots'[k] = A /\ \A l \in Chunks \ {k} : slots'[l] = slots[l]
      BY <2>2 DEF SendInv, TypeOK
    <3>2. Held(k)'
      BY <1>1, <2>2, <3>1, FreedHadBuffer DEF Begins, Held
    <3>3. \A l \in Chunks : Held(l) => Held(l)' /\ slots'[l] = slots[l]
      BY <1>1, <2>2, <3>1 DEF Held
    <3>4. \A p \in occupancy : \E l \in Chunks : Held(l)' /\ p \in slots'[l]
      BY <3>3 DEF LeftInv, OccupiedIsHeld
    <3> QED  BY <2>2, <3>1, <3>2, <3>4 DEF OccupiedIsHeld
  <2> QED  BY <1>2, <2>1, <2>2
<1>4. OneBuffer'
  <2>1. ASSUME NEW l \in Chunks, NEW t \in Shards
        PROVE  /\ <<l, t>> \in first' => send'[<<l, t>>] # "idle"
               /\ send'[<<l, t>>] \in {"memwait", "memwoken"} => slots'[l] = {}
    <3>1. CASE <<l, t>> = <<k, s>>
      BY <3>1 DEF Begins
    <3>2. CASE <<l, t>> # <<k, s>>
      <4>1. /\ send'[<<l, t>>] = send[<<l, t>>]
            /\ <<l, t>> \in first' => <<l, t>> \in first
        BY <3>2 DEF Begins
      <4>2. CASE l = k /\ ~UNCHANGED slots
(* Only the first call waits for memory, and that one gets it. *)
        <5>1. <<k, s>> \in first'
          BY <4>2 DEF Begins
        <5>2. send[<<l, t>>] \notin {"memwait", "memwoken"}
          <6>1. send'[<<l, t>>] \in {"memwait", "memwoken"} => <<l, t>> \in first'
            BY DEF SendInv, OneFirst
          <6>2. <<l, t>> \in first' => t = s
            BY <4>2, <5>1 DEF SendInv, OneFirst
          <6> QED  BY <3>2, <4>1, <4>2, <6>1, <6>2
        <5> QED  BY <4>1, <5>2 DEF LeftInv, OneBuffer
      <4>3. CASE l # k \/ UNCHANGED slots
        <5>1. slots'[l] = slots[l]
          BY <1>2, <4>3 DEF SendInv, TypeOK
        <5> QED  BY <4>1, <5>1 DEF LeftInv, OneBuffer
      <4> QED  BY <4>2, <4>3
    <3> QED  BY <3>1, <3>2
  <2> QED  BY <2>1 DEF OneBuffer
<1>5. SentCounted'
  <2>1. ASSUME NEW l \in Chunks, IntraDsts[l] = {}, NEW t \in Copiers, send'[<<l, t>>] = "ok"
        PROVE  t \in shards_sent[l] \/ Empty(l, t)
    <3>1. t \in Shards
      BY Places
    <3>2. CASE <<l, t>> = <<k, s>>
      BY <2>1, <3>2 DEF Begins
    <3>3. CASE <<l, t>> # <<k, s>>
      BY <2>1, <3>1, <3>3 DEF Begins, LeftInv, SentCounted
    <3> QED  BY <3>2, <3>3
  <2>2. shards_sent' = shards_sent /\ Copiers \subseteq Shards
    BY Places DEF Begins
  <2>3. \A l \in Chunks : shards_sent[l] \subseteq Copiers
    BY DEF LeftInv, SentCounted
  <2>4. \A l \in Chunks : IntraDsts[l] = {} => \A t \in Copiers :
          send'[<<l, t>>] = "ok" => t \in shards_sent[l] \/ Empty(l, t)'
    BY <1>1, <2>1, <2>2
  <2> QED  BY <1>1, <2>2, <2>3, <2>4 DEF SentCounted
<1> QED  BY <1>3, <1>4, <1>5 DEF LeftInv

(* What starting the copy means for the call. *)
LEMMA StartCopyState ==
  ASSUME TypeOK, NEW k \in Chunks, NEW s \in Shards, StartCopy(k, s)
  PROVE  send'[<<k, s>>] = "copying" \/ (send'[<<k, s>>] = "ok" /\ Empty(k, s))
<1>1. <<k, s>> \in Chunks \X Shards
  OBVIOUS
<1> QED  BY <1>1 DEF StartCopy, TypeOK

LEMMA SendFirstLeft ==
  ASSUME SendInv, SendInv', LeftInv, NEW k \in Chunks, NEW s \in Shards, SendFirst(k, s)
  PROVE  LeftInv'
<1>1. /\ TypeOK /\ send[<<k, s>>] = "idle" /\ first' = first \cup {<<k, s>>}
      /\ concurrent_copy => malloc_events[k] = "none"
      /\ ~concurrent_copy => s = 0
      /\ UNCHANGED <<shards_sent, concurrent_copy, unlink>>
  BY DEF SendFirst, SendInv
<1>2. s \in Copiers /\ <<k, s>> \in first' /\ s \notin shards_sent[k]
  BY <1>1 DEF Copiers, SendInv, CopiesDone
<1>3. slots[k] = {}
  <2>1. SUFFICES ASSUME NEW t \in Shards, <<k, t>> \in first PROVE FALSE
    BY DEF SendInv, Buffered
  <2>2. CASE concurrent_copy
    BY <1>1, <2>1, <2>2 DEF SendInv, OneFirst
  <2>3. CASE ~concurrent_copy
    <3>1. t = s
      BY <1>1, <2>1, <2>3 DEF SendInv, OneFirst, Copiers
    <3> QED  BY <1>1, <2>1, <3>1 DEF LeftInv, OneBuffer
  <2> QED  BY <2>2, <2>3
<1>4. CASE Fits(occupancy, Size[k]) # {} /\ Allocated(k, s)
  <2>1. Given(k) /\ StartCopy(k, s)
    BY <1>1, <1>2, <1>4, AllocatedIs
  <2>2. Begins(k, s)
    BY <1>1, <1>2, <1>3, <2>1, StartCopyIs, StartCopyState DEF Begins
  <2> QED  BY <2>2, BeginsLeft
<1>5. ASSUME NEW state \in {"memwait", "failed"}, NoBuffer(k, s, state)
      PROVE  LeftInv'
  <2>1. state \in SendStates
    BY DEF SendStates
  <2>2. Begins(k, s)
    BY <1>1, <1>2, <1>3, <1>5, <2>1, NoBufferIs DEF Begins
  <2> QED  BY <2>2, BeginsLeft
<1> QED  BY <1>4, <1>5 DEF SendFirst

LEMMA RetryAllocateLeft ==
  ASSUME SendInv, SendInv', LeftInv, NEW k \in Chunks, NEW s \in Shards, RetryAllocate(k, s)
  PROVE  LeftInv'
<1>1. /\ TypeOK /\ send[<<k, s>>] = "memwoken"
      /\ UNCHANGED <<shards_sent, first, concurrent_copy, unlink>>
  BY DEF RetryAllocate, SendInv
<1>2. s \in Copiers /\ <<k, s>> \in first' /\ s \notin shards_sent[k] /\ slots[k] = {}
  BY <1>1 DEF SendInv, CopiesDone, OneFirst, LeftInv, OneBuffer
<1>3. CASE Fits(occupancy, Size[k]) # {} /\ Allocated(k, s)
  <2>1. Given(k) /\ StartCopy(k, s)
    BY <1>1, <1>2, <1>3, AllocatedIs
  <2>2. Begins(k, s)
    BY <1>1, <1>2, <2>1, StartCopyIs, StartCopyState DEF Begins
  <2> QED  BY <2>2, BeginsLeft
<1>4. CASE NoBuffer(k, s, "memwait")
  <2>1. "memwait" \in SendStates
    BY DEF SendStates
  <2>2. Begins(k, s)
    BY <1>1, <1>2, <1>4, <2>1, NoBufferIs DEF Begins
  <2> QED  BY <2>2, BeginsLeft
<1> QED  BY <1>3, <1>4 DEF RetryAllocate

LEMMA LaterLeft ==
  ASSUME SendInv, SendInv', LeftInv, NEW k \in Chunks, NEW s \in Shards,
         SendLater(k, s) \/ ResumeLater(k, s) \/ SendIgnored(k, s)
  PROVE  LeftInv'
<1>1. /\ TypeOK /\ send[<<k, s>>] \in {"idle", "waiting"}
      /\ UNCHANGED <<occupancy, slots, shards_sent, first, concurrent_copy, unlink>>
  BY DEF SendLater, ResumeLater, SendIgnored, SendInv, memVars, bookVars
<1>2. <<k, s>> \in Chunks \X Shards /\ s \notin shards_sent[k]
  BY <1>1 DEF SendInv, CopiesDone
<1>3. CASE StartCopy(k, s) /\ ~SendIgnored(k, s)
  <2>1. s \in Copiers
    BY <1>3 DEF SendLater, ResumeLater, SendInv, CopiesDone, Copiers
  <2>2. Begins(k, s)
    BY <1>1, <1>2, <1>3, <2>1, StartCopyIs, StartCopyState DEF Begins
  <2> QED  BY <2>2, BeginsLeft
<1>4. ASSUME NEW state \in {"waiting", "ok"}, send' = [send EXCEPT ![<<k, s>>] = state],
             state = "ok" => s \notin Copiers
      PROVE  LeftInv'
  <2>1. /\ send'[<<k, s>>] = state
        /\ \A l \in Chunks, t \in Shards : <<l, t>> # <<k, s>> => send'[<<l, t>>] = send[<<l, t>>]
    BY <1>1, <1>2, <1>4 DEF TypeOK
  <2>2. Begins(k, s)
    BY <1>1, <1>2, <1>4, <2>1 DEF Begins
  <2> QED  BY <2>2, BeginsLeft
<1>5. SendIgnored(k, s) => s \notin Copiers /\ send' = [send EXCEPT ![<<k, s>>] = "ok"]
  BY DEF SendIgnored, Copiers
<1> QED  BY <1>3, <1>4, <1>5 DEF SendLater, ResumeLater

(* A step that gives and frees no buffer and by which no call succeeds. *)
LEMMA NothingFreedLeft ==
  ASSUME SendInv, LeftInv,
         UNCHANGED <<occupancy, slots, shards_sent, first, concurrent_copy, unlink>>,
         \A l \in Chunks, t \in Shards :
           send'[<<l, t>>] = send[<<l, t>>] \/ send'[<<l, t>>] \in {"sending", "failed"}
  PROVE  LeftInv'
<1>1. /\ Copiers' = Copiers
      /\ \A l \in Chunks : Held(l)' = Held(l)
      /\ \A l \in Chunks, t \in Shards : Empty(l, t)' = Empty(l, t)
  BY DEF Copiers, Held, Freed, Pending, Empty
<1>2. OccupiedIsHeld'
  BY <1>1 DEF LeftInv, OccupiedIsHeld
<1>3. OneBuffer'
  BY DEF LeftInv, OneBuffer
<1>4. SentCounted'
  BY <1>1, Places DEF LeftInv, SentCounted
<1> QED  BY <1>2, <1>3, <1>4 DEF LeftInv

LEMMA QuietLeft ==
  ASSUME SendInv, LeftInv, NEW k \in Chunks, NEW s \in Shards, Copied(k, s) \/ GatherRaises(k, s)
  PROVE  LeftInv'
<1>1. <<k, s>> \in Chunks \X Shards /\ TypeOK
  BY DEF SendInv
<1>2. \A l \in Chunks, t \in Shards :
        send'[<<l, t>>] = send[<<l, t>>] \/ send'[<<l, t>>] \in {"sending", "failed"}
  BY <1>1 DEF Copied, GatherRaises, TypeOK
<1>3. UNCHANGED <<occupancy, slots, shards_sent, first, concurrent_copy, unlink>>
  BY DEF Copied, GatherRaises, memVars, bookVars
<1> QED  BY <1>2, <1>3, NothingFreedLeft

LEMMA PartLeft ==
  ASSUME SendInv, LeftInv, NEW o \in Outs,
         AllCopied(o) \/ Handled(o) \/ Abort(o) \/ Answered(o) \/ Transferred(o)
  PROVE  LeftInv'
<1>1. UNCHANGED <<memVars, bookVars, send, unlink>>
  BY DEF AllCopied, Handled, Abort, Answered, Transferred, Part
<1>2. UNCHANGED <<occupancy, slots, shards_sent, first, concurrent_copy, unlink, send>>
  BY <1>1 DEF memVars, bookVars
<1> QED  BY <1>2, NothingFreedLeft

(* The slots of one chunk are freed, or none. *)
LEMMA FreedLeft ==
  ASSUME OccupiedIsHeld, NEW k \in Chunks, UNCHANGED slots,
         \A l \in Chunks \ {k} : Held(l)' = Held(l),
         occupancy' = occupancy \ slots[k] \/ (occupancy' = occupancy /\ (Held(k) => Held(k)'))
  PROVE  OccupiedIsHeld'
<1>1. ASSUME NEW p \in occupancy'
      PROVE  \E l \in Chunks : Held(l)' /\ p \in slots'[l]
  <2>1. PICK l \in Chunks : Held(l) /\ p \in slots[l]
    BY DEF OccupiedIsHeld
  <2>2. Held(l)'
    <3>1. CASE l # k
      BY <2>1, <3>1
    <3>2. CASE l = k
      BY <2>1, <3>2
    <3> QED  BY <3>1, <3>2
  <2> QED  BY <2>1, <2>2
<1> QED  BY <1>1 DEF OccupiedIsHeld

LEMMA GatheredLeft ==
  ASSUME SendInv, LeftInv, NEW k \in Chunks, NEW s \in Shards, Gathered(k, s)
  PROVE  LeftInv'
<1>1. /\ TypeOK /\ send[<<k, s>>] = "sending" /\ <<k, s>> \in Chunks \X Shards
      /\ UNCHANGED <<slots, first, concurrent_copy, unlink>>
  BY DEF Gathered, SendInv
<1>2. s \in Copiers
  BY <1>1 DEF SendInv, CopiesDone
<1>3. /\ Copiers' = Copiers
      /\ \A l \in Chunks : Pending(l)' = Pending(l)
      /\ \A l \in Chunks, t \in Shards : Empty(l, t)' = Empty(l, t)
  BY <1>1 DEF Copiers, Pending, Empty
<1>4. send'[<<k, s>>] = "ok" /\ \A l \in Chunks, t \in Shards : <<l, t>> # <<k, s>> => Woken(l, t)
  <2>1. "ok" \in SendStates
    BY DEF SendStates
  <2>2. CASE send' = [send EXCEPT ![<<k, s>>] = "ok"]
    BY <1>1, <2>2 DEF TypeOK, Woken
  <2>3. CASE NotifyMemory(<<k, s>>, "ok")
    BY <1>1, <2>1, <2>3, NotifyIs
  <2> QED  BY <2>2, <2>3 DEF Gathered
<1>5. /\ \A l \in Chunks \ {k} : shards_sent'[l] = shards_sent[l]
      /\ \/ /\ IntraDsts[k] # {} /\ shards_sent'[k] = shards_sent[k] /\ occupancy' = occupancy
         \/ /\ IntraDsts[k] = {} /\ shards_sent'[k] = shards_sent[k] \cup {s}
            /\ shards_sent'[k] # Copiers /\ occupancy' = occupancy
         \/ /\ IntraDsts[k] = {} /\ shards_sent'[k] = shards_sent[k] \cup {s}
            /\ occupancy' = occupancy \ slots[k]
  BY <1>1 DEF Gathered, LastSent, TypeOK
<1>6. OccupiedIsHeld'
  <2>1. \A l \in Chunks \ {k} : Held(l)' = Held(l)
    BY <1>1, <1>3, <1>5 DEF Held, Freed
  <2>2. occupancy' = occupancy \ slots[k] \/ (occupancy' = occupancy /\ (Held(k) => Held(k)'))
    BY <1>1, <1>3, <1>5 DEF Held, Freed
  <2> QED  BY <1>1, <2>1, <2>2, FreedLeft DEF LeftInv
<1>7. OneBuffer'
  <2>1. ASSUME NEW l \in Chunks, NEW t \in Shards
        PROVE  /\ send[<<l, t>>] # "idle" => send'[<<l, t>>] # "idle"
               /\ send'[<<l, t>>] \in {"memwait", "memwoken"} => send[<<l, t>>] \in {"memwait", "memwoken"}
    <3>1. CASE <<l, t>> = <<k, s>>
      BY <1>4, <3>1
    <3>2. CASE <<l, t>> # <<k, s>>
      BY <1>4, <3>2 DEF Woken
    <3> QED  BY <3>1, <3>2
  <2> QED  BY <1>1, <2>1 DEF LeftInv, OneBuffer
<1>8. SentCounted'
  <2>1. \A l \in Chunks : shards_sent'[l] \subseteq Copiers
    BY <1>2, <1>5 DEF LeftInv, SentCounted
  <2>2. ASSUME NEW l \in Chunks, IntraDsts[l] = {}, NEW t \in Copiers, send'[<<l, t>>] = "ok"
        PROVE  t \in shards_sent'[l] \/ Empty(l, t)
    <3>1. t \in Shards
      BY Places
    <3>2. CASE <<l, t>> = <<k, s>>
      BY <1>5, <2>2, <3>2
    <3>3. CASE <<l, t>> # <<k, s>>
      <4>1. send[<<l, t>>] = "ok"
        BY <1>4, <2>2, <3>1, <3>3 DEF Woken
      <4>2. t \in shards_sent[l] \/ Empty(l, t)
        BY <2>2, <4>1 DEF LeftInv, SentCounted
      <4> QED  BY <1>5, <4>2
    <3> QED  BY <3>2, <3>3
  <2>3. \A l \in Chunks : IntraDsts[l] = {} => \A t \in Copiers :
          send'[<<l, t>>] = "ok" => t \in shards_sent'[l] \/ Empty(l, t)'
    BY <1>3, <2>2, Places
  <2> QED  BY <1>3, <2>1, <2>3 DEF SentCounted
<1> QED  BY <1>6, <1>7, <1>8 DEF LeftInv

LEMMA UnlinkLeft ==
  ASSUME SendInv, LeftInv, NEW k \in Chunks, NEW d \in IntraDsts[k], Unlink(k, d)
  PROVE  LeftInv'
<1>1. /\ TypeOK /\ UNCHANGED <<slots, shards_sent, first, concurrent_copy>> /\ IntraDsts[k] # {}
  BY DEF Unlink, SendInv
<1>2. /\ \A u \in IntraPairs : u # <<k, d>> => unlink'[u] = unlink[u]
      /\ \/ /\ Pending(k)' = Pending(k) /\ UNCHANGED <<occupancy, send>>
         \/ /\ Pending(k)' # {} /\ UNCHANGED <<occupancy, send>>
         \/ /\ occupancy' = occupancy \ slots[k]
            /\ NotifyMemory(<<k, 0>>, send[<<k, 0>>])
  BY UnlinkIs
<1>3. /\ Copiers' = Copiers
      /\ \A l \in Chunks, t \in Shards : Empty(l, t)' = Empty(l, t)
  BY <1>1 DEF Copiers, Empty
<1>4. \A l \in Chunks, t \in Shards : Woken(l, t)
  <2>1. send[<<k, 0>>] \in SendStates /\ 0 \in Shards
    BY <1>1, Places DEF TypeOK
  <2>2. CASE NotifyMemory(<<k, 0>>, send[<<k, 0>>])
    <3>1. /\ send'[<<k, 0>>] = send[<<k, 0>>]
          /\ \A l \in Chunks, t \in Shards : <<l, t>> # <<k, 0>> => Woken(l, t)
      BY <1>1, <2>1, <2>2, NotifyIs
    <3> QED  BY <3>1 DEF Woken
  <2>3. CASE send' = send
    BY <2>3 DEF Woken
  <2> QED  BY <1>2, <2>2, <2>3
<1>5. OccupiedIsHeld'
  <2>1. \A l \in Chunks \ {k} : Pending(l)' = Pending(l)
    BY <1>2, Places DEF Pending
  <2>2. \A l \in Chunks \ {k} : Held(l)' = Held(l)
    BY <1>1, <1>3, <2>1 DEF Held, Freed
  <2>3. occupancy' = occupancy \ slots[k] \/ (occupancy' = occupancy /\ (Held(k) => Held(k)'))
    BY <1>1, <1>2 DEF Held, Freed
  <2> QED  BY <1>1, <2>2, <2>3, FreedLeft DEF LeftInv
<1>6. OneBuffer'
  BY <1>1, <1>4 DEF LeftInv, OneBuffer, Woken
<1>7. SentCounted'
  <2>1. \A l \in Chunks : \A t \in Copiers : send'[<<l, t>>] = "ok" => send[<<l, t>>] = "ok"
    BY <1>4, Places DEF Woken
  <2> QED  BY <1>1, <1>3, <2>1, Places DEF LeftInv, SentCounted
<1> QED  BY <1>5, <1>6, <1>7 DEF LeftInv

LEMMA LeftNext == SendInv /\ SendInv' /\ LeftInv /\ [Next]_vars => LeftInv'
<1> SUFFICES ASSUME SendInv, SendInv', LeftInv, [Next]_vars PROVE LeftInv'
  OBVIOUS
<1>1. CASE SendCalls
  BY <1>1, SendFirstLeft, LaterLeft DEF SendCalls
<1>2. CASE Resumptions
  BY <1>2, RetryAllocateLeft, LaterLeft, GatheredLeft, QuietLeft DEF Resumptions
<1>3. CASE Completions
  BY <1>3, QuietLeft, PartLeft DEF Completions
<1>4. CASE Receivers
  <2>1. PICK u \in IntraPairs : Unlink(u[1], u[2])
    BY <1>4 DEF Receivers
  <2>2. u[1] \in Chunks /\ u[2] \in IntraDsts[u[1]]
    BY DEF IntraPairs
  <2> QED  BY <2>1, <2>2, UnlinkLeft
<1>5. CASE \E o \in Outs : Abort(o)
  BY <1>5, PartLeft
<1>6. CASE Stop \/ UNCHANGED vars
  <2>1. UNCHANGED <<occupancy, slots, shards_sent, first, concurrent_copy, unlink, send>>
    BY <1>6 DEF Stop, vars, memVars, bookVars
  <2> QED  BY <2>1, NothingFreedLeft
<1> QED  BY <1>1, <1>2, <1>3, <1>4, <1>5, <1>6 DEF Next

(* A chunk whose sends succeeded and whose receivers gave it back has been  *)
(* freed. *)
LEMMA OverIsFreed ==
  ASSUME SendInv, LeftInv, NoEmptyShard, NEW k \in Chunks, Over(k)
  PROVE  Freed(k) /\ k \notin saved_buffers
<1>1. Pending(k) = {}
  <2>1. \A d \in IntraDsts[k] : unlink[<<k, d>>] \in {"no", "done", "refused"}
    BY Places DEF SendInv, TypeOK
  <2>2. \A d \in IntraDsts[k] : unlink[<<k, d>>] # "refused"
    BY Places DEF SendInv, NotRefused
  <2> QED  BY <2>1, <2>2 DEF Over, Pending
<1>2. IntraDsts[k] = {} => shards_sent[k] = Copiers
  <2>1. \A s \in Copiers : ~Empty(k, s) /\ send[<<k, s>>] = "ok"
    BY Places DEF NoEmptyShard, Empty, Over
  <2> QED  BY <2>1 DEF LeftInv, SentCounted
<1> QED  BY <1>1, <1>2 DEF Freed, SendInv, Tracked

(* A chunk that is over, every Send of it successful and its receivers on   *)
(* this node done with it, holds no slot and no tracker, when every worker  *)
(* has something to send: a worker that has not is never counted among      *)
(* those that sent, and a buffer for other nodes alone would stay (send,    *)
(* unlink, sender.py:168-260, 431-436).                                     *)
THEOREM NothingIsLeft == NoEmptyShard => (Spec => []NothingLeft)
<1> SUFFICES ASSUME NoEmptyShard PROVE Spec => []NothingLeft
  OBVIOUS
<1>1. Spec => []LeftInv
  BY LeftInit, LeftNext, SenderInvariant, PTL DEF Spec
<1>2. SendInv /\ LeftInv => NothingLeft
  <2> SUFFICES ASSUME SendInv, LeftInv PROVE NothingLeft
    OBVIOUS
  <2>1. \A k \in Chunks : Over(k) => ~Held(k) /\ k \notin saved_buffers
    BY OverIsFreed DEF Held
  <2>2. occupancy \subseteq UNION { slots[k] : k \in { l \in Chunks : ~Over(l) } }
    BY <2>1 DEF LeftInv, OccupiedIsHeld
  <2>3. saved_buffers \subseteq Chunks
    BY DEF SendInv, TypeOK
  <2> QED  BY <2>1, <2>2, <2>3 DEF NothingLeft
<1> QED  BY <1>1, <1>2, SenderInvariant, PTL

=============================================================================
