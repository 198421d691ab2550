------------------------------- MODULE Tensors -------------------------------
(***************************************************************************)
(* The operations on tensors that Eric's models batch, shard and unbatch   *)
(* with, on the sequence of the labels of what a tensor holds along the    *)
(* dimension that matters.  Indices of dimensions start at 0, as in the    *)
(* code; those of sequences at 1.                                          *)
(***************************************************************************)
EXTENDS Integers, Sequences, SequencesExt

Total(lens) ==
  LET sum[k \in 0 .. Len(lens)] == IF k = 0 THEN 0 ELSE sum[k - 1] + lens[k] IN sum[Len(lens)]
Product(dims) ==
  LET of[k \in 0 .. Len(dims)] == IF k = 0 THEN 1 ELSE of[k - 1] * dims[k] IN of[Len(dims)]
CumSum(lens) == [k \in DOMAIN lens |-> Total(SubSeq(lens, 1, k))]

(* The indices of a tensor of dimensions dims in the order of its elements. *)
RowMajor(dims) ==
  LET stride == [k \in DOMAIN dims |-> Product(SubSeq(dims, k + 1, Len(dims)))]
  IN  [n \in 1 .. Product(dims) |->
         [k \in DOMAIN dims |-> ((n - 1) \div stride[k]) % dims[k]]]

Cat(parts) == FlattenSeq(parts)
Repeat(s, n) == Cat([k \in 1 .. n |-> s])

(* split with a list of lengths, which fails unless they add up; and with a *)
(* size, where the last part may be shorter.                                *)
Splits(s, lens) == Total(lens) = Len(s)
Split(s, lens) ==
  LET cu == CumSum(lens) IN [k \in DOMAIN lens |-> SubSeq(s, cu[k] - lens[k] + 1, cu[k])]
SplitEvery(s, size) ==
  [k \in 1 .. (Len(s) + size - 1) \div size |->
     SubSeq(s, (k - 1) * size + 1, IF k * size < Len(s) THEN k * size ELSE Len(s))]
Chunk(s, n) == SplitEvery(s, (Len(s) + n - 1) \div n)

(* flash_attn_varlen_func: each token attends to those between the same two *)
(* of the cumulative lengths cu. *)
Attend(tokens, cu) ==
  LET segment == [k \in 1 .. Len(cu) - 1 |-> { tokens[n] : n \in cu[k] + 1 .. cu[k + 1] }]
      of == [n \in DOMAIN tokens |-> CHOOSE k \in DOMAIN segment : cu[k] < n /\ n <= cu[k + 1]]
  IN  [n \in DOMAIN tokens |-> [own |-> tokens[n], with |-> segment[of[n]]]]
=============================================================================
