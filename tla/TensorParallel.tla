--------------------------- MODULE TensorParallel ----------------------------
(***************************************************************************)
(* The tensor parallelism of Eric's models: how the weights of attention   *)
(* and of the feed-forward layers are sharded when they are loaded, what   *)
(* each rank computes with its shards, and how the ranks' results are put  *)
(* together, for each of the attention layers.                             *)
(*                                                                         *)
(* A row of a weight matrix is known by its label, and so is the value     *)
(* that it gives when the input, which is the same on all ranks, is        *)
(* multiplied with it: "q", "k" or "v", the head and the place in it.      *)
(* A term is the product of a column of the attention's output with a      *)
(* column of the output projection; a result is a sum of terms.            *)
(***************************************************************************)
EXTENDS Tensors

CONSTANTS
  NumHeads,  (* the heads of the attention                                 *)
  HeadDim,   (* head_dim                                                   *)
  FFDim,     (* the intermediate size of the feed-forward layers           *)
  WorldSizes (* the degrees of tensor parallelism                          *)

ASSUME ParallelAssumption ==
  /\ {NumHeads, HeadDim, FFDim} \subseteq Nat \ {0}
  /\ \A tp \in WorldSizes : tp \in Nat \ {0} /\ FFDim % tp = 0

Ranks(tp) == 1 .. tp
EmbedDim == NumHeads * HeadDim

(* The weights as they are stored, separately or fused.                    *)
Stored(role) == LET at == RowMajor(<<NumHeads, HeadDim>>) IN [n \in DOMAIN at |-> <<role>> \o at[n]]
Separate == <<Stored("q"), Stored("k"), Stored("v")>>
Fused == Cat(Separate)

-----------------------------------------------------------------------------
(* narrow of a weight to a rank's shard, when a linear layer is loaded.    *)
Narrowed(weight, rank, tp) ==
  LET shard_size == Len(weight) \div tp
  IN  SubSeq(weight, (rank - 1) * shard_size + 1, rank * shard_size)

(* QKVParallelLinear: what is fused is separated, and the shards of each    *)
(* rank are put next to each other.                                         *)
ShardConcat(q, k, v, tp) ==
  Cat([r \in Ranks(tp) |-> Chunk(q, tp)[r] \o Chunk(k, tp)[r] \o Chunk(v, tp)[r]])
Separated(fused) == Chunk(fused, 3)
QKV(parts, tp) == ShardConcat(parts[1], parts[2], parts[3], tp)

(* The output of a column-parallel layer, by rank. *)
Column(weight, tp) == [r \in Ranks(tp) |-> Narrowed(weight, r, tp)]

(* The collectives, the first two along the last dimension, by rank, and    *)
(* the split of what all ranks have.                                        *)
AllGather(local, tp) == [r \in Ranks(tp) |-> Cat(local)]
AllGatherInterleave(local, size, tp) ==
  LET pieces == [r \in Ranks(tp) |-> SplitEvery(local[r], size \div tp)]
  IN  [s \in Ranks(tp) |->
         Cat([n \in DOMAIN pieces[s] |-> Cat([r \in Ranks(tp) |-> pieces[r][n]])])]
AllReduce(partial, tp) == [r \in Ranks(tp) |-> Cat(partial)]
OfRank(x, rank, tp) == SplitEvery(x, Len(x) \div tp)[rank]

(* The output projection is sharded along its input; the bias is added by   *)
(* rank 0, and the ranks' sums are added up.                                *)
Bias == <<"bias">>
BiasOf(rank) == IF rank = 1 THEN <<Bias>> ELSE <<>>
RowParallel(local, columns, tp) ==
  AllReduce([r \in Ranks(tp) |->
               LET weight == Narrowed(columns, r, tp)
               IN  [n \in DOMAIN weight |-> <<local[r][n], weight[n]>>] \o BiasOf(r)], tp)

Columns(n) == [i \in 1 .. n |-> i - 1]

-----------------------------------------------------------------------------
(* What each rank has for q, k and v, a sequence of the three, by the       *)
(* attention layers.                                                        *)

(* Siglip and InternViT: the local output is q, k and v of the rank.        *)
LocalQKV(parts, tp) ==
  LET qkv == Column(QKV(parts, tp), tp) IN [r \in Ranks(tp) |-> Chunk(qkv[r], 3)]
Siglip(tp) == LocalQKV(Separate, tp)

(* InternViT normalizes q and k over all heads. *)
QKNorm(local, tp) ==
  [r \in Ranks(tp) |->
     [n \in 1 .. 3 |->
        IF n = 3 THEN local[r][n]
        ELSE OfRank(AllGather([s \in Ranks(tp) |-> local[s][n]], tp)[r], r, tp)]]
InternViT(tp) == QKNorm(LocalQKV(Separated(Fused), tp), tp)

(* Qwen2-VL to Qwen3-VL: the fused weight is cut wherever the shards end,   *)
(* and all of the output gathered before it is split; Qwen2.5-Omni gathers  *)
(* the three parts of each rank.                                            *)
SplitQKV(qkv, tp) ==
  [r \in Ranks(tp) |-> [n \in 1 .. 3 |-> OfRank(Chunk(qkv[r], 3)[n], r, tp)]]
SplitLocally(tp) ==
  [r \in Ranks(tp) |-> Chunk(Column(Fused, tp)[r], 3)]
Qwen2(tp) ==
  LET qkv == Column(Fused, tp)
  IN  SplitQKV(IF tp > 1 THEN AllGather(qkv, tp) ELSE qkv, tp)
Qwen2Omni(tp) ==
  LET qkv == Column(QKV(Separate, tp), tp)
  IN  SplitQKV(IF tp > 1 THEN AllGatherInterleave(qkv, EmbedDim, tp) ELSE qkv, tp)

(* The audio encoders have a layer for each. *)
Audio(tp) ==
  [r \in Ranks(tp) |->
     <<Column(Stored("q"), tp)[r], Column(Stored("k"), tp)[r], Column(Stored("v"), tp)[r]>>]

-----------------------------------------------------------------------------
(* The attention of a rank takes the columns of q, k and v in heads.  The   *)
(* output of a head is known by what it is made of.                         *)
Attention(qkv, num_heads) ==
  LET heads == [n \in 1 .. 3 |-> SplitEvery(qkv[n], Len(qkv[n]) \div num_heads)]
      at == RowMajor(<<num_heads, HeadDim>>)
  IN  [n \in DOMAIN at |->
         LET h == at[n][1] + 1
         IN  [q |-> heads[1][h], k |-> heads[2][h], v |-> heads[3][h][at[n][2] + 1]]]

Projected(qkv, tp) ==
  RowParallel([r \in Ranks(tp) |-> Attention(qkv[r], NumHeads \div tp)], Columns(EmbedDim), tp)

(* InternViT's attention on every rank, without shards, for heads that     *)
(* cannot be divided among the ranks.                                      *)
Sdpa(tp) ==
  LET out == Attention(Chunk(Fused, 3), NumHeads)
  IN  [r \in Ranks(tp) |-> [n \in DOMAIN out |-> <<out[n], Columns(EmbedDim)[n]>>] \o <<Bias>>]
InternAttention(tp) == IF NumHeads % tp = 0 THEN Projected(InternViT(tp), tp) ELSE Sdpa(tp)

(* The feed-forward layers: the way up by column, the way down by row; or  *)
(* the gate and the way up, multiplied.                                    *)
TwoLayer(tp) == RowParallel(Column(Columns(FFDim), tp), Columns(FFDim), tp)
FeedForward(tp) ==
  LET gate == Column(Columns(FFDim), tp)
      up == Column(Columns(FFDim), tp)
  IN  RowParallel([r \in Ranks(tp) |-> [n \in DOMAIN gate[r] |-> <<gate[r][n], up[r][n]>>]],
                  Columns(FFDim), tp)

-----------------------------------------------------------------------------
(* The terms of the layer on one device. *)
HeadRow(role, h) == [d \in 1 .. HeadDim |-> <<role, h, d - 1>>]
Term(i) ==
  LET h == i \div HeadDim
  IN  <<[q |-> HeadRow("q", h), k |-> HeadRow("k", h), v |-> <<"v", h, i % HeadDim>>], i>>
AttentionTerms == { Term(i) : i \in 0 .. EmbedDim - 1 }

OnceEverywhere(out, terms, tp) ==
  \A r \in Ranks(tp) : IsInjective(out[r]) /\ ToSet(out[r]) = terms \cup {Bias}

(* Whatever the degree of tensor parallelism, every rank gets what one      *)
(* device would compute: the output of every head, of its own queries,      *)
(* keys and values, meets its own columns of the output projection, once,   *)
(* on one of the ranks, and the bias is added once.                         *)
EveryTermOnce(tp) ==
  /\ NumHeads % tp = 0 =>
       \A qkv \in {Siglip(tp), Qwen2(tp), Qwen2Omni(tp), Audio(tp)} :
         OnceEverywhere(Projected(qkv, tp), AttentionTerms, tp)
  /\ OnceEverywhere(InternAttention(tp), AttentionTerms, tp)
  /\ OnceEverywhere(TwoLayer(tp), { <<i, i>> : i \in 0 .. FFDim - 1 }, tp)
  /\ OnceEverywhere(FeedForward(tp), { <<<<i, i>>, i>> : i \in 0 .. FFDim - 1 }, tp)
=============================================================================
