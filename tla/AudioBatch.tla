----------------------------- MODULE AudioBatch ------------------------------
(***************************************************************************)
(* The audio encoders of Qwen2.5-Omni and Qwen3-Omni, from a batch of      *)
(* audios to one embedding for each: the frames of all audios are one long *)
(* sequence, which is cut into chunks for the convolutions; what they make *)
(* of the chunks is one sequence again, cut into windows for the attention *)
(* and split by audio.                                                     *)
(*                                                                         *)
(* An audio is the number of its frames.  A frame is known by its audio    *)
(* and its number; a token by its first and its last frame, its position   *)
(* in the chunk, whether the convolutions made it of what they had made of *)
(* the padding, and, after an attention layer, the tokens it attended to.  *)
(***************************************************************************)
EXTENDS Tensors

CONSTANTS
  NWindow2,      (* n_window of Qwen2.5-Omni                               *)
  NWindowInfer,  (* n_window_infer of Qwen3-Omni                           *)
  ShortAudios,   (* the lengths of the audios of Qwen2.5-Omni, in frames   *)
  LongAudios     (* the lengths of the audios of Qwen3-Omni                *)

(* n_window of Qwen3-Omni is 50, and 100 frames make 13 tokens.            *)
NWindow3 == 50

ASSUME AudioAssumption ==
  /\ NWindow2 \in Nat \ {0}
  /\ NWindowInfer \in Nat /\ NWindowInfer >= 2 * NWindow3
  /\ \A n \in ShortAudios : n \in Nat /\ n > 2
  /\ LongAudios \subseteq Nat \ {0}

ValidFrames(lens) == Cat([b \in DOMAIN lens |-> [n \in 1 .. lens[b] |-> <<b, n>>]])

(* The last chunk of each audio, found by adding up the numbers of chunks, *)
(* has what is left, unless nothing is.                                    *)
ChunkNum(lens, size) == [b \in DOMAIN lens |-> (lens[b] + size - 1) \div size]
TailChunk(lens, size) == CumSum(ChunkNum(lens, size))
ChunkLengths(lens, size) ==
  LET tail == TailChunk(lens, size)
      Left(c) == { lens[b] % size : b \in { b \in DOMAIN lens : tail[b] = c } } \ {0}
  IN  [c \in 1 .. Total(ChunkNum(lens, size)) |->
         IF Left(c) = {} THEN size ELSE CHOOSE n \in Left(c) : TRUE]

Chunks(lens, size) == Split(ValidFrames(lens), ChunkLengths(lens, size))

(* Strided convolutions make tokens of a chunk, of `stride` frames each.    *)
Convolved(chunk, stride, padding) ==
  [k \in DOMAIN padding |->
     [first |-> chunk[(k - 1) * stride + 1],
      last |-> chunk[IF k * stride < Len(chunk) THEN k * stride ELSE Len(chunk)],
      pos |-> k, padding |-> padding[k]]]

-----------------------------------------------------------------------------
(* Qwen2.5-Omni: one convolution halves a chunk, and what the one before it *)
(* makes of the padding is masked; each chunk attends to itself; the tokens *)
(* of an audio are pooled in pairs.                                         *)
Masked(n) == [k \in 1 .. n |-> FALSE]
AfterCnn2(n) == (n - 1) \div 2 + 1
OutputLength2(n) == (AfterCnn2(n) - 2) \div 2 + 1

AvgPool(s) == [k \in 1 .. Len(s) \div 2 |-> <<s[2 * k - 1], s[2 * k]>>]

Audio25(lens) ==
  LET chunks == Chunks(lens, 2 * NWindow2)
      embeds == [c \in DOMAIN chunks |-> Convolved(chunks[c], 2, Masked(AfterCnn2(Len(chunks[c]))))]
      cu_seqlens == <<0>> \o CumSum([c \in DOMAIN embeds |-> Len(embeds[c])])
      hidden_states == Attend(Cat(embeds), cu_seqlens)
      aftercnn_lens == [b \in DOMAIN lens |-> AfterCnn2(lens[b])]
      states == Split(hidden_states, aftercnn_lens)
      tokens == Cat([b \in DOMAIN states |-> AvgPool(states[b])])
      output_lengths == [b \in DOMAIN lens |-> OutputLength2(lens[b])]
  IN  [data |-> Split(tokens, output_lengths),
       splits |-> Splits(hidden_states, aftercnn_lens) /\ Splits(tokens, output_lengths)]

-----------------------------------------------------------------------------
(* Qwen3-Omni: three convolutions, and windows of several chunks.          *)
OutputLength3(n) ==
  LET left == ((n % 100) - 1) \div 2 + 1
  IN  ((left - 1) \div 2 + 1 - 1) \div 2 + 1 + (n \div 100) * 13

(* The windows of an audio: as many whole ones as there are, and the rest. *)
CuChunkLens(aftercnn_lens, window) ==
  <<0>> \o Cat([b \in DOMAIN aftercnn_lens |->
     LET left == aftercnn_lens[b] % window
     IN  Repeat(<<window>>, aftercnn_lens[b] \div window) \o (IF left = 0 THEN <<>> ELSE <<left>>)])

(* Each of the convolutions halves what it gets, and makes the entry j of   *)
(* what it reads around 2 * j.  Chunks are padded with zeros to the longest *)
(* of the batch, and nothing is masked: what is made of zeros is not zero,  *)
(* and the next convolution reads it where alone it would read zeros.       *)
Halved(n) == (n + 1) \div 2
Read(j) == 2 * j - 1 .. 2 * j + 1
MadeOfPadding(len, longest, k) ==
  \E j \in Read(k - 1) :
    /\ j < Halved(Halved(longest))
    /\ \/ j >= Halved(Halved(len))
       \/ \E i \in Read(j) : Halved(len) <= i /\ i < Halved(longest)

Audio3(lens) ==
  LET chunks == Chunks(lens, 2 * NWindow3)
      longest == Max({ Len(chunks[c]) : c \in DOMAIN chunks })
      embeds == [c \in DOMAIN chunks |->
                   LET n == Len(chunks[c])
                       padding == [k \in 1 .. OutputLength3(n) |-> MadeOfPadding(n, longest, k)]
                   IN  Convolved(chunks[c], 8, padding)]
      width == Max({ Len(embeds[c]) : c \in DOMAIN embeds })
      window_aftercnn == width * (NWindowInfer \div (2 * NWindow3))
      aftercnn_lens == [b \in DOMAIN lens |-> OutputLength3(lens[b])]
      hidden_states == Attend(Cat(embeds), CumSum(CuChunkLens(aftercnn_lens, window_aftercnn)))
  IN  [data |-> Split(hidden_states, aftercnn_lens), splits |-> Splits(hidden_states, aftercnn_lens)]

-----------------------------------------------------------------------------
(* What the embedding of an audio should be: the token of every `stride`    *)
(* frames of its chunks, in order, which has attended to those of the same  *)
(* window of `chunks` chunks.  If `spoilt`, its last token is made of       *)
(* padding.                                                                 *)
TokenOf(b, len, chunk, k, stride, size, spoilt) ==
  LET from == chunk * size + (k - 1) * stride
      to == Min({ from + stride, (chunk + 1) * size, len })
  IN  [first |-> <<b, from + 1>>, last |-> <<b, to>>, pos |-> k, padding |-> spoilt /\ to = len]

Heard(b, len, stride, size, chunks, spoilt) ==
  LET per == (size + stride - 1) \div stride
      ChunkOf(n) == (n - 1) \div per
      count == (len \div size) * per + ((len % size) + stride - 1) \div stride
      Token(n) == TokenOf(b, len, ChunkOf(n), ((n - 1) % per) + 1, stride, size, spoilt)
  IN  [n \in 1 .. count |->
         [own |-> Token(n),
          with |-> { Token(m) : m \in { m \in 1 .. count :
                       ChunkOf(m) \div chunks = ChunkOf(n) \div chunks } }]]

(* Every audio gets its own tokens, in the order of its frames, with their  *)
(* own positions, that have attended to the same window of the same audio.  *)
EachShortAudioItsOwn(lens) ==
  LET out == Audio25(lens)
  IN  /\ out.splits
      /\ \A b \in DOMAIN lens : out.data[b] = AvgPool(Heard(b, lens[b], 2, 2 * NWindow2, 1, FALSE))

(* So does an audio of Qwen3-Omni, but if its last chunk is not the longest *)
(* of the batch, and it or its half does not divide evenly, its last token  *)
(* is made of padding, and what attends to this token hears it.  Nothing    *)
(* else is.  An audio of a whole chunk or more has the longest itself.      *)
Spoilt(len, longest) ==
  LET half == Halved(len) quarter == Halved(half)
  IN  \/ half % 2 = 1 /\ Halved(longest) > half
      \/ quarter % 2 = 1 /\ Halved(Halved(longest)) > quarter

EachLongAudioItsOwn(lens) ==
  LET size == 2 * NWindow3
      InLast(len) == IF len % size = 0 THEN size ELSE len % size
      longest == Max({ Min({ size, lens[b] }) : b \in DOMAIN lens })
      out == Audio3(lens)
  IN  /\ out.splits
      /\ \A b \in DOMAIN lens :
           out.data[b] =
             Heard(b, lens[b], 8, size, NWindowInfer \div size, Spoilt(InLast(lens[b]), longest))
=============================================================================
