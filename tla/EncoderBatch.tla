---------------------------- MODULE EncoderBatch -----------------------------
(***************************************************************************)
(* What Eric's workers compute with a batch: the encoder of a family of    *)
(* models, on the ranks of a degree of tensor parallelism, from the data   *)
(* that the scheduler has put together.  The input grows by a datum a      *)
(* step, and all else is a function of it.                                 *)
(***************************************************************************)
EXTENDS VisionBatch, AudioBatch, TileBatch, TensorParallel

CONSTANT MaxInput  (* bound on the data of a batch *)

ASSUME InputAssumption == MaxInput \in Nat \ {0}

(* The families, and what tells the data of each apart. *)
DataOf ==
  [qwen_vision |-> Grids, qwen2_audio |-> ShortAudios, qwen3_audio |-> LongAudios,
   tiled_image |-> ImageSizes, llava_image |-> Layouts, frames |-> FrameCounts]

VARIABLES
  family, (* the family of the model                                       *)
  degree, (* the degree of tensor parallelism                              *)
  input   (* the data of the batch, in order                               *)

inputVars == <<family, degree, input>>

InputInit == family \in DOMAIN DataOf /\ degree \in WorldSizes /\ input = <<>>

InputNext ==
  \/ /\ Len(input) < MaxInput
     /\ \E x \in DataOf[family] : input' = Append(input, x)
     /\ UNCHANGED <<family, degree>>
  \/ Len(input) = MaxInput /\ UNCHANGED inputVars

(* The batches, and the degrees of parallelism, that the encoders treat as  *)
(* they should; constants, which TLC computes once.                         *)
Batches(f) == UNION { [1 .. n -> DataOf[f]] : n \in 1 .. MaxInput }
Embedded ==
  [qwen_vision |-> { s \in Batches("qwen_vision") : EachImageItsOwn(s) },
   qwen2_audio |-> { s \in Batches("qwen2_audio") : EachShortAudioItsOwn(s) },
   qwen3_audio |-> { s \in Batches("qwen3_audio") : EachLongAudioItsOwn(s) },
   tiled_image |-> { s \in Batches("tiled_image") : EachTiledImageItsOwn(s) },
   llava_image |-> { s \in Batches("llava_image") : EachLayoutItsOwn(s) },
   frames |-> { s \in Batches("frames") : EachVideoItsOwn(s) }]
Parallelized == { n \in WorldSizes : EveryTermOnce(n) }

(* Every datum of a batch gets its own tokens, all of them, in order and   *)
(* at their own positions, which have seen no patch, frame or tile of what *)
(* the datum is batched with (forward of the models, and the embeddings    *)
(* that worker.py:319-331 sends by their place).  It is the embedding that *)
(* the datum would get alone, except for audios of Qwen3-Omni of less than *)
(* a chunk beside longer ones: the convolutions over padded chunks are not *)
(* masked, and their last token is another (qwen3_omni_moe.py:657-672).    *)
(* Audios of up to two frames of Qwen2.5-Omni and videos of one frame      *)
(* (llava_onevision.py:256) are no inputs here.                            *)
EachItsOwn == input # <<>> => input \in Embedded[family]

(* Whatever the degree of tensor parallelism, no head is computed twice,   *)
(* left out or mixed with another, although the weights are cut in another *)
(* way by every model (layers/linear.py, split_qkv of the models).         *)
EveryHeadOnce == degree \in Parallelized
=============================================================================
