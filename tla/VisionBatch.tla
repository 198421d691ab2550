----------------------------- MODULE VisionBatch -----------------------------
(***************************************************************************)
(* The vision encoders of the Qwen models, from a batch of images or       *)
(* videos to one embedding for each: the patches of all data are one long  *)
(* sequence, which is given positions, cut into frames or windows for the  *)
(* attention, permuted for the windows, merged, permuted back and split.   *)
(*                                                                         *)
(* A datum is the grid <<frames, height, width>> of its patches.  A patch  *)
(* is known by its datum, frame, row and column; a token by its patch, the *)
(* position it is given and, after an attention layer, by the tokens it    *)
(* has attended to.                                                        *)
(***************************************************************************)
EXTENDS Tensors

CONSTANTS
  MergeSize,   (* spatial_merge_size                                       *)
  Window,      (* the side of a window, in merged tokens                   *)
  Deepstack,   (* how many of the layers have a merger of their own        *)
  Grids        (* the grids of images and videos, in patches               *)

ASSUME VisionAssumption ==
  /\ {MergeSize, Window} \subseteq Nat \ {0} /\ Deepstack \in Nat
  /\ \A g \in Grids : g[1] > 0 /\ g[2] % MergeSize = 0 /\ g[3] % MergeSize = 0

MergeUnit == MergeSize * MergeSize

Size(g) == g[1] * g[2] * g[3]
MergedHeight(g) == g[2] \div MergeSize
MergedWidth(g) == g[3] \div MergeSize
Blocks(g) == <<MergedHeight(g), MergedWidth(g), MergeSize, MergeSize>>

(* The image processor orders the patches of a frame by merged token.      *)
PatchesOf(b, g) ==
  LET at == RowMajor(<<g[1]>> \o Blocks(g))
  IN  [n \in DOMAIN at |-> [datum |-> b, frame |-> at[n][1],
                            row |-> at[n][2] * MergeSize + at[n][4],
                            col |-> at[n][3] * MergeSize + at[n][5]]]

Patchify(grids) == Cat([b \in DOMAIN grids |-> PatchesOf(b, grids[b])])

(* rot_pos_emb: the rows and columns of the grid, reshaped to blocks of the *)
(* merge size, permuted and repeated for each frame.                        *)
Permuted(x) == <<x[1] * MergeSize + x[3], x[2] * MergeSize + x[4]>>
RotPosEmb(grids) ==
  Cat([b \in DOMAIN grids |->
         LET at == RowMajor(Blocks(grids[b]))
         IN  Repeat([n \in DOMAIN at |-> Permuted(at[n])], grids[b][1])])

(* That of Qwen3-VL adds the offsets within a block to those of the block. *)
RotPosEmb3(grids) ==
  Cat([b \in DOMAIN grids |->
         LET at == RowMajor(Blocks(grids[b]))
             row_idx == [n \in DOMAIN at |-> at[n][1] * MergeSize + at[n][3]]
             col_idx == [n \in DOMAIN at |-> at[n][2] * MergeSize + at[n][4]]
         IN  Repeat([n \in DOMAIN at |-> <<row_idx[n], col_idx[n]>>], grids[b][1])])

(* fast_pos_embed_interpolate: one embedding for each cell of the grid, in *)
(* the order of the rows, repeated for each frame and permuted to blocks.  *)
PosEmbed(grids) ==
  Cat([b \in DOMAIN grids |->
         LET g == grids[b]
             combined == RowMajor(<<g[2], g[3]>>)
             at == RowMajor(<<g[1]>> \o Blocks(g))
         IN  [n \in DOMAIN at |->
                combined[(at[n][2] * MergeSize + at[n][4]) * g[3]
                           + at[n][3] * MergeSize + at[n][5] + 1]]])

(* cu_seqlens: every frame on its own. *)
CuSeqlens(grids) ==
  LET frames == Cat([b \in DOMAIN grids |-> Repeat(<<grids[b][2] * grids[b][3]>>, grids[b][1])])
  IN  <<0>> \o CumSum(frames)

(* The merger turns each unit of consecutive tokens into one. *)
Merger(tokens) == SplitEvery(tokens, MergeUnit)

Seqlens(grids) == [b \in DOMAIN grids |-> Size(grids[b]) \div MergeUnit]

-----------------------------------------------------------------------------
(* get_window_index: the merged tokens of each frame are padded to whole    *)
(* windows, an empty one at least in each direction that needs none, read   *)
(* window by window, and the padding dropped.                               *)
Padded(n) == n + (Window - (n % Window))
WindowsOf(g) ==
  LET h == MergedHeight(g)
      w == MergedWidth(g)
      windows == RowMajor(<<g[1], Padded(h) \div Window, Padded(w) \div Window>>)
      cells == RowMajor(<<Window, Window>>)
      Row(a, c) == a[2] * Window + c[1]
      Col(a, c) == a[3] * Window + c[2]
      Inside(a) == SelectSeq(cells, LAMBDA c : Row(a, c) < h /\ Col(a, c) < w)
  IN  [k \in DOMAIN windows |->
         [n \in DOMAIN Inside(windows[k]) |->
            LET a == windows[k]
                c == Inside(a)[n]
            IN  a[1] * h * w + Row(a, c) * w + Col(a, c)]]

(* Every datum's indices start after those of the data before it. *)
WindowIndexId(grids, b) == Total(SubSeq(Seqlens(grids), 1, b - 1))
WindowIndex(grids) ==
  Cat([b \in DOMAIN grids |->
         LET index == Cat(WindowsOf(grids[b]))
         IN  [n \in DOMAIN index |-> index[n] + WindowIndexId(grids, b)]])

(* cu_window_seqlens, in patches; empty windows leave no trace. *)
CuWindowSeqlens(grids) ==
  LET windows == Cat([b \in DOMAIN grids |-> WindowsOf(grids[b])])
      cu == <<0>> \o CumSum([k \in DOMAIN windows |-> Len(windows[k]) * MergeUnit])
  IN  SelectSeq([k \in DOMAIN cu |-> IF k > 1 /\ cu[k] = cu[k - 1] THEN -1 ELSE cu[k]],
                LAMBDA n : n >= 0)

(* Units of tokens in the order of the index, and argsort of it. *)
Reordered(s, index) ==
  LET units == SplitEvery(s, MergeUnit) IN Cat([n \in DOMAIN index |-> units[index[n] + 1]])
Reversed(s, index) ==
  [j \in DOMAIN index |-> s[CHOOSE n \in DOMAIN index : index[n] = j - 1]]

-----------------------------------------------------------------------------
(* forward of the models.  A token is labelled with the position embeddings *)
(* it gets; the layers are those with full and those with window attention. *)
Tokens(patches, rotary) == [n \in DOMAIN patches |-> [patch |-> patches[n], pos |-> rotary[n]]]

Qwen2VL(grids) ==
  LET x == Tokens(Patchify(grids), RotPosEmb(grids))
      merged == Merger(Attend(x, CuSeqlens(grids)))
  IN  [data |-> Split(merged, Seqlens(grids)), splits |-> Splits(merged, Seqlens(grids))]

Qwen25VL(grids, cu_seqlens) ==
  LET window_index == WindowIndex(grids)
      hidden_states == Reordered(Patchify(grids), window_index)
      rotary_pos_emb == Reordered(RotPosEmb(grids), window_index)
      merged == Merger(Attend(Tokens(hidden_states, rotary_pos_emb), cu_seqlens))
      result == Reversed(merged, window_index)
  IN  [data |-> Split(result, Seqlens(grids)), splits |-> Splits(result, Seqlens(grids))]

FullAttention(grids) == Qwen25VL(grids, CuSeqlens(grids))
WindowAttention(grids) == Qwen25VL(grids, CuWindowSeqlens(grids))

(* The outputs of the mergers are put side by side. *)
Beside(parts) == [n \in DOMAIN parts[1] |-> [k \in DOMAIN parts |-> parts[k][n]]]
Deep(x, grids) ==
  LET merged == Beside([k \in 1 .. 1 + Deepstack |-> Merger(Attend(x, CuSeqlens(grids)))])
  IN  [data |-> Split(merged, Seqlens(grids)), splits |-> Splits(merged, Seqlens(grids))]

Qwen3VL(grids) ==
  Deep(Tokens(Beside(<<Patchify(grids), PosEmbed(grids)>>), RotPosEmb3(grids)), grids)
Qwen3Omni(grids) ==
  Deep(Tokens(Beside(<<Patchify(grids), PosEmbed(grids)>>), RotPosEmb(grids)), grids)

-----------------------------------------------------------------------------
(* What the embedding of a datum should be, whatever it is batched with:   *)
(* its merged tokens row by row, each of four neighbouring patches at      *)
(* their own places, which have attended to what is visible from there.    *)
At(p) == <<p.row, p.col>>
Patch(b, f, r, c) == [datum |-> b, frame |-> f, row |-> r, col |-> c]
PatchSet(b, g) == { Patch(b, f, r, c) : f \in 0 .. g[1] - 1, r \in 0 .. g[2] - 1, c \in 0 .. g[3] - 1 }

Expected(b, g, Label(_), Near(_, _)) ==
  [n \in 1 .. Size(g) \div MergeUnit |->
     [m \in 1 .. MergeUnit |->
        LET tokens_w == MergedWidth(g)
            frame == (n - 1) \div (MergedHeight(g) * tokens_w)
            cell == (n - 1) % (MergedHeight(g) * tokens_w)
            p == Patch(b, frame, (cell \div tokens_w) * MergeSize + ((m - 1) \div MergeSize),
                                 (cell % tokens_w) * MergeSize + ((m - 1) % MergeSize))
        IN  [own |-> Label(p), with |-> { Label(q) : q \in { q \in PatchSet(b, g) : Near(p, q) } }]]]

SameFrame(p, q) == p.frame = q.frame
SameWindow(p, q) ==
  LET side == Window * MergeSize
  IN  p.frame = q.frame /\ p.row \div side = q.row \div side /\ p.col \div side = q.col \div side

Placed(p) == [patch |-> p, pos |-> At(p)]
PlacedTwice(p) == [patch |-> <<p, At(p)>>, pos |-> At(p)]

(* Every image or video gets its own tokens, in the order of the rows, each *)
(* with its own position, that have attended to tokens of the same frame,   *)
(* or window, and to no other datum.                                        *)
EachImageItsOwn(grids) ==
  LET Is(out, Label(_), Near(_, _)) ==
        out.splits /\ \A b \in DOMAIN grids : out.data[b] = Expected(b, grids[b], Label, Near)
      Is3(out) ==
        /\ out.splits
        /\ \A b \in DOMAIN grids :
             LET expected == Expected(b, grids[b], PlacedTwice, SameFrame)
             IN  out.data[b] = [n \in DOMAIN expected |-> [k \in 1 .. 1 + Deepstack |-> expected[n]]]
  IN  /\ Is(Qwen2VL(grids), Placed, SameFrame)
      /\ Is(FullAttention(grids), Placed, SameFrame)
      /\ Is(WindowAttention(grids), Placed, SameWindow)
      /\ Is3(Qwen3VL(grids)) /\ Is3(Qwen3Omni(grids))
=============================================================================
