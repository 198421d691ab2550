------------------------------ MODULE TileBatch ------------------------------
(***************************************************************************)
(* The encoders that cut an image into tiles of a fixed size or take a     *)
(* video as a list of frames of that size: InternVL, LLaVA-OneVision and   *)
(* Gemma 3.  The tiles of all data of a batch go through the vision tower  *)
(* together; what it makes of them is split by datum and put in order.     *)
(*                                                                         *)
(* A tile's features are known by the datum, what the tile shows and the   *)
(* row and column in it; what is pooled, by the set of its features.  The  *)
(* tower sees each tile on its own.                                        *)
(***************************************************************************)
EXTENDS Tensors

CONSTANTS
  ImageSizes,    (* <<width, height>> of the images of InternVL, in pixels *)
  TileSize,      (* image_size, in pixels                                  *)
  MinTiles,      (* min_dynamic_patch                                      *)
  MaxTiles,      (* max_dynamic_patch                                      *)
  UseThumbnail,  (* use_thumbnail                                          *)
  Side,          (* the rows and columns of a tile's features: InternVL's  *)
                 (* and Gemma's, and below LLaVA's                         *)
  LlavaSide,
  TokensPerSide, (* tokens_per_side of Gemma                               *)
  Layouts,       (* what LLaVA's image processor makes of an image: a      *)
                 (* record of the rows and columns of tiles, and of the    *)
                 (* rows and columns of features that are padding on each  *)
                 (* side                                                   *)
  FrameCounts    (* the frames of a video, the crops of an image           *)

ASSUME TileAssumption ==
  /\ {TileSize, MinTiles, Side, LlavaSide, TokensPerSide} \subseteq Nat \ {0}
  /\ Side % 2 = 0 /\ Side % TokensPerSide = 0
  /\ MaxTiles \in Nat /\ MaxTiles >= MinTiles /\ UseThumbnail \in BOOLEAN
  /\ \A n \in FrameCounts : n \in Nat \ {0, 1}

Cell(b, tile, row, col) == [datum |-> b, tile |-> tile, row |-> row, col |-> col]
Base == <<"base">>
Thumbnail == <<"thumbnail">>
Mark == Cell(0, <<"newline">>, 0, 0)
ClassToken == Cell(0, <<"class">>, 0, 0)

(* The vision tower: the features of a tile, row by row; InternViT puts a   *)
(* class token in front of them.                                            *)
Features(b, tile, side) ==
  LET at == RowMajor(<<side, side>>) IN [n \in DOMAIN at |-> Cell(b, tile, at[n][1], at[n][2])]

Tower(tiles, side) ==
  Cat([b \in DOMAIN tiles |-> [n \in DOMAIN tiles[b] |-> Features(b, tiles[b][n], side)]])
InternTower(tiles) ==
  LET tower == Tower(tiles, Side) IN [n \in DOMAIN tower |-> <<ClassToken>> \o tower[n]]

FramesOf(n) == [f \in 1 .. n |-> <<f>>]
Videos(counts) == [b \in DOMAIN counts |-> FramesOf(counts[b])]
Flat(parts) == [b \in DOMAIN parts |-> Cat(parts[b])]

-----------------------------------------------------------------------------
(* InternVL: the number of columns and rows of tiles whose ratio is nearest *)
(* to that of the image, in the order of the number of tiles.               *)
MinMax(min, max, dynamic) == IF dynamic THEN <<min, max>> ELSE <<1, 1>>
TargetRatios(limits) ==
  { r \in (1 .. limits[2]) \X (1 .. limits[2]) : limits[1] <= r[1] * r[2] /\ r[1] * r[2] <= limits[2] }
InOrder(limits) ==
  LET pairs == RowMajor(<<limits[2] + 1, limits[2] + 1>>)
  IN  Cat([n \in 1 .. limits[2] |->
             SelectSeq(pairs, LAMBDA r : r[1] * r[2] = n /\ r \in TargetRatios(limits))])

(* |width / height - r[1] / r[2]|, as <<numerator, denominator>>.          *)
RatioDiff(size, r) ==
  LET d == size[1] * r[2] - r[1] * size[2]
  IN  <<IF d < 0 THEN -d ELSE d, size[2] * r[2]>>
Less(p, q) == p[1] * q[2] < q[1] * p[2]
Same(p, q) == p[1] * q[2] = q[1] * p[2]

ClosestRatio(size, limits) ==
  LET Better(r, old) ==
        \/ old = <<>>
        \/ Less(RatioDiff(size, r), RatioDiff(size, old))
        \/ /\ Same(RatioDiff(size, r), RatioDiff(size, old))
           /\ 2 * size[1] * size[2] > TileSize * TileSize * r[1] * r[2]
      ratios == InOrder(limits)
      best[k \in 0 .. Len(ratios)] ==
        IF k = 0 THEN <<>>
        ELSE IF Better(ratios[k], best[k - 1]) THEN ratios[k] ELSE best[k - 1]
  IN  best[Len(ratios)]

(* The boxes that are cropped from the resized image, <<left, top>> in      *)
(* tiles, and the thumbnail, unless there is one tile only.                *)
TilesOf(size, limits, thumbnail) ==
  LET ratio == ClosestRatio(size, limits)
      boxes == [i \in 1 .. ratio[1] * ratio[2] |-> <<(i - 1) % ratio[1], (i - 1) \div ratio[1]>>]
  IN  IF thumbnail /\ Len(boxes) # 1 THEN Append(boxes, Thumbnail) ELSE boxes

ImageTiles(size, dynamic) == TilesOf(size, MinMax(MinTiles, MaxTiles, dynamic), UseThumbnail)
FrameTiles(size, dynamic) == TilesOf(size, MinMax(1, 1, dynamic), FALSE)

(* pixel_shuffle, version 2: pairs of neighbours in a row, a transposition, *)
(* pairs again, and the transposition back.                                 *)
Pairs(rows) ==
  [a \in DOMAIN rows |-> [c \in 1 .. Len(rows[a]) \div 2 |-> rows[a][2 * c - 1] \o rows[a][2 * c]]]
Transposed(rows) == [c \in DOMAIN rows[1] |-> [a \in DOMAIN rows |-> rows[a][c]]]
Rows(s, width) == SplitEvery(s, width)
PixelShuffle(features) ==
  LET x == Rows([n \in DOMAIN features |-> <<features[n]>>], Side)
  IN  Cat(Transposed(Pairs(Transposed(Pairs(x)))))

(* extract_feature: without the class token. *)
ExtractFeature(tower) == [n \in DOMAIN tower |-> PixelShuffle(Tail(tower[n]))]

InternVL(tiles) ==
  LET features == ExtractFeature(InternTower(tiles))
      embeddings == Cat(features)
      feature_sizes == [b \in DOMAIN tiles |-> Len(tiles[b]) * Len(features[1])]
  IN  IF Len(tiles) = 1 THEN [data |-> <<embeddings>>, splits |-> TRUE]
      ELSE [data |-> Split(embeddings, feature_sizes), splits |-> Splits(embeddings, feature_sizes)]

-----------------------------------------------------------------------------
(* LLaVA-OneVision: the whole image comes first, then its tiles, which are  *)
(* put together to one grid, relieved of their padding and read row by row, *)
(* with a mark at the end of each.                                          *)
LlavaTiles(l) == <<Base>> \o (IF l.height * l.width = 1 THEN <<>> ELSE RowMajor(<<l.height, l.width>>))

TileByTile(others, l) == Rows(Cat(others), l.width * LlavaSide)
Together(others, l) ==
  [r \in 1 .. l.height * LlavaSide |->
     Cat([t \in 1 .. l.width |->
            Rows(others[((r - 1) \div LlavaSide) * l.width + t], LlavaSide)[((r - 1) % LlavaSide) + 1]])]

Unpadded(rows, l) ==
  [r \in 1 .. Len(rows) - 2 * l.top |->
     SubSeq(rows[r + l.top], 1 + l.left, Len(rows[r + l.top]) - l.left)]

Newline(rows) == Cat([r \in DOMAIN rows |-> Append(rows[r], Mark)])

MergePatches(parts, l) ==
  IF Len(parts) = 1 THEN Append(parts[1], Mark)
  ELSE parts[1] \o Newline(Unpadded(Together(Tail(parts), l), l))

LlavaImages(layouts) ==
  LET tiles == [b \in DOMAIN layouts |-> LlavaTiles(layouts[b])]
      num_tiles == [b \in DOMAIN tiles |-> Len(tiles[b])]
      tower == Tower(tiles, LlavaSide)
      parts == Split(tower, num_tiles)
  IN  [data |-> [b \in DOMAIN parts |-> MergePatches(parts[b], layouts[b])],
       splits |-> Splits(tower, num_tiles)]

(* apply_pooling: the rows and columns that the bilinear interpolation to   *)
(* `to` places takes the k-th from; the second has no weight if the first  *)
(* is met exactly. *)
Sources(k, from, to) ==
  LET twice == (2 * k + 1) * from - to  (* the place, in units of 1 / (2 to) *)
      low == IF twice < 0 THEN 0 ELSE twice \div (2 * to)
      high == IF low + 1 < from THEN low + 1 ELSE low
  IN  IF twice > 0 /\ twice % (2 * to) = 0 THEN {low} ELSE {low, high}

ApplyPooling(features) ==
  LET rows == Rows(features, LlavaSide)
      scaled == (LlavaSide + 1) \div 2
      at == RowMajor(<<scaled, scaled>>)
  IN  [n \in DOMAIN at |->
         { rows[r + 1][c + 1] : r \in Sources(at[n][1], LlavaSide, scaled),
                                c \in Sources(at[n][2], LlavaSide, scaled) }]

(* The pooled frames of a video one after the other, and one mark. *)
LlavaVideos(counts) ==
  LET tower == Tower(Videos(counts), LlavaSide)
      features == [n \in DOMAIN tower |-> ApplyPooling(tower[n])]
      parts == Flat(Split(features, counts))
  IN  [data |-> [b \in DOMAIN parts |-> Append(parts[b], {Mark})], splits |-> Splits(features, counts)]

-----------------------------------------------------------------------------
(* Gemma 3: the image and its crops, each pooled on its own. *)
AvgPool2d(features) ==
  LET rows == Rows(features, Side)
      kernel == Side \div TokensPerSide
      at == RowMajor(<<TokensPerSide, TokensPerSide>>)
  IN  [n \in DOMAIN at |->
         { rows[r][c] : r \in at[n][1] * kernel + 1 .. (at[n][1] + 1) * kernel,
                        c \in at[n][2] * kernel + 1 .. (at[n][2] + 1) * kernel }]

Gemma3(crops) ==
  LET num_patches == [b \in DOMAIN crops |-> crops[b] + 1]
      tower == Tower(Videos(num_patches), Side)
      embeds == [n \in DOMAIN tower |-> AvgPool2d(tower[n])]
  IN  [data |-> Flat(Split(embeds, num_patches)), splits |-> Splits(embeds, num_patches)]

-----------------------------------------------------------------------------
(* What should come out.                                                   *)

(* No ratio is nearer to that of the image than the chosen one, the tiles   *)
(* of which cover the image once, row by row. *)
GoodTiles(size, dynamic) ==
  LET boxes == SelectSeq(ImageTiles(size, dynamic), LAMBDA t : t # Thumbnail)
      ratios == TargetRatios(MinMax(MinTiles, MaxTiles, dynamic))
  IN  \E r \in ratios :
        /\ \A s \in ratios : ~Less(RatioDiff(size, s), RatioDiff(size, r))
        /\ IsInjective(boxes) /\ ToSet(boxes) = (0 .. r[1] - 1) \X (0 .. r[2] - 1)
        /\ \A m, n \in DOMAIN boxes :
             m < n => \/ boxes[m][2] < boxes[n][2]
                      \/ boxes[m][2] = boxes[n][2] /\ boxes[m][1] < boxes[n][1]

(* The features of a tile in squares of two by two, row by row. *)
Shuffled(b, tile) ==
  LET half == Side \div 2
  IN  [n \in 1 .. half * half |->
         LET r == 2 * ((n - 1) \div half)
             c == 2 * ((n - 1) % half)
         IN  <<Cell(b, tile, r, c), Cell(b, tile, r, c + 1),
               Cell(b, tile, r + 1, c), Cell(b, tile, r + 1, c + 1)>>]
ShuffledAll(b, tiles) == Cat([n \in DOMAIN tiles |-> Shuffled(b, tiles[n])])

(* The features of a whole image, row by row over the tiles. *)
Scanned(b, l) ==
  LET rows == l.height * LlavaSide - 2 * l.top
      cols == l.width * LlavaSide - 2 * l.left
      Global(r, c) ==
        Cell(b, <<r \div LlavaSide, c \div LlavaSide>>, r % LlavaSide, c % LlavaSide)
  IN  [n \in 1 .. rows * (cols + 1) |->
         LET r == (n - 1) \div (cols + 1)
             c == (n - 1) % (cols + 1)
         IN  IF c = cols THEN Mark ELSE Global(r + l.top, c + l.left)]

(* A tile's features in `to` by `to` pools: each has those whose distance   *)
(* from its middle is less than `reach` / (2 to). *)
Pooled(b, tile, side, to, reach) ==
  LET Near(k, x) == LET d == 2 * to * x + to - (2 * k + 1) * side IN -reach < d /\ d < reach
  IN  [n \in 1 .. to * to |->
         { Cell(b, tile, r, c) : r \in { r \in 0 .. side - 1 : Near((n - 1) \div to, r) },
                                 c \in { c \in 0 .. side - 1 : Near((n - 1) % to, c) } }]
PooledAll(b, n, side, to, reach) == Cat([f \in 1 .. n |-> Pooled(b, <<f>>, side, to, reach)])

(* Every image or video gets the features of its own tiles and frames, all  *)
(* of them and in the order in which the language model reads them,         *)
(* whatever it is batched with.                                             *)
EachTiledImageItsOwn(sizes) ==
  \A dynamic \in BOOLEAN :
    LET tiles == [b \in DOMAIN sizes |-> ImageTiles(sizes[b], dynamic)]
        out == InternVL(tiles)
    IN  /\ out.splits
        /\ \A b \in DOMAIN sizes :
             /\ GoodTiles(sizes[b], dynamic)
             /\ Len(FrameTiles(sizes[b], dynamic)) = 1
             /\ out.data[b] = ShuffledAll(b, tiles[b])

EachLayoutItsOwn(layouts) ==
  LET out == LlavaImages(layouts)
  IN  /\ out.splits
      /\ \A b \in DOMAIN layouts :
           LET l == layouts[b]
           IN  out.data[b] = Features(b, Base, LlavaSide)
                 \o (IF l.height * l.width = 1 THEN <<Mark>> ELSE Scanned(b, l))

EachVideoItsOwn(counts) ==
  LET scaled == (LlavaSide + 1) \div 2
      intern == InternVL(Videos(counts))
      llava == LlavaVideos(counts)
      gemma == Gemma3(counts)
  IN  /\ intern.splits /\ llava.splits /\ gemma.splits
      /\ \A b \in DOMAIN counts :
           /\ intern.data[b] = ShuffledAll(b, FramesOf(counts[b]))
           /\ llava.data[b] = Append(PooledAll(b, counts[b], LlavaSide, scaled, 2 * scaled), {Mark})
           /\ gemma.data[b] = PooledAll(b, counts[b] + 1, Side, TokensPerSide, Side)
=============================================================================
