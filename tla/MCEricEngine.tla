----------------------------- MODULE MCEricEngine -----------------------------
(***************************************************************************)
(* An instance of EricEngine for TLC: the data of three requests with two  *)
(* adapters, so that a batch spans requests and a request batches, and a   *)
(* request without data.  And one of what the workers compute with a batch *)
(* (EncoderBatch).  The two share no state: one of them moves, in a        *)
(* behaviour, so that the states are their sum and not their product.      *)
(***************************************************************************)
EXTENDS EricEngine, EncoderBatch, TLC

MixedData == "a" :> <<"m", "n">> @@ "b" :> <<"n", "n", "m">> @@ "c" :> <<"m">> @@ "e" :> <<>>

(* An image, a video, and an image that fills whole windows; tiles with and *)
(* without padding, and an image of a single tile.                          *)
ThreeGrids == {<<1, 6, 4>>, <<2, 4, 6>>, <<1, 8, 8>>}
FourSizes == {<<4, 4>>, <<9, 6>>, <<3, 10>>, <<20, 3>>}
Layout(height, width, top, left) == [height |-> height, width |-> width, top |-> top, left |-> left]
ThreeLayouts == {Layout(1, 1, 0, 0), Layout(2, 3, 1, 0), Layout(2, 1, 0, 1)}

Still == family = "frames" /\ degree = 1 /\ input = <<>>

MCInit == Init /\ InputInit
MCNext ==
  \/ Still /\ Next /\ UNCHANGED inputVars
  \/ Init /\ InputNext /\ UNCHANGED vars
MCSpec == MCInit /\ [][MCNext]_<<vars, inputVars>> /\ Fairness
=============================================================================
