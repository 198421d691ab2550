----------------------------- MODULE MCGeriEngine -----------------------------
(***************************************************************************)
(* An instance of GeriEngine for TLC: three requests of different lengths  *)
(* that may share a batch, and one with other parameters.                  *)
(***************************************************************************)
EXTENDS GeriEngine, TLC

Lengths == "a" :> 1 @@ "b" :> 3 @@ "c" :> 2
TwoParams ==
  [r \in Requests |-> [chunk_size |-> IF r = "c" THEN 1 ELSE 2, left_context_size |-> 1]]
=============================================================================
