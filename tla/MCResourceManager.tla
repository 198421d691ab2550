------------------------- MODULE MCResourceManager --------------------------
(***************************************************************************)
(* Instances of ResourceManager for TLC.                                   *)
(***************************************************************************)
EXTENDS ResourceManager, TLC

CONSTANT MaxCalls   (* bound: the calls that the gateway makes *)

(* Two nodes of two GPUs each. *)
TwoNodes == [g \in 0 .. 3 |-> IF g < 2 THEN 0 ELSE 1]

(* Task A is deployed, torn down and deployed again, and scaled meanwhile;  *)
(* task B competes for the GPUs: beside it, the scale-up finds two GPUs of  *)
(* the three it asks for, and raises after it has taken them.               *)
PairTasks ==
  "a1" :> "A" @@ "a2" :> "A" @@ "b1" :> "B" @@ "up" :> "A" @@ "down" :> "A"
PairAmounts == "up" :> 3 @@ "down" :> -1
PairSizes == "A" :> {1, 2} @@ "B" :> {1}

(* MaxCalls of the calls are made, Teardowns counted; a1 and a2 are         *)
(* interchangeable, and a1 comes first; B competes with a1 or a2 does.      *)
Made == { d \in Ids : dep[d] # "idle" } \cup { s \in Scales : sc[s] # "idle" }
Ended == { d \in Ids : td[d] # "no" }
BoundedCalls ==
  /\ GatewayCalls
  /\ Cardinality(Made') + Cardinality(Ended') <= MaxCalls
  /\ "a2" \in Made' => "a1" \in Made'
  /\ ~({"a2", "b1"} \subseteq Made')

MCNext == BoundedCalls \/ Progress \/ Stop
MCSpec == Init /\ [][MCNext]_vars /\ WF_vars(Progress)

=============================================================================
