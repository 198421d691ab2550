----------------------------- MODULE MCReceiver -----------------------------
(***************************************************************************)
(* Instances of SidecarReceiver for TLC.  A plan says what the producers   *)
(* send: for each request the kinds of its chunks and the slots they need. *)
(* The .cfg files choose a plan and the rest of the constants.             *)
(***************************************************************************)
EXTENDS SidecarReceiver, Sequences, TLC

(* One stream of an object and two tensors, as test_sidecar.py sends it.   *)
StreamPlan == "a" :> << <<"object", 1>>, <<"inter", 1>>, <<"intra", 1>> >>

(* Two requests that compete for two slots, and one whose tensor is larger *)
(* than the slab.                                                          *)
PressurePlan ==
  "a" :> << <<"inter", 1>>, <<"inter", 1>> >> @@ "b" :> << <<"inter", 2>> >>
  @@ "c" :> << <<"inter", 3>> >>

PlanChunks(plan) == [id \in DOMAIN plan |-> Len(plan[id])]
PlanKeys(plan) == UNION { {id} \X (0 .. Len(plan[id]) - 1) : id \in DOMAIN plan }
PlanKind(plan) == [k \in PlanKeys(plan) |-> plan[k[1]][k[2] + 1][1]]
PlanSize(plan) == [k \in PlanKeys(plan) |-> plan[k[1]][k[2] + 1][2]]

StreamIds == DOMAIN StreamPlan
StreamChunks == PlanChunks(StreamPlan)
StreamKind == PlanKind(StreamPlan)
StreamSize == PlanSize(StreamPlan)

PressureIds == DOMAIN PressurePlan
PressureChunks == PlanChunks(PressurePlan)
PressureKind == PlanKind(PressurePlan)
PressureSize == PlanSize(PressurePlan)

=============================================================================
