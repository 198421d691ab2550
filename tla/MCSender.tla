------------------------------ MODULE MCSender ------------------------------
(***************************************************************************)
(* Instances of SidecarSender for TLC.  A plan gives for each chunk its    *)
(* slots, its destinations on this node and those on other nodes.          *)
(***************************************************************************)
EXTENDS SidecarSender, TLC

CONSTANTS r1, r2     (* ranks of this node *)
CONSTANTS x1, x2     (* ranks of other nodes *)

PlanSize(plan)  == [k \in DOMAIN plan |-> plan[k][1]]
PlanIntra(plan) == [k \in DOMAIN plan |-> plan[k][2]]
PlanInter(plan) == [k \in DOMAIN plan |-> plan[k][3]]

(* One chunk for a receiver on this node and one on another, and a chunk    *)
(* that needs the same memory.                                              *)
MixedPlan == "a" :> <<1, {r1}, {x1}>> @@ "b" :> <<1, {r2}, {}>>

(* A chunk that does not fit at all beside one that does.                   *)
OversizePlan == "a" :> <<3, {r1}, {}>> @@ "b" :> <<1, {}, {x1, x2}>> @@ "c" :> <<2, {r1, r2}, {}>>

MixedChunks == DOMAIN MixedPlan
MixedSize == PlanSize(MixedPlan)
MixedIntra == PlanIntra(MixedPlan)
MixedInter == PlanInter(MixedPlan)

OversizeChunks == DOMAIN OversizePlan
OversizeSize == PlanSize(OversizePlan)
OversizeIntra == PlanIntra(OversizePlan)
OversizeInter == PlanInter(OversizePlan)

=============================================================================
