------------------------------ MODULE MCRegistry ------------------------------
(***************************************************************************)
(* An instance of Registry for TLC, as `cornserve tasklib deploy` does it: *)
(* a unit task and its descriptor in one request, and then the composite   *)
(* task that imports it.                                                   *)
(***************************************************************************)
EXTENDS Registry, TLC

ImportsOf == "unit" :> {} @@ "composite" :> {"unit"}
DescriptorOf == "descriptor" :> "unit"
TwoRequests == << {"unit", "descriptor"}, {"composite"} >>

(* Task managers start before clients start over, and before any fault.     *)
ManagersFirst ==
  \A s \in Managers :
    /\ state[s] = "down" /\ state'[s] # "down" => bounds.rounds = 0
    /\ state'[s] # "down" => bounds'.faults = 0

MCSpec == Init /\ [][Next /\ ManagersFirst]_vars /\ WF_vars(ControlPlane)
=============================================================================
