-------------------------- MODULE MCTaskDispatcher --------------------------
(***************************************************************************)
(* An instance of TaskDispatcher, and of the graphs that it dispatches     *)
(* (TaskGraph), for TLC.  The two share no state: one of them moves, in a  *)
(* behaviour, so that the states are their sum and not their product.      *)
(***************************************************************************)
EXTENDS TaskDispatcher, TaskGraph

ImageThenAudio == <<"image", "audio">>
OneNode == [g \in GPUs |-> 0]

FirstPlan == [contents |-> <<>>, coalesce |-> FALSE, fission |-> FALSE, shape |-> "mllm"]

MCInit == Init /\ PlanInit
MCNext ==
  \/ plan = FirstPlan /\ Next /\ UNCHANGED plan
  \/ Init /\ PlanNext /\ UNCHANGED vars
MCSpec == MCInit /\ [][MCNext]_<<vars, plan>> /\ Fairness
=============================================================================
