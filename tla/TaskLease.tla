------------------------------ MODULE TaskLease -----------------------------
(***************************************************************************)
(* What the gateway promises the users of tasks: a user gets all its tasks *)
(* or none, in one step, and a task is up exactly while somebody has it.   *)
(***************************************************************************)
EXTENDS Sequences

CONSTANTS Tasks, Users, Uses

VARIABLES
  holders,  (* the users that have their tasks                             *)
  up        (* the tasks that are up                                       *)

Wanted(u) == { Uses[u][k] : k \in DOMAIN Uses[u] }

Init == holders = {} /\ up = {}

Acquire(u) ==
  /\ u \notin holders
  /\ holders' = holders \cup {u}
  /\ up' = up \cup Wanted(u)

Release(u) ==
  /\ u \in holders
  /\ holders' = holders \ {u}
  /\ up' = { t \in up : \E v \in holders' : t \in Wanted(v) }

Next == \E u \in Users : Acquire(u) \/ Release(u)

Spec == Init /\ [][Next]_<<holders, up>>

=============================================================================
