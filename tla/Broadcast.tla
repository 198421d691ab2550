------------------------------ MODULE Broadcast -----------------------------
(***************************************************************************)
(* What MessageQueue promises the executor and the workers of an Eric      *)
(* engine: every reader dequeues every object the writer enqueued, once    *)
(* and in order, whatever the sizes of the objects and the speeds of the   *)
(* readers.                                                                *)
(***************************************************************************)
EXTENDS Naturals, Sequences

CONSTANTS Readers, Messages

VARIABLES
  log,      (* what was enqueued                                           *)
  obtained  (* [Readers -> what the reader has dequeued]                   *)

Init == log = <<>> /\ obtained = [r \in Readers |-> <<>>]

Enqueue(m) == log' = Append(log, m) /\ UNCHANGED obtained

Dequeue(r) ==
  /\ Len(obtained[r]) < Len(log)
  /\ obtained' = [obtained EXCEPT ![r] = Append(@, log[Len(@) + 1])]
  /\ UNCHANGED log

Next == (\E m \in Messages : Enqueue(m)) \/ (\E r \in Readers : Dequeue(r))

Spec == Init /\ [][Next]_<<log, obtained>>

=============================================================================
