----------------------------- MODULE ChunkStore -----------------------------
(***************************************************************************)
(* What a Sidecar receiver promises its clients (docs/architecture/        *)
(* sidecar.md, "recv" and "mark_done"), with no memory, shard, event or    *)
(* ledger: a chunk is published once, whole; every reader may then take    *)
(* it, in any order; it is released when all of them have it, in order     *)
(* within its request; the end of a request is told once it is known.      *)
(***************************************************************************)
EXTENDS Integers

CONSTANTS
  Keys,       (* chunks, pairs of a request and an index                   *)
  Ids,        (* requests                                                  *)
  Streamed,   (* the requests whose length is known only when they close   *)
  Readers

VARIABLES
  published,  (* chunks that have arrived                                  *)
  ended,      (* requests of known length                                  *)
  taken,      (* [Readers -> chunks the reader has been given]             *)
  told,       (* requests whose end a reader has been told                 *)
  released    (* chunks given back                                         *)

storeVars == <<published, ended, taken, told, released>>

Init ==
  /\ published = {}
  /\ ended = Ids \ Streamed
  /\ taken = [r \in Readers |-> {}]
  /\ told = {}
  /\ released = {}

Publish(k) ==
  /\ k \notin published
  /\ published' = published \cup {k}
  /\ UNCHANGED <<ended, taken, told, released>>

End(id) ==
  /\ ended' = ended \cup {id}
  /\ UNCHANGED <<published, taken, told, released>>

Take(r, k) ==
  /\ k \in published \ released
  /\ taken' = [taken EXCEPT ![r] = @ \cup {k}]
  /\ UNCHANGED <<published, ended, told, released>>

Tell(id) ==
  /\ id \in ended
  /\ told' = told \cup {id}
  /\ UNCHANGED <<published, ended, taken, released>>

Release(k) ==
  /\ \A r \in Readers : k \in taken[r]
  /\ \A l \in Keys : l[1] = k[1] /\ l[2] < k[2] => l \in released
  /\ released' = released \cup {k}
  /\ UNCHANGED <<published, ended, taken, told>>

Next ==
  \/ \E k \in Keys : Publish(k) \/ Release(k)
  \/ \E r \in Readers, k \in Keys : Take(r, k)
  \/ \E id \in Ids : End(id) \/ Tell(id)

Spec == Init /\ [][Next]_storeVars

=============================================================================
