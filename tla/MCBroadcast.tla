----------------------------- MODULE MCBroadcast ----------------------------
(***************************************************************************)
(* An instance of ShmBroadcast for TLC: chunks of 4 bytes, of which one is *)
(* the flag, and objects of the lengths around that bound; more of them    *)
(* than chunks, so that the indices wrap twice.  And the loop of           *)
(* SharedMemoryManager.allocate (ShmFirstFit).  The two share no state:    *)
(* one of them moves, in a behaviour, so that the states are their sum and *)
(* not their product.                                                      *)
(***************************************************************************)
EXTENDS ShmBroadcast, ShmFirstFit

AroundTheBound == <<2, 4, 3, 5, 2>>

(* One of the initial states of the loop, beside which the ring moves. *)
LoopRests == occupancy = {} /\ slots_needed = 1 /\ i = 0 /\ result = Pending

MCInit == RingInit /\ LoopInit
MCNext ==
  \/ LoopRests /\ RingNext /\ UNCHANGED loopVars
  \/ RingInit /\ LoopNext /\ UNCHANGED ringVars
  \/ RingInit /\ result # Pending /\ UNCHANGED <<ringVars, loopVars>>
MCSpec == MCInit /\ [][MCNext]_<<ringVars, loopVars>> /\ RingFairness

=============================================================================
