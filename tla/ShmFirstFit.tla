---------------------------- MODULE ShmFirstFit -----------------------------
(***************************************************************************)
(* The loop of SharedMemoryManager.allocate, one iteration per step, and   *)
(* the reference it is checked against: the first fit of ShmManager.       *)
(* One call is followed from its initial state, for every occupancy and    *)
(* every size that passes the checks at the head of the method.            *)
(***************************************************************************)
EXTENDS ShmManager

(* Beside the occupancy, which is the manager's: *)
VARIABLES
  slots_needed, (* size \div slot_size                                     *)
  i,            (* the index of the loop                                   *)
  cur_free,     (* the length of the run of free slots that ends before i  *)
  result        (* Pending, the slots of the buffer returned, or NoBuffer  *)

loopVars == <<occupancy, slots_needed, i, cur_free, result>>

Pending  == <<"pending">>
NoBuffer == <<"none">>
Buffer(S) == <<"buffer", S>>

LoopInit ==
  /\ occupancy \in SUBSET Slots
  /\ slots_needed \in 1 .. NumSlots
  /\ i = 0
  /\ cur_free = 0
  /\ result = Pending

(* The run goes on over a taken slot. *)
SkipUsedKeepRun ==
  /\ result = Pending /\ i < NumSlots
  /\ i \in occupancy
  /\ i' = i + 1
  /\ UNCHANGED <<occupancy, slots_needed, cur_free, result>>

(* The slot is taken: the run starts again after it. *)
SkipUsed ==
  /\ result = Pending /\ i < NumSlots
  /\ i \in occupancy
  /\ cur_free' = 0
  /\ i' = i + 1
  /\ UNCHANGED <<occupancy, slots_needed, result>>

RunCompleteLate == cur_free = slots_needed

(* Does the free slot i complete a run of the length needed? *)
RunComplete == cur_free + 1 = slots_needed

(* The slot is free but the run is still too short. *)
ExtendRun ==
  /\ result = Pending /\ i < NumSlots
  /\ i \notin occupancy
  /\ ~RunComplete
  /\ cur_free' = cur_free + 1
  /\ i' = i + 1
  /\ UNCHANGED <<occupancy, slots_needed, result>>

(* The run is long enough: its slots are marked used and returned. *)
TakeRun ==
  /\ result = Pending /\ i < NumSlots
  /\ i \notin occupancy
  /\ RunComplete
  /\ cur_free' = cur_free + 1
  /\ LET taken == (i - slots_needed + 1) .. i
     IN  /\ occupancy' = occupancy \cup taken
         /\ result' = Buffer(taken)
  /\ UNCHANGED <<slots_needed, i>>

GiveUp ==
  /\ result = Pending /\ i = NumSlots
  /\ result' = NoBuffer
  /\ UNCHANGED <<occupancy, slots_needed, i, cur_free>>

LoopNext == SkipUsed \/ ExtendRun \/ TakeRun \/ GiveUp

LoopSpec == LoopInit /\ [][LoopNext]_loopVars

-----------------------------------------------------------------------------
LoopTypeOK ==
  /\ occupancy \subseteq Slots
  /\ slots_needed \in 1 .. NumSlots
  /\ i \in 0 .. NumSlots
  /\ cur_free \in 0 .. slots_needed
  /\ result \in {Pending, NoBuffer} \cup {Buffer(S) : S \in SUBSET Slots}

(* The loop invariant: the last cur_free slots are free, the one before     *)
(* them is not, and no place that ends before i was passed over.            *)
RunInv ==
  result = Pending =>
    /\ cur_free < slots_needed
    /\ cur_free <= i
    /\ (i - cur_free) .. (i - 1) \cap occupancy = {}
    /\ cur_free < i => (i - cur_free - 1) \in occupancy
    /\ \A j \in Fits(occupancy, slots_needed) : j + slots_needed > i

(* The buffer returned lies at the lowest place where it fits, every slot   *)
(* of it was free before, and no other slot changed: TakeRun does what      *)
(* allocate promises (shm_manager.py:127-154).                              *)
TakesFirstFit ==
  [][ \A S \in SUBSET Slots : result' = Buffer(S) =>
        /\ Fits(occupancy, slots_needed) # {}
        /\ S = Allocate(occupancy, slots_needed)
        /\ occupancy' = occupancy \cup S ]_loopVars

(* None is returned only when the buffer fits nowhere, however fragmented   *)
(* the free slots are: a caller that waits for memory really has to wait.   *)
NoneOnlyIfNoFit ==
  result = NoBuffer => Fits(occupancy, slots_needed) = {}

=============================================================================
