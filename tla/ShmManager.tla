----------------------------- MODULE ShmManager -----------------------------
(***************************************************************************)
(* The slot allocator of a Sidecar server's slab of shared memory          *)
(* (services/sidecar/shm_manager.py): what SharedMemoryManager.allocate    *)
(* and free do to the list `occupancy`, kept here as the set of the slots  *)
(* whose entry is 1.  SidecarReceiver and SidecarSender each own one, and  *)
(* their handlers change it.                                               *)
(* ShmFirstFit has the scan of allocate step by step and shows that it     *)
(* computes the operators of this module.                                  *)
(***************************************************************************)
EXTENDS Integers

CONSTANT NumSlots     (* shm_size \div slot_size *)
VARIABLE occupancy    (* the slots whose entry is 1 *)

ASSUME NumSlotsAssumption == NumSlots \in Nat

Slots == 0 .. NumSlots - 1

(* The slots of a buffer of n slots that starts at slot i. *)
Window(i, n) == i .. i + n - 1

(* With a check of the first slot only. *)
FitsFirstSlot(occ, n) == { i \in Slots : i + n <= NumSlots /\ i \notin occ }

(* Where a buffer of n slots can start when the slots of occ are in use. *)
Fits(occ, n) ==
  { i \in Slots : i + n <= NumSlots /\ Window(i, n) \cap occ = {} }

(* allocate raises ValueError for a size beyond the slab. *)
Oversize(n) == n > NumSlots

(* allocate takes the lowest of those places. *)
FirstFit(occ, n) ==
  CHOOSE i \in Fits(occ, n) : \A j \in Fits(occ, n) : i <= j

Allocate(occ, n) == Window(FirstFit(occ, n), n)

=============================================================================
