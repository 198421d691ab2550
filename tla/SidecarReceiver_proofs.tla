----------------------- MODULE SidecarReceiver_proofs -----------------------
(***************************************************************************)
(* What the receiver of a Sidecar server guarantees for every plan of      *)
(* requests, every slab and every group of readers; and that the loop of   *)
(* SharedMemoryManager.allocate computes the first fit.                    *)
(***************************************************************************)
EXTENDS SidecarReceiver, ShmFirstFit, FiniteSetTheorems, WellFoundedInduction, TLAPS

USE NumSlotsAssumption

-----------------------------------------------------------------------------
(* The slab.                                                                *)

(* FirstFit is the place that no other place precedes. *)
LEMMA FirstFitIs ==
  ASSUME NEW occ, NEW n, NEW j \in Fits(occ, n), \A l \in Fits(occ, n) : j <= l
  PROVE  FirstFit(occ, n) = j
<1>1. \A l \in Fits(occ, n) : l \in Int
  BY DEF Fits, Slots
<1>2. \A l \in Fits(occ, n) : (\A m \in Fits(occ, n) : l <= m) => l = j
  BY <1>1
<1> QED  BY <1>2 DEF FirstFit

(* Of the places where a buffer fits there is a first, which is FirstFit.   *)
LEMMA FirstFitFits ==
  ASSUME NEW occ, NEW n, Fits(occ, n) # {}
  PROVE  FirstFit(occ, n) \in Fits(occ, n)
<1> DEFINE F == Fits(occ, n)
           R == { ss \in Nat \X Nat : ss[1] < ss[2] }
<1>1. F \subseteq Nat
  BY DEF Fits, Slots
<1>2. IsWellFoundedOn(R, Nat)
  BY NatLessThanWellFounded DEF OpToRel
<1>3. \A a, b \in Nat : a < b => <<a, b>> \in R
  OBVIOUS
<1> HIDE DEF F, R
<1>4. PICK j \in F : \A l \in F : ~(<<l, j>> \in R)
  BY <1>1, <1>2, WFMin DEF F
<1>5. ASSUME NEW l \in F PROVE j <= l
  <2>1. j \in Nat /\ l \in Nat
    BY <1>1
  <2>2. ~(l < j)
    BY <1>3, <1>4, <2>1
  <2> QED  BY <2>1, <2>2
<1> QED  BY <1>4, <1>5 DEF FirstFit, F

(* When a buffer fits somewhere, the slots allocated for it are slots of    *)
(* the slab that were free (shm_manager.py:140-151).                        *)
THEOREM AllocateIsFree ==
  ASSUME NEW occ, NEW n \in Nat \ {0}, Fits(occ, n) # {}
  PROVE  /\ Allocate(occ, n) \subseteq Slots
         /\ Allocate(occ, n) \cap occ = {}
         /\ Allocate(occ, n) # {}
<1> DEFINE j == FirstFit(occ, n)
<1>1. j \in Fits(occ, n)
  BY FirstFitFits
<1> HIDE DEF j
<1>2. Window(j, n) \cap occ = {} /\ j \in Nat /\ j + n <= NumSlots
  BY <1>1 DEF Fits, Slots
<1>3. Window(j, n) \subseteq Slots /\ j \in Window(j, n)
  BY <1>2 DEF Window, Slots
<1> QED  BY <1>2, <1>3 DEF Allocate, j

-----------------------------------------------------------------------------
(* The loop of allocate.                                                    *)

(* The result tells how far the call is. *)
LEMMA Results ==
  /\ Pending # NoBuffer
  /\ \A S : Buffer(S) # Pending /\ Buffer(S) # NoBuffer
BY DEF Pending, NoBuffer, Buffer

(* The types follow only with the loop invariant: it bounds the run. *)
LoopInv == LoopTypeOK /\ RunInv /\ NoneOnlyIfNoFit

LEMMA LoopInitInv == LoopInit => LoopInv
<1> SUFFICES ASSUME LoopInit PROVE LoopInv
  OBVIOUS
<1>1. LoopTypeOK
  BY DEF LoopInit, LoopTypeOK
<1>2. RunInv
  BY DEF LoopInit, RunInv, Fits, Slots
<1>3. NoneOnlyIfNoFit
  BY Results DEF LoopInit, NoneOnlyIfNoFit
<1> QED  BY <1>1, <1>2, <1>3 DEF LoopInv

(* While the run ends at a taken slot, no place that covers it is free. *)
LEMMA SkipUsedInv == LoopInv /\ SkipUsed => LoopInv'
<1> SUFFICES ASSUME LoopInv, SkipUsed PROVE LoopInv'
  OBVIOUS
<1> USE DEF LoopInv, LoopTypeOK, SkipUsed
<1>1. LoopTypeOK'
  OBVIOUS
<1>2. \A j \in Fits(occupancy, slots_needed) : j + slots_needed > i + 1
  <2> TAKE j \in Fits(occupancy, slots_needed)
  <2>1. j \in Int /\ j + slots_needed > i /\ i \notin Window(j, slots_needed)
    BY DEF RunInv, Fits, Slots
  <2>2. j + slots_needed - 1 # i
    BY <2>1 DEF Window
  <2> QED  BY <2>1, <2>2
<1>3. RunInv'
  BY <1>2 DEF RunInv, Fits
<1>4. NoneOnlyIfNoFit'
  BY Results DEF NoneOnlyIfNoFit
<1> QED  BY <1>1, <1>3, <1>4

LEMMA ExtendRunInv == LoopInv /\ ExtendRun => LoopInv'
<1> SUFFICES ASSUME LoopInv, ExtendRun PROVE LoopInv'
  OBVIOUS
<1> USE DEF LoopInv, LoopTypeOK, ExtendRun, RunComplete
<1>1. cur_free < slots_needed /\ cur_free <= i
  BY DEF RunInv
<1>2. LoopTypeOK'
  BY <1>1
<1>3. cur_free < i => (i - cur_free - 1) \in occupancy
  BY DEF RunInv
<1>4. \A j \in Fits(occupancy, slots_needed) : j + slots_needed > i + 1
  <2> TAKE j \in Fits(occupancy, slots_needed)
  <2>1. /\ j \in Int /\ j >= 0 /\ j + slots_needed > i
        /\ Window(j, slots_needed) \cap occupancy = {}
    BY DEF RunInv, Fits, Slots
  <2>2. ASSUME j + slots_needed = i + 1 PROVE FALSE
    (* such a place would begin before the run does *)
    <3>1. j <= i - cur_free - 1
      BY <1>1, <2>1, <2>2
    <3>2. (i - cur_free - 1) \in Window(j, slots_needed)
      BY <1>1, <2>1, <2>2, <3>1 DEF Window
    <3>3. cur_free < i
      BY <1>1, <2>1, <3>1
    <3> QED  BY <1>3, <2>1, <3>2, <3>3
  <2> QED  BY <2>1, <2>2
<1>5. (i - cur_free) .. i \cap occupancy = {}
  BY <1>1 DEF RunInv
<1>6. RunInv'
  BY <1>1, <1>3, <1>4, <1>5 DEF RunInv, Fits
<1>7. NoneOnlyIfNoFit'
  BY Results DEF NoneOnlyIfNoFit
<1> QED  BY <1>2, <1>6, <1>7

(* A complete run lies at the lowest place. *)
LEMMA TakeRunIsFirstFit ==
  ASSUME LoopInv, TakeRun
  PROVE  /\ i - slots_needed + 1 \in Fits(occupancy, slots_needed)
         /\ FirstFit(occupancy, slots_needed) = i - slots_needed + 1
         /\ (i - slots_needed + 1) .. i = Allocate(occupancy, slots_needed)
<1> USE DEF LoopInv, LoopTypeOK, TakeRun, RunComplete
<1> DEFINE j == i - slots_needed + 1
<1>1. cur_free <= i /\ (i - cur_free) .. (i - 1) \cap occupancy = {}
  BY DEF RunInv
<1>2. j \in Int /\ j >= 0 /\ j + slots_needed <= NumSlots /\ j \in Slots
  BY <1>1 DEF Slots
<1>3. Window(j, slots_needed) \cap occupancy = {}
  BY <1>1, <1>2 DEF Window
<1>4. j \in Fits(occupancy, slots_needed)
  BY <1>2, <1>3 DEF Fits
<1>5. \A l \in Fits(occupancy, slots_needed) : j <= l
  BY DEF RunInv, Fits, Slots
<1>6. FirstFit(occupancy, slots_needed) = j
  BY <1>4, <1>5, FirstFitIs
<1>7. j .. i = Window(j, slots_needed)
  BY <1>2 DEF Window
<1> QED  BY <1>4, <1>6, <1>7 DEF Allocate

LEMMA TakeRunInv == LoopInv /\ TakeRun => LoopInv'
<1> SUFFICES ASSUME LoopInv, TakeRun PROVE LoopInv'
  OBVIOUS
<1>1. i - slots_needed + 1 \in Slots
  BY TakeRunIsFirstFit DEF Fits
<1> DEFINE taken == (i - slots_needed + 1) .. i
<1>2. taken \subseteq Slots /\ result' = Buffer(taken) /\ occupancy' = occupancy \cup taken
  BY <1>1 DEF LoopInv, LoopTypeOK, TakeRun, RunComplete, Slots
<1>3. LoopTypeOK'
  <2>1. cur_free' \in 0 .. slots_needed
    BY DEF LoopInv, LoopTypeOK, TakeRun, RunComplete
  <2>2. result' \in {Buffer(S) : S \in SUBSET Slots}
    BY <1>2
  <2> HIDE DEF taken
  <2> QED  BY <1>2, <2>1, <2>2 DEF LoopInv, LoopTypeOK, TakeRun
<1>4. RunInv' /\ NoneOnlyIfNoFit'
  BY <1>2, Results DEF RunInv, NoneOnlyIfNoFit
<1> QED  BY <1>3, <1>4 DEF LoopInv

LEMMA GiveUpInv == LoopInv /\ GiveUp => LoopInv'
<1> SUFFICES ASSUME LoopInv, GiveUp PROVE LoopInv'
  OBVIOUS
<1> USE DEF LoopInv, LoopTypeOK, GiveUp
<1>1. Fits(occupancy, slots_needed) = {}
  BY DEF RunInv, Fits, Slots
<1>2. LoopTypeOK'
  OBVIOUS
<1>3. NoneOnlyIfNoFit'
  BY <1>1 DEF NoneOnlyIfNoFit, Fits
<1>4. RunInv'
  BY Results DEF RunInv
<1> QED  BY <1>2, <1>3, <1>4

LEMMA LoopNextInv == LoopInv /\ [LoopNext]_loopVars => LoopInv'
<1> SUFFICES ASSUME LoopInv, [LoopNext]_loopVars PROVE LoopInv'
  OBVIOUS
<1>1. CASE UNCHANGED loopVars
  BY <1>1 DEF loopVars, LoopInv, LoopTypeOK, RunInv, NoneOnlyIfNoFit, Fits
<1> QED  BY <1>1, SkipUsedInv, ExtendRunInv, TakeRunInv, GiveUpInv DEF LoopNext

(* The variables keep their types, and the loop invariant of allocate holds *)
(* before every iteration (shm_manager.py:140-153).                         *)
THEOREM LoopInvariant == LoopSpec => [](LoopTypeOK /\ RunInv)
<1>1. LoopInv => LoopTypeOK /\ RunInv
  BY DEF LoopInv
<1> QED  BY <1>1, LoopInitInv, LoopNextInv, PTL DEF LoopSpec

(* allocate returns None only when no run of free slots is long enough      *)
(* (shm_manager.py:154).                                                    *)
THEOREM NoneIsHonest == LoopSpec => []NoneOnlyIfNoFit
<1>1. LoopInv => NoneOnlyIfNoFit
  BY DEF LoopInv
<1> QED  BY <1>1, LoopInitInv, LoopNextInv, PTL DEF LoopSpec

(* The step that returns a buffer returns the first fit, and marks its      *)
(* slots and no others (shm_manager.py:144-151): the operators FirstFit and *)
(* Allocate, which the models of the sender and of the receiver use, are    *)
(* what the loop computes.                                                  *)
THEOREM FirstFitTaken == LoopSpec => TakesFirstFit
<1> DEFINE Takes ==
      \A S \in SUBSET Slots : result' = Buffer(S) =>
        /\ Fits(occupancy, slots_needed) # {}
        /\ S = Allocate(occupancy, slots_needed)
        /\ occupancy' = occupancy \cup S
<1>1. LoopInv /\ [LoopNext]_loopVars => [Takes]_loopVars
  <2> SUFFICES ASSUME LoopInv, LoopNext, NEW S \in SUBSET Slots, result' = Buffer(S)
               PROVE  /\ Fits(occupancy, slots_needed) # {}
                      /\ S = Allocate(occupancy, slots_needed)
                      /\ occupancy' = occupancy \cup S
    OBVIOUS
  <2>1. CASE TakeRun
    <3>1. S = (i - slots_needed + 1) .. i
      BY <2>1 DEF TakeRun, Buffer
    <3> QED  BY <2>1, <3>1, TakeRunIsFirstFit DEF TakeRun
  <2> QED  BY <2>1, Results DEF LoopNext, SkipUsed, ExtendRun, GiveUp
<1> QED  BY <1>1, LoopInitInv, LoopNextInv, PTL DEF LoopSpec, TakesFirstFit

USE ReceiverAssumption

-----------------------------------------------------------------------------
(* Names of chunks.                                                         *)

LEMMA KeyFacts ==
  /\ \A k \in Keys : /\ ReqOf(k) \in Ids /\ IdxOf(k) \in Nat
                     /\ IdxOf(k) < NumChunks[ReqOf(k)]
                     /\ k = <<ReqOf(k), IdxOf(k)>> /\ k \in KeysOf(ReqOf(k))
                     /\ k \in CallKeys
  /\ \A k \in CallKeys : ReqOf(k) \in Ids /\ IdxOf(k) \in Nat
  /\ \A k \in CallKeys : k \notin Keys => k = EndKey(ReqOf(k))
  /\ \A id \in Ids : EndKey(id) \in CallKeys \ Keys /\ ReqOf(EndKey(id)) = id
  /\ 0 \in Shards
<1> USE DEF ReqOf, IdxOf
<1>1. \A id \in Ids : NumChunks[id] \in Nat \ {0}
  BY ReceiverAssumption
<1>2. ASSUME NEW k
      PROVE  k \in Keys <=> \E id \in Ids : k \in {id} \X (0 .. NumChunks[id] - 1)
  BY DEF Keys
<1>3. ASSUME NEW k
      PROVE  k \in CallKeys <=> \E id \in Ids : k \in {id} \X (0 .. NumChunks[id])
  BY DEF CallKeys
<1>4. ASSUME NEW k \in Keys
      PROVE  /\ ReqOf(k) \in Ids /\ IdxOf(k) \in Nat /\ IdxOf(k) < NumChunks[ReqOf(k)]
             /\ k = <<ReqOf(k), IdxOf(k)>> /\ k \in KeysOf(ReqOf(k)) /\ k \in CallKeys
  <2>1. PICK id \in Ids : k \in {id} \X (0 .. NumChunks[id] - 1)
    BY <1>2
  <2>2. k = <<id, IdxOf(k)>> /\ ReqOf(k) = id /\ IdxOf(k) \in 0 .. NumChunks[id] - 1
    BY <2>1
  <2>3. k \in {id} \X (0 .. NumChunks[id])
    BY <1>1, <2>2
  <2> QED  BY <1>1, <1>3, <2>2, <2>3 DEF KeysOf
<1>5. ASSUME NEW k \in CallKeys
      PROVE  /\ ReqOf(k) \in Ids /\ IdxOf(k) \in Nat
             /\ k \notin Keys => k = EndKey(ReqOf(k))
  <2>1. PICK id \in Ids : k \in {id} \X (0 .. NumChunks[id])
    BY <1>3
  <2>2. k = <<id, IdxOf(k)>> /\ ReqOf(k) = id /\ IdxOf(k) \in 0 .. NumChunks[id]
    BY <2>1
  <2>3. IdxOf(k) # NumChunks[id] => k \in {id} \X (0 .. NumChunks[id] - 1)
    BY <1>1, <2>2
  <2> QED  BY <1>1, <1>2, <2>2, <2>3 DEF EndKey
<1>6. ASSUME NEW id \in Ids
      PROVE  EndKey(id) \in CallKeys /\ EndKey(id) \notin Keys /\ ReqOf(EndKey(id)) = id
  <2>1. EndKey(id) \in {id} \X (0 .. NumChunks[id])
    BY <1>1 DEF EndKey
  <2>2. EndKey(id) \notin Keys
    BY <1>4, <1>1 DEF EndKey
  <2> QED  BY <1>3, <2>1, <2>2 DEF EndKey
<1>7. 0 \in Shards
  BY ReceiverAssumption DEF Shards
<1> QED  BY <1>4, <1>5, <1>6, <1>7

(* The chunks of a request other than its last come before it. *)
LEMMA BeforeLast ==
  ASSUME NEW k \in Keys, IsLast(k), NEW l \in Keys, ReqOf(l) = ReqOf(k), l # k
  PROVE  l \in Before(k)
<1>1. IdxOf(l) # IdxOf(k)
  BY KeyFacts
<1>2. IdxOf(l) \in Nat /\ IdxOf(k) \in Nat /\ IdxOf(l) < NumChunks[ReqOf(k)]
  BY KeyFacts
<1>3. NumChunks[ReqOf(k)] = IdxOf(k) + 1
  BY DEF IsLast
<1>4. IdxOf(l) < IdxOf(k)
  BY <1>1, <1>2, <1>3
<1> QED  BY <1>4 DEF Before, KeysOf

-----------------------------------------------------------------------------
(* Types.                                                                   *)

LEMMA EnterLedgerType ==
  ASSUME TypeOK, NEW id \in Ids, EnterLedger(id)
  PROVE  ledger' \subseteq Ids /\ num_chunks' \in [Ids -> Int]
BY DEF TypeOK, EnterLedger, SentNumChunks

LEMMA SetDoneType ==
  ASSUME TypeOK, NEW id \in Ids, SetDone(id)
  PROVE  done_event' \in [Ids -> BOOLEAN] /\ call' \in [Readers \X CallKeys -> CallStates]
BY DEF TypeOK, SetDone, CallStates

LEMMA AllocatedType ==
  ASSUME TypeOK, NEW k \in Keys, NEW s \in Shards, Fits(occupancy, Size[k]) # {},
         Allocated(k, s)
  PROVE  /\ occupancy' \subseteq Slots /\ slots' \in [Keys -> SUBSET Slots]
         /\ chunk' \in [Keys -> {"none", "tensor", "done", "object"}]
         /\ malloc_event' \in [Keys -> {"none", "clear", "set"}]
         /\ prep' \in [Keys \X Shards -> PrepStates]
         /\ ledger' \subseteq Ids /\ num_chunks' \in [Ids -> Int]
<1>1. Allocate(occupancy, Size[k]) \subseteq Slots
  BY AllocateIsFree
<1> QED  BY <1>1, KeyFacts, EnterLedgerType DEF TypeOK, Allocated, PrepStates

LEMMA IterateType ==
  ASSUME TypeOK, NEW r \in Readers, NEW k \in CallKeys, Iterate(r, k)
  PROVE  done_event' \in [Ids -> BOOLEAN] /\ call' \in [Readers \X CallKeys -> CallStates]
BY KeyFacts DEF TypeOK, Iterate, CallStates

LEMMA FinishMarkType ==
  ASSUME TypeOK, NEW k \in Keys, FinishMark(k)
  PROVE  /\ mark' \in [Keys -> MarkStates]
         /\ ledger' \subseteq Ids /\ num_chunks' \in [Ids -> Int]
         /\ done_event' \in [Ids -> BOOLEAN]
         /\ chunk' \in [Keys -> {"none", "tensor", "done", "object"}]
         /\ slots' \in [Keys -> SUBSET Slots]
<1>1. CASE LastOfEntry(k)
  <2>1. DropEntry(ReqOf(k)) /\ mark' = [mark EXCEPT ![k] = "done"]
    BY <1>1 DEF FinishMark
  <2>2. \A l \in Keys : slots[l] \in SUBSET Slots /\ {} \in SUBSET Slots
    BY DEF TypeOK
  <2>3. slots' \in [Keys -> SUBSET Slots]
    BY <2>1, <2>2 DEF DropEntry
  <2>4. chunk' \in [Keys -> {"none", "tensor", "done", "object"}]
    BY <2>1 DEF TypeOK, DropEntry
  <2> QED  BY <2>1, <2>3, <2>4, KeyFacts DEF TypeOK, DropEntry, MarkStates
<1>2. CASE ~LastOfEntry(k)
  BY <1>2 DEF TypeOK, FinishMark, KeepEntry, MarkStates
<1> QED  BY <1>1, <1>2

LEMMA TypeInv == TypeOK /\ [Next]_vars => TypeOK'
<1> SUFFICES ASSUME TypeOK, [Next]_vars PROVE TypeOK'
  OBVIOUS
<1>1. ASSUME NEW k \in Keys, NEW s \in Shards, PrepareFirst(k, s) PROVE TypeOK'
  <2>1. CASE Fits(occupancy, Size[k]) # {} /\ Allocated(k, s)
    BY <1>1, <2>1, AllocatedType DEF TypeOK, PrepareFirst
  <2>2. CASE ~(Fits(occupancy, Size[k]) # {} /\ Allocated(k, s))
    BY <1>1, <2>2 DEF TypeOK, PrepareFirst, SleepForMemory, memVars, PrepStates
  <2> QED  BY <2>1, <2>2
<1>2. ASSUME NEW k \in Keys, NEW s \in Shards, RetryAllocate(k, s) PROVE TypeOK'
  <2>1. CASE Fits(occupancy, Size[k]) # {} /\ Allocated(k, s)
    BY <1>2, <2>1, AllocatedType DEF TypeOK, RetryAllocate
  <2>2. CASE ~(Fits(occupancy, Size[k]) # {} /\ Allocated(k, s))
    BY <1>2, <2>2 DEF TypeOK, RetryAllocate, SleepForMemory, memVars, PrepStates
  <2> QED  BY <2>1, <2>2
<1>3. ASSUME NEW k \in Keys, NEW s \in Shards, PrepareLater(k, s) PROVE TypeOK'
  BY <1>3 DEF TypeOK, PrepareLater, memVars, PrepStates
<1>4. ASSUME NEW k \in Keys, NEW s \in Shards, ResumeLater(k, s) PROVE TypeOK'
  BY <1>4 DEF TypeOK, ResumeLater, memVars, PrepStates
<1>5. ASSUME NEW k \in Keys, NEW s \in Shards, ShardReceived(k, s) PROVE TypeOK'
  <2>1. arrived' \in [Keys -> SUBSET Shards]
    <3>1. arrived[k] \cup {s} \in SUBSET Shards
      BY DEF TypeOK
    <3> QED  BY <1>5, <3>1 DEF TypeOK, ShardReceived
  <2>2. prep' \in [Keys \X Shards -> PrepStates]
    BY <1>5 DEF TypeOK, ShardReceived, PrepStates
  <2>3. done_event' \in [Ids -> BOOLEAN] /\ call' \in [Readers \X CallKeys -> CallStates]
    BY <1>5, KeyFacts, SetDoneType DEF TypeOK, ShardReceived
  <2> QED  BY <1>5, <2>1, <2>2, <2>3 DEF TypeOK, ShardReceived
<1>6. ASSUME NEW k \in Keys, PrepareWhole(k) PROVE TypeOK'
  BY <1>6, KeyFacts, SetDoneType, EnterLedgerType DEF TypeOK, PrepareWhole, memVars, PrepStates
<1>7. ASSUME NEW id \in Ids, CloseStream(id) PROVE TypeOK'
  BY <1>7, SetDoneType DEF TypeOK, CloseStream, memVars
<1>8. ASSUME NEW r \in Readers, NEW k \in CallKeys, Receive(r, k) PROVE TypeOK'
  BY <1>8, KeyFacts, IterateType, ZenonT(40) DEF TypeOK, Receive, memVars, CallStates
<1>9. ASSUME NEW r \in Readers, NEW k \in CallKeys, ResumeReceive(r, k) PROVE TypeOK'
  BY <1>9, KeyFacts, IterateType DEF TypeOK, ResumeReceive, memVars
<1>10. ASSUME NEW k \in Keys, MarkDone(k) PROVE TypeOK'
  <2>1. prep' \in [Keys \X Shards -> PrepStates] /\ occupancy' \subseteq Slots
    BY <1>10 DEF TypeOK, MarkDone, NotifyMemory, PrepStates
  <2>2. CASE FinishMark(k)
    BY <1>10, <2>1, <2>2, FinishMarkType DEF TypeOK, MarkDone
  <2>3. CASE ~FinishMark(k)
    BY <1>10, <2>1, <2>3 DEF TypeOK, MarkDone, KeepEntry, MarkStates
  <2> QED  BY <2>2, <2>3
<1>11. ASSUME NEW k \in Keys, Unlinked(k) PROVE TypeOK'
  BY <1>11, FinishMarkType DEF TypeOK, Unlinked
<1>12. ASSUME NEW k \in Keys, UnlinkFails(k) PROVE TypeOK'
  BY <1>12 DEF TypeOK, UnlinkFails, memVars, MarkStates
<1>13. ASSUME UNCHANGED vars PROVE TypeOK'
  BY <1>13 DEF TypeOK, vars, memVars
<1> QED
  BY <1>1, <1>2, <1>3, <1>4, <1>5, <1>6, <1>7, <1>8, <1>9, <1>10, <1>11, <1>12, <1>13
  DEF Next, Server, Senders, Consumers, Stop

LEMMA TypeInit == Init => TypeOK
BY DEF Init, TypeOK, PrepStates, CallStates, MarkStates

(* Every step keeps the types: in particular the slots in use stay slots of *)
(* the slab, whatever is allocated and freed.                               *)
THEOREM TypeCorrect == Spec => []TypeOK
BY TypeInit, TypeInv, PTL DEF Spec

-----------------------------------------------------------------------------
(* The life of a tensor's buffer.  OnlyWholeTensors is not inductive: that  *)
(* no reader has a tensor before its last shard follows from where its      *)
(* PrepareReceive calls are in every state of its malloc event, and that    *)
(* an entry is not dropped under a transfer from what the leader has seen.  *)

Whole(k) == \A s \in Shards : prep[<<k, s>>] = "received"

Untouched(k) ==
  /\ malloc_event[k] = "none" /\ chunk[k] = "none"
  /\ \A s \in Shards : prep[<<k, s>>] = "idle"

(* One call allocates, or has failed to; the others wait for it. *)
Allocating(k) ==
  /\ malloc_event[k] = "clear" /\ chunk[k] = "none"
  /\ \E s \in Shards :
       /\ prep[<<k, s>>] \in {"memwait", "memwoken", "failed"}
       /\ \A t \in Shards \ {s} : prep[<<k, t>>] \in {"idle", "waiting"}

Filling(k) ==
  /\ malloc_event[k] = "set" /\ chunk[k] = "tensor"
  /\ \A s \in Shards : prep[<<k, s>>] \in {"idle", "waiting", "posted", "received"}
  /\ ~Whole(k)

Filled(k) ==
  /\ malloc_event[k] = "none" /\ chunk[k] \in {"none", "done"}
  /\ Whole(k)

Phase(k) == Untouched(k) \/ Allocating(k) \/ Filling(k) \/ Filled(k)

Inter == { k \in Keys : Kind[k] = "inter" }

Phases   == \A k \in Inter : Phase(k)
Arrivals == \A k \in Inter : arrived[k] = { s \in Shards : prep[<<k, s>>] = "received" }
GotWhole == \A r \in Readers, k \in Inter : call[<<r, k>>] = "got" => Whole(k)

(* A chunk is marked only when the group has it and all the ones before it. *)
Marked ==
  \A k \in Keys : mark[k] # "no" =>
    \A r \in Readers, l \in Before(k) \cup {k} : call[<<r, l>>] = "got"

Lengths == \A id \in Ids : num_chunks[id] \in {-1, 0, NumChunks[id]}

BufferInv == TypeOK /\ Phases /\ Arrivals /\ GotWhole /\ Marked /\ Lengths

(* Nothing else ever waits: tensors of this node and objects. *)
OthersAtOnce == \A k \in Keys \ Inter, s \in Shards : prep[<<k, s>>] \in {"idle", "received"}

(* What NoFalseEnd needs besides: whoever looks at a length finds one that  *)
(* a sender stored, and nobody looks once the entry is dropped.             *)
Known ==
  /\ \A id \in Ids : done_event[id] => num_chunks[id] # -1
  /\ \A r \in Readers, k \in CallKeys : call[<<r, k>>] = "woken" => num_chunks[ReqOf(k)] # -1
  /\ \A k \in Inter : malloc_event[k] = "set" => num_chunks[ReqOf(k)] # -1

EndCalls ==
  /\ \A r \in Readers \ {Leader}, id \in Ids : call[<<r, EndKey(id)>>] = "idle"
  /\ \A k \in Keys : mark[k] # "no" /\ IsLast(k) =>
       call[<<Leader, EndKey(ReqOf(k))>>] \in {"idle", "end"}

(* What SlotsHeldOnce needs besides, when the leader marks one by one. *)
InOrder ==
  \A k \in Keys : mark[k] \in {"unlinking", "done", "failed"} =>
    \A l \in Before(k) : mark[l] \in {"done", "failed"}

-----------------------------------------------------------------------------
(* Facts that many steps use.                                               *)

LEMMA LastIsLast ==
  ASSUME Lengths, NEW k \in Keys, LastOfEntry(k)
  PROVE  IsLast(k)
<1>1. ReqOf(k) \in Ids /\ IdxOf(k) \in Nat
  BY KeyFacts
<1>2. num_chunks[ReqOf(k)] \in {-1, 0, NumChunks[ReqOf(k)]}
  BY <1>1 DEF Lengths
<1> QED  BY <1>1, <1>2 DEF LastOfEntry, IsLast

(* A step that leaves a chunk alone leaves it in its phase. *)
LEMMA PhaseStays ==
  ASSUME NEW k \in Keys, Phase(k),
         malloc_event'[k] = malloc_event[k], chunk'[k] = chunk[k],
         \A s \in Shards : prep'[<<k, s>>] = prep[<<k, s>>]
  PROVE  Phase(k)'
<1>1. Whole(k)' <=> Whole(k)
  BY DEF Whole
<1> QED  BY <1>1 DEF Phase, Untouched, Allocating, Filling, Filled

(* Phase by phase, what the state of one PrepareReceive tells. *)
LEMMA PhaseFacts ==
  ASSUME NEW k \in Keys, Phase(k), NEW s \in Shards
  PROVE  /\ prep[<<k, s>>] \in {"memwait", "memwoken", "failed"} => Allocating(k)
         /\ prep[<<k, s>>] = "posted" => Filling(k)
         /\ malloc_event[k] = "none" /\ prep[<<k, s>>] = "idle" => Untouched(k)
         /\ malloc_event[k] = "clear" => Allocating(k)
         /\ malloc_event[k] = "set" => Filling(k)
         /\ chunk[k] \in {"done", "object"} => Filled(k)
BY DEF Phase, Untouched, Allocating, Filling, Filled, Whole

(* A reader that has a chunk keeps it. *)
LEMMA GotStays ==
  ASSUME TypeOK, [Next]_vars, NEW r \in Readers, NEW k \in CallKeys,
         call[<<r, k>>] = "got"
  PROVE  call'[<<r, k>>] = "got"
<1>1. ASSUME NEW id, SetDone(id) PROVE call'[<<r, k>>] = "got"
  BY <1>1 DEF SetDone
<1>2. ASSUME NEW q \in Readers, NEW l \in CallKeys, Receive(q, l)
      PROVE  call'[<<r, k>>] = "got"
  <2>1. <<q, l>> # <<r, k>>
    BY <1>2 DEF Receive
  <2> QED  BY <1>2, <2>1 DEF TypeOK, Receive, Iterate
<1>3. ASSUME NEW q \in Readers, NEW l \in CallKeys, ResumeReceive(q, l)
      PROVE  call'[<<r, k>>] = "got"
  <2>1. <<q, l>> # <<r, k>>
    BY <1>3 DEF ResumeReceive
  <2> QED  BY <1>3, <2>1 DEF TypeOK, ResumeReceive, Iterate
<1>4. CASE call' = call
  BY <1>4
<1> QED
  BY <1>1, <1>2, <1>3, <1>4
  DEF Next, Server, Senders, Consumers, Stop, vars, PrepareFirst, RetryAllocate,
      PrepareLater, ResumeLater, ShardReceived, PrepareWhole, CloseStream,
      MarkDone, Unlinked, UnlinkFails

(* An entry that a PrepareReceive enters has a length from then on. *)
LEMMA EnterLedgerLengths ==
  ASSUME TypeOK, Lengths, NEW id \in Ids, EnterLedger(id)
  PROVE  Lengths' /\ num_chunks'[id] # -1
         /\ \A j \in Ids : num_chunks[j] # -1 => num_chunks'[j] # -1
<1>1. SentNumChunks(id) \in {0, NumChunks[id]} /\ NumChunks[id] \in Nat
  BY ReceiverAssumption DEF SentNumChunks
<1>2. \A j \in Ids : num_chunks'[j] =
        IF j = id /\ num_chunks[id] = -1 THEN SentNumChunks(id) ELSE num_chunks[j]
  BY DEF TypeOK, EnterLedger
<1> QED  BY <1>1, <1>2 DEF Lengths

-----------------------------------------------------------------------------
(* Every action keeps BufferInv.                                            *)

(* A step of one PrepareReceive that completes no transfer. *)
LEMMA OneCallInv ==
  ASSUME BufferInv, TypeOK', NEW k \in Inter, NEW s \in Shards, NEW x,
         prep[<<k, s>>] # "received", x # "received",
         prep' = [prep EXCEPT ![<<k, s>>] = x],
         \A l \in Keys \ {k} : malloc_event'[l] = malloc_event[l] /\ chunk'[l] = chunk[l],
         UNCHANGED <<arrived, call, mark>>,
         Phase(k)', Lengths'
  PROVE  BufferInv'
<1> USE DEF BufferInv
<1>1. \A l \in Keys, t \in Shards :
        prep'[<<l, t>>] = IF l = k /\ t = s THEN x ELSE prep[<<l, t>>]
  BY DEF TypeOK, Inter
<1>2. Phases'
  <2> SUFFICES ASSUME NEW l \in Inter PROVE Phase(l)'
    BY DEF Phases, Inter
  <2>1. CASE l = k
    BY <2>1
  <2>2. CASE l # k
    BY <1>1, <2>2, PhaseStays DEF Phases, Inter
  <2> QED  BY <2>1, <2>2
<1>3. Arrivals'
  <2> SUFFICES ASSUME NEW l \in Inter
               PROVE  arrived[l] = { t \in Shards : prep'[<<l, t>>] = "received" }
    BY DEF Arrivals, Inter
  <2>1. \A t \in Shards : prep'[<<l, t>>] = "received" <=> prep[<<l, t>>] = "received"
    BY <1>1 DEF Inter
  <2> QED  BY <2>1 DEF Arrivals
<1>4. GotWhole'
  <2> SUFFICES ASSUME NEW r \in Readers, NEW l \in Inter, call[<<r, l>>] = "got"
               PROVE  Whole(l)'
    BY DEF GotWhole, Inter
  <2>1. Whole(l)
    BY DEF GotWhole
  <2>2. l # k
    BY <2>1 DEF Whole
  <2> QED  BY <1>1, <2>1, <2>2 DEF Whole, Inter
<1>5. Marked'
  BY DEF Marked
<1> QED  BY <1>2, <1>3, <1>4, <1>5

LEMMA AllocatedInv ==
  ASSUME BufferInv, TypeOK', NEW k \in Inter, NEW s \in Shards,
         Untouched(k) \/ Allocating(k), prep[<<k, s>>] \in {"idle", "memwoken"},
         prep[<<k, s>>] = "idle" => Untouched(k),
         Allocated(k, s), UNCHANGED <<arrived, call, mark>>
  PROVE  BufferInv'
<1> USE DEF BufferInv
<1>1. /\ \A t \in Shards : prep'[<<k, t>>] = IF t = s THEN "posted" ELSE prep[<<k, t>>]
      /\ malloc_event'[k] = "set" /\ chunk'[k] = "tensor"
      /\ \A l \in Keys \ {k} : malloc_event'[l] = malloc_event[l] /\ chunk'[l] = chunk[l]
  BY DEF TypeOK, Inter, Allocated
<1>2. \A t \in Shards \ {s} : prep[<<k, t>>] \in {"idle", "waiting"}
  BY DEF Untouched, Allocating
<1>3. Phase(k)'
  BY <1>1, <1>2 DEF Phase, Filling, Whole
<1>4. Lengths'
  BY EnterLedgerLengths, KeyFacts DEF Allocated, Inter
<1> QED  BY <1>1, <1>3, <1>4, OneCallInv DEF Allocated

LEMMA PrepareFirstInv ==
  ASSUME BufferInv, TypeOK', NEW k \in Keys, NEW s \in Shards, PrepareFirst(k, s)
  PROVE  BufferInv'
<1>1. k \in Inter /\ Phase(k) /\ prep[<<k, s>>] = "idle" /\ malloc_event[k] = "none"
  BY DEF BufferInv, Phases, Inter, PrepareFirst
<1>2. Untouched(k)
  BY <1>1, PhaseFacts
<1>3. CASE Allocated(k, s)
  BY <1>1, <1>2, <1>3, AllocatedInv DEF PrepareFirst
<1>4. ASSUME NEW x \in {"memwait", "failed"},
             prep' = [prep EXCEPT ![<<k, s>>] = x],
             malloc_event' = [malloc_event EXCEPT ![k] = "clear"],
             UNCHANGED <<chunk, num_chunks>>
      PROVE  BufferInv'
  <2>1. /\ \A t \in Shards : prep'[<<k, t>>] = IF t = s THEN x ELSE prep[<<k, t>>]
        /\ malloc_event'[k] = "clear" /\ chunk'[k] = "none"
        /\ \A l \in Keys \ {k} : malloc_event'[l] = malloc_event[l]
    BY <1>2, <1>4 DEF BufferInv, TypeOK, Untouched
  <2>2. Phase(k)'
    BY <1>2, <2>1 DEF Phase, Allocating, Untouched
  <2>3. Lengths'
    BY <1>4 DEF BufferInv, Lengths
  <2> QED  BY <1>1, <1>4, <2>1, <2>2, <2>3, OneCallInv DEF PrepareFirst
<1> QED  BY <1>3, <1>4 DEF PrepareFirst, SleepForMemory

LEMMA RetryAllocateInv ==
  ASSUME BufferInv, TypeOK', NEW k \in Keys, NEW s \in Shards, k \in Inter,
         RetryAllocate(k, s)
  PROVE  BufferInv'
<1>1. Phase(k) /\ prep[<<k, s>>] = "memwoken"
  BY DEF BufferInv, Phases, Inter, RetryAllocate
<1>2. Allocating(k)
  BY <1>1, PhaseFacts
<1>3. CASE Allocated(k, s)
  BY <1>1, <1>2, <1>3, AllocatedInv DEF RetryAllocate
<1>4. CASE SleepForMemory(k, s) /\ UNCHANGED malloc_event
  <2>1. \A t \in Shards : prep'[<<k, t>>] = IF t = s THEN "memwait" ELSE prep[<<k, t>>]
    BY <1>4 DEF BufferInv, TypeOK, SleepForMemory
  <2>2. Phase(k)'
    <3>1. PICK t \in Shards :
            /\ prep[<<k, t>>] \in {"memwait", "memwoken", "failed"}
            /\ \A u \in Shards \ {t} : prep[<<k, u>>] \in {"idle", "waiting"}
      BY <1>2 DEF Allocating
    <3>2. t = s
      BY <1>1, <3>1
    <3> QED  BY <1>2, <1>4, <2>1, <3>1, <3>2 DEF Phase, Allocating, SleepForMemory
  <2>3. Lengths'
    BY <1>4 DEF BufferInv, Lengths, SleepForMemory
  <2> QED  BY <1>1, <1>4, <2>2, <2>3, OneCallInv DEF RetryAllocate, SleepForMemory
<1> QED  BY <1>3, <1>4 DEF RetryAllocate

(* Both actions of a later shard. *)
LEMMA LaterInv ==
  ASSUME BufferInv, TypeOK', NEW k \in Inter, NEW s \in Shards,
         PrepareLater(k, s) \/ ResumeLater(k, s)
  PROVE  BufferInv'
<1> DEFINE x == IF malloc_event[k] = "set" THEN "posted" ELSE "waiting"
<1>1. /\ prep[<<k, s>>] \in {"idle", "waiting"} /\ malloc_event[k] # "none"
      /\ prep' = [prep EXCEPT ![<<k, s>>] = x]
      /\ UNCHANGED <<malloc_event, chunk, num_chunks, arrived, call, mark>>
  BY DEF PrepareLater, ResumeLater, memVars
<1>2. \A t \in Shards : prep'[<<k, t>>] = IF t = s THEN x ELSE prep[<<k, t>>]
  BY <1>1 DEF BufferInv, TypeOK, Inter
<1>3. Phase(k)
  BY DEF BufferInv, Phases
<1>4. Phase(k)'
  <2>1. CASE Allocating(k)
    <3>1. malloc_event[k] = "clear"
      BY <2>1 DEF Allocating
    <3> QED  BY <1>1, <1>2, <2>1, <3>1 DEF Phase, Allocating
  <2>2. CASE Filling(k)
    BY <1>1, <1>2, <2>2 DEF Phase, Filling, Whole
  <2> QED  BY <1>1, <1>3, <2>1, <2>2 DEF Phase, Untouched, Filled
<1>5. Lengths'
  BY <1>1 DEF BufferInv, Lengths
<1> HIDE DEF x
<1>6. x # "received"
  BY DEF x
<1> QED  BY <1>1, <1>4, <1>5, <1>6, OneCallInv

LEMMA MarkedStays ==
  ASSUME Marked, UNCHANGED mark,
         \A r \in Readers, k \in CallKeys : call[<<r, k>>] = "got" => call'[<<r, k>>] = "got"
  PROVE  Marked'
<1> SUFFICES ASSUME NEW k \in Keys, mark[k] # "no", NEW r \in Readers,
                    NEW l \in Before(k) \cup {k}
             PROVE  call'[<<r, l>>] = "got"
  BY DEF Marked
<1>1. l \in CallKeys
  BY KeyFacts DEF Before, KeysOf
<1>2. call[<<r, l>>] = "got"
  BY DEF Marked
<1> QED  BY <1>1, <1>2

LEMMA ShardReceivedInv ==
  ASSUME BufferInv, TypeOK', NEW k \in Inter, NEW s \in Shards, ShardReceived(k, s)
  PROVE  BufferInv'
<1> USE DEF BufferInv
<1>1. Filling(k) /\ prep[<<k, s>>] = "posted" /\ k \in Keys
  BY PhaseFacts DEF Phases, Inter, ShardReceived
<1>2. \A l \in Keys, t \in Shards :
        prep'[<<l, t>>] = IF l = k /\ t = s THEN "received" ELSE prep[<<l, t>>]
  BY DEF TypeOK, ShardReceived
<1>3. arrived'[k] = { t \in Shards : prep'[<<k, t>>] = "received" }
  <2>1. arrived'[k] = arrived[k] \cup {s}
    BY <1>1 DEF TypeOK, ShardReceived
  <2> QED  BY <1>1, <1>2, <2>1 DEF Arrivals
<1>4. arrived'[k] = Shards <=> Whole(k)'
  BY <1>3 DEF Whole
<1>5. \A l \in Keys \ {k} : malloc_event'[l] = malloc_event[l] /\ chunk'[l] = chunk[l]
                            /\ arrived'[l] = arrived[l]
  BY DEF TypeOK, ShardReceived
<1>6. Phase(k)'
  <2>1. CASE arrived'[k] = Shards
    <3>1. malloc_event'[k] = "none" /\ chunk'[k] = "done"
      BY <1>1, <2>1 DEF TypeOK, ShardReceived
    <3> QED  BY <1>4, <2>1, <3>1 DEF Phase, Filled
  <2>2. CASE arrived'[k] # Shards
    <3>1. malloc_event'[k] = "set" /\ chunk'[k] = "tensor"
      BY <1>1, <2>2 DEF TypeOK, ShardReceived, Filling
    <3> QED  BY <1>1, <1>2, <1>4, <2>2, <3>1 DEF Phase, Filling
  <2> QED  BY <2>1, <2>2
<1>7. Phases'
  <2> SUFFICES ASSUME NEW l \in Inter PROVE Phase(l)'
    BY DEF Phases, Inter
  <2>1. CASE l # k
    BY <1>2, <1>5, <2>1, PhaseStays DEF Phases, Inter
  <2> QED  BY <1>6, <2>1
<1>8. Arrivals'
  <2> SUFFICES ASSUME NEW l \in Inter
               PROVE  arrived'[l] = { t \in Shards : prep'[<<l, t>>] = "received" }
    BY DEF Arrivals, Inter
  <2>1. CASE l # k
    BY <1>2, <1>5, <2>1 DEF Arrivals, Inter
  <2> QED  BY <1>3, <2>1
<1>9. \A r \in Readers, l \in CallKeys : call'[<<r, l>>] = "got" <=> call[<<r, l>>] = "got"
  BY DEF TypeOK, ShardReceived, SetDone
<1>10. GotWhole'
  <2> SUFFICES ASSUME NEW r \in Readers, NEW l \in Inter, call'[<<r, l>>] = "got"
               PROVE  Whole(l)'
    BY DEF GotWhole, Inter
  <2>1. Whole(l)
    BY <1>9, KeyFacts DEF GotWhole, Inter
  <2> QED  BY <1>2, <2>1 DEF Whole, Inter
<1>11. Marked'
  BY <1>9, MarkedStays DEF ShardReceived
<1>12. Lengths'
  BY DEF Lengths, ShardReceived
<1> QED  BY <1>7, <1>8, <1>10, <1>11, <1>12

(* A step that touches no tensor from another node and no mark. *)
LEMMA AsideInv ==
  ASSUME BufferInv, TypeOK', UNCHANGED <<malloc_event, arrived, mark>>,
         \A k \in Inter : chunk'[k] = chunk[k],
         \A k \in Inter, s \in Shards : prep'[<<k, s>>] = prep[<<k, s>>],
         \A r \in Readers, k \in CallKeys : call[<<r, k>>] = "got" => call'[<<r, k>>] = "got",
         \A r \in Readers, k \in Inter :
           call'[<<r, k>>] = "got" => call[<<r, k>>] = "got" \/ Whole(k),
         Lengths'
  PROVE  BufferInv'
<1> USE DEF BufferInv
<1>1. Phases'
  BY PhaseStays DEF Phases, Inter
<1>2. Arrivals'
  <2> SUFFICES ASSUME NEW k \in Inter
               PROVE  arrived[k] = { s \in Shards : prep'[<<k, s>>] = "received" }
    BY DEF Arrivals, Inter
  <2> QED  BY DEF Arrivals
<1>3. GotWhole'
  <2> SUFFICES ASSUME NEW r \in Readers, NEW k \in Inter, call'[<<r, k>>] = "got"
               PROVE  Whole(k)'
    BY DEF GotWhole, Inter
  <2>1. Whole(k)
    BY DEF GotWhole
  <2> QED  BY <2>1 DEF Whole
<1>4. Marked'
  BY MarkedStays
<1> QED  BY <1>1, <1>2, <1>3, <1>4

LEMMA PrepareWholeInv ==
  ASSUME BufferInv, TypeOK', NEW k \in Keys, PrepareWhole(k)
  PROVE  BufferInv'
<1>1. k \notin Inter
  BY DEF Inter, PrepareWhole
<1>2. Lengths'
  BY KeyFacts, EnterLedgerLengths DEF BufferInv, PrepareWhole
<1>3. /\ \A l \in Inter : chunk'[l] = chunk[l]
      /\ \A l \in Inter, s \in Shards : prep'[<<l, s>>] = prep[<<l, s>>]
  BY <1>1 DEF BufferInv, TypeOK, PrepareWhole, Inter
<1>4. \A r \in Readers, l \in CallKeys : call'[<<r, l>>] = "got" <=> call[<<r, l>>] = "got"
  BY DEF PrepareWhole, SetDone
<1> QED
  BY <1>2, <1>3, <1>4, KeyFacts, AsideInv DEF PrepareWhole, memVars, Inter

LEMMA CloseStreamInv ==
  ASSUME BufferInv, TypeOK', NEW id \in Ids, CloseStream(id)
  PROVE  BufferInv'
<1>1. Lengths'
  BY DEF BufferInv, TypeOK, Lengths, CloseStream
<1>2. \A r \in Readers, l \in CallKeys : call'[<<r, l>>] = "got" <=> call[<<r, l>>] = "got"
  BY DEF CloseStream, SetDone
<1> QED  BY <1>1, <1>2, KeyFacts, AsideInv DEF CloseStream, memVars, Inter

LEMMA ReceiveInv ==
  ASSUME BufferInv, TypeOK', NEW r \in Readers, NEW k \in CallKeys,
         Receive(r, k) \/ ResumeReceive(r, k)
  PROVE  BufferInv'
<1> USE DEF BufferInv
<1>1. UNCHANGED <<memVars, num_chunks, chunk, prep, mark>>
  BY DEF Receive, ResumeReceive
<1>2. \A q \in Readers, l \in CallKeys : call[<<q, l>>] = "got" => call'[<<q, l>>] = "got"
  BY GotStays DEF Next, Server, Consumers
<1>3. ASSUME NEW q \in Readers, NEW l \in Inter, call'[<<q, l>>] = "got", call[<<q, l>>] # "got"
      PROVE  Whole(l)
  <2>1. l \in CallKeys
    BY KeyFacts DEF Inter
  <2>2. PICK x \in {"end", "got", "waiting"} :
          call' = [call EXCEPT ![<<r, k>>] = x] /\ (x = "got" => Available(k))
    BY DEF Receive, ResumeReceive, Iterate
  <2>3. l = k /\ Available(k)
    BY <1>3, <2>1, <2>2 DEF TypeOK
  <2> QED  BY <2>3, KeyFacts, PhaseFacts DEF Phases, Inter, Available, Filled
<1>4. Lengths'
  BY <1>1 DEF Lengths
<1> QED  BY <1>1, <1>2, <1>3, <1>4, AsideInv DEF memVars

(* When an entry is dropped no transfer of its request is under way. *)
LEMMA DroppedIsFilled ==
  ASSUME BufferInv, NEW k \in Keys, LastOfEntry(k),
         \A r \in Readers, l \in Before(k) \cup {k} : call[<<r, l>>] = "got"
  PROVE  \A l \in Keys : ReqOf(l) = ReqOf(k) =>
           /\ l \in Before(k) \cup {k}
           /\ l \in Inter => Filled(l)
<1> SUFFICES ASSUME NEW l \in Keys, ReqOf(l) = ReqOf(k)
             PROVE  l \in Before(k) \cup {k} /\ (l \in Inter => Filled(l))
  OBVIOUS
<1>1. l \in Before(k) \cup {k}
  BY LastIsLast, BeforeLast DEF BufferInv
<1>2. ASSUME l \in Inter PROVE Filled(l)
  <2>1. Whole(l)
    BY <1>1, <1>2, ReceiverAssumption DEF BufferInv, GotWhole
  <2> QED  BY <1>2, <2>1, KeyFacts DEF BufferInv, Phases, Phase, Untouched, Allocating, Filling, Whole
<1> QED  BY <1>1, <1>2

LEMMA MarkingInv ==
  ASSUME BufferInv, TypeOK', NEW k \in Keys, NEW m \in MarkStates,
         mark' = [mark EXCEPT ![k] = m],
         UNCHANGED <<malloc_event, arrived, call>>,
         \A r \in Readers, l \in Before(k) \cup {k} : call[<<r, l>>] = "got",
         \A l \in Keys, s \in Shards :
           \/ prep'[<<l, s>>] = prep[<<l, s>>]
           \/ prep[<<l, s>>] = "memwait" /\ prep'[<<l, s>>] = "memwoken",
         \A l \in Inter : chunk'[l] = chunk[l] \/ (Filled(l) /\ chunk'[l] = "none"),
         Lengths'
  PROVE  BufferInv'
<1> USE DEF BufferInv
<1>1. \A l \in Keys : Whole(l)' <=> Whole(l)
  BY DEF Whole
<1>2. Phases'
  <2> SUFFICES ASSUME NEW l \in Inter PROVE Phase(l)'
    BY DEF Phases, Inter
  <2>1. l \in Keys /\ Phase(l)
    BY DEF Phases, Inter
  <2>2. CASE Filled(l)
    BY <1>1, <2>1, <2>2 DEF Phase, Filled
  <2>3. CASE Untouched(l)
    BY <1>1, <2>1, <2>3 DEF Phase, Untouched
  <2>4. CASE Allocating(l)
    <3>1. PICK s \in Shards :
            /\ prep[<<l, s>>] \in {"memwait", "memwoken", "failed"}
            /\ \A t \in Shards \ {s} : prep[<<l, t>>] \in {"idle", "waiting"}
      BY <2>4 DEF Allocating
    <3>2. /\ prep'[<<l, s>>] \in {"memwait", "memwoken", "failed"}
          /\ \A t \in Shards \ {s} : prep'[<<l, t>>] \in {"idle", "waiting"}
      BY <2>1, <3>1
    <3> QED  BY <2>1, <2>4, <3>2 DEF Phase, Allocating
  <2>5. CASE Filling(l)
    <3>1. chunk'[l] = chunk[l]
      BY <2>5 DEF Filling, Filled
    <3> QED  BY <1>1, <2>1, <2>5, <3>1 DEF Phase, Filling
  <2> QED  BY <2>1, <2>2, <2>3, <2>4, <2>5 DEF Phase
<1>3. Arrivals'
  <2> SUFFICES ASSUME NEW l \in Inter
               PROVE  arrived[l] = { s \in Shards : prep'[<<l, s>>] = "received" }
    BY DEF Arrivals, Inter
  <2>1. \A s \in Shards : prep'[<<l, s>>] = "received" <=> prep[<<l, s>>] = "received"
    BY DEF Inter
  <2> QED  BY <2>1 DEF Arrivals
<1>4. GotWhole'
  BY <1>1 DEF GotWhole, Inter
<1>5. Marked'
  <2>1. ASSUME NEW l \in Keys, mark'[l] # "no", NEW r \in Readers,
               NEW j \in Before(l) \cup {l}
        PROVE  call'[<<r, j>>] = "got"
    <3>1. call' = call
      OBVIOUS
    <3>2. CASE l = k
      BY <2>1, <3>1, <3>2
    <3>3. CASE l # k
      <4>1. mark[l] # "no"
        BY <2>1, <3>3 DEF TypeOK
      <4> QED  BY <2>1, <3>1, <4>1 DEF Marked
    <3> QED  BY <3>2, <3>3
  <2> QED  BY <2>1 DEF Marked
<1> QED  BY <1>2, <1>3, <1>4, <1>5

LEMMA FinishMarkInv ==
  ASSUME BufferInv, TypeOK', NEW k \in Keys, FinishMark(k),
         UNCHANGED <<malloc_event, arrived, call>>,
         \A r \in Readers, l \in Before(k) \cup {k} : call[<<r, l>>] = "got",
         \A l \in Keys, s \in Shards :
           \/ prep'[<<l, s>>] = prep[<<l, s>>]
           \/ prep[<<l, s>>] = "memwait" /\ prep'[<<l, s>>] = "memwoken"
  PROVE  BufferInv'
<1>1. \A l \in Inter : chunk'[l] = chunk[l] \/ (Filled(l) /\ chunk'[l] = "none")
  <2> SUFFICES ASSUME NEW l \in Inter
               PROVE  chunk'[l] = chunk[l] \/ (Filled(l) /\ chunk'[l] = "none")
    OBVIOUS
  <2>1. l \in Keys /\ chunk[l] # "object"
    BY DEF BufferInv, Phases, Phase, Inter, Untouched, Allocating, Filling, Filled
  <2>2. CASE LastOfEntry(k)
    BY <2>1, <2>2, DroppedIsFilled DEF FinishMark, DropEntry
  <2>3. CASE ~LastOfEntry(k)
    BY <2>1, <2>3 DEF FinishMark, BufferInv, TypeOK
  <2> QED  BY <2>2, <2>3
<1>2. Lengths'
  BY KeyFacts, SMTT(30) DEF BufferInv, TypeOK, Lengths, FinishMark, DropEntry, KeepEntry
<1>3. mark' = [mark EXCEPT ![k] = "done"] /\ "done" \in MarkStates
  BY DEF FinishMark, MarkStates
<1> QED  BY <1>1, <1>2, <1>3, MarkingInv, ZenonT(40)

LEMMA MarkDoneInv ==
  ASSUME BufferInv, TypeOK', NEW k \in Keys, MarkDone(k)
  PROVE  BufferInv'
<1>1. /\ \A r \in Readers, l \in Before(k) \cup {k} : call[<<r, l>>] = "got"
      /\ UNCHANGED <<malloc_event, arrived, call>>
  BY DEF MarkDone, MayMark
<1>2. \A l \in Keys, s \in Shards :
        \/ prep'[<<l, s>>] = prep[<<l, s>>]
        \/ prep[<<l, s>>] = "memwait" /\ prep'[<<l, s>>] = "memwoken"
  BY DEF MarkDone, NotifyMemory
<1>3. CASE FinishMark(k)
  BY <1>1, <1>2, <1>3, FinishMarkInv
<1>4. CASE ~FinishMark(k)
  <2>1. PICK m \in MarkStates : mark' = [mark EXCEPT ![k] = m]
    BY <1>4 DEF MarkDone, MarkStates
  <2>2. KeepEntry /\ UNCHANGED chunk
    BY <1>4 DEF MarkDone
  <2>3. Lengths'
    BY <2>2 DEF BufferInv, Lengths, KeepEntry
  <2> QED  BY <1>1, <1>2, <2>1, <2>2, <2>3, MarkingInv
<1> QED  BY <1>3, <1>4

LEMMA UnlinkedInv ==
  ASSUME BufferInv, TypeOK', NEW k \in Keys, Unlinked(k)
  PROVE  BufferInv'
<1>1. \A r \in Readers, l \in Before(k) \cup {k} : call[<<r, l>>] = "got"
  BY DEF BufferInv, Marked, Unlinked
<1> QED  BY <1>1, FinishMarkInv DEF Unlinked

LEMMA UnlinkFailsInv ==
  ASSUME BufferInv, TypeOK', NEW k \in Keys, UnlinkFails(k)
  PROVE  BufferInv'
<1>1. \A r \in Readers, l \in Before(k) \cup {k} : call[<<r, l>>] = "got"
  BY DEF BufferInv, Marked, UnlinkFails
<1>2. /\ mark' = [mark EXCEPT ![k] = "failed"] /\ "failed" \in MarkStates
      /\ UNCHANGED <<malloc_event, arrived, call, chunk, prep, num_chunks>>
  BY DEF UnlinkFails, memVars, MarkStates
<1>3. Lengths'
  BY <1>2 DEF BufferInv, Lengths
<1> QED  BY <1>1, <1>2, <1>3, MarkingInv

LEMMA OthersNext == TypeOK /\ OthersAtOnce /\ [Next]_vars => OthersAtOnce'
<1> SUFFICES ASSUME TypeOK, OthersAtOnce, [Next]_vars,
                    NEW l \in Keys \ Inter, NEW t \in Shards
             PROVE  prep'[<<l, t>>] \in {"idle", "received"}
  BY DEF OthersAtOnce, Inter
<1>1. prep[<<l, t>>] \in {"idle", "received"}
  BY DEF OthersAtOnce
<1>2. ASSUME NEW k \in Keys, NEW s \in Shards, NEW x,
             k \in Inter \/ prep[<<k, s>>] \notin {"idle", "received"} \/ x = "received",
             prep' = [prep EXCEPT ![<<k, s>>] = x]
      PROVE  prep'[<<l, t>>] \in {"idle", "received"}
  BY <1>1, <1>2 DEF TypeOK
<1>3. CASE prep' = prep
  BY <1>1, <1>3
<1>4. CASE NotifyMemory
  BY <1>1, <1>4 DEF NotifyMemory
<1>5. ASSUME NEW k \in Keys, NEW s \in Shards, PrepareFirst(k, s) \/ PrepareLater(k, s)
      PROVE  prep'[<<l, t>>] \in {"idle", "received"}
  BY <1>2, <1>5 DEF PrepareFirst, PrepareLater, Allocated, SleepForMemory, Inter
<1>6. ASSUME NEW k \in Keys, NEW s \in Shards, RetryAllocate(k, s) \/ ResumeLater(k, s)
      PROVE  prep'[<<l, t>>] \in {"idle", "received"}
  BY <1>2, <1>6 DEF RetryAllocate, ResumeLater, Allocated, SleepForMemory
<1>7. ASSUME NEW k \in Keys, NEW s \in Shards, ShardReceived(k, s)
      PROVE  prep'[<<l, t>>] \in {"idle", "received"}
  BY <1>2, <1>7 DEF ShardReceived
<1>8. ASSUME NEW k \in Keys, PrepareWhole(k) PROVE prep'[<<l, t>>] \in {"idle", "received"}
  BY <1>2, <1>8, KeyFacts DEF PrepareWhole
<1> QED
  BY <1>3, <1>4, <1>5, <1>6, <1>7, <1>8
  DEF Next, Server, Senders, Consumers, Stop, vars, CloseStream, Receive,
      ResumeReceive, MarkDone, Unlinked, UnlinkFails

(* The inductive invariant. *)
RecvInv == BufferInv /\ OthersAtOnce

LEMMA RecvInvInit == Init => RecvInv
<1> SUFFICES ASSUME Init PROVE RecvInv
  OBVIOUS
<1>1. TypeOK
  BY TypeInit
<1>2. \A k \in Keys, s \in Shards : prep[<<k, s>>] = "idle"
  BY DEF Init
<1>3. Phases /\ Arrivals /\ OthersAtOnce
  BY <1>2 DEF Init, Phases, Phase, Untouched, Arrivals, OthersAtOnce, Inter
<1>4. GotWhole /\ Marked /\ Lengths
  BY KeyFacts DEF Init, GotWhole, Marked, Lengths, Inter
<1> QED  BY <1>1, <1>3, <1>4 DEF RecvInv, BufferInv

LEMMA RecvInvNext == RecvInv /\ [Next]_vars => RecvInv'
<1> SUFFICES ASSUME BufferInv, OthersAtOnce, [Next]_vars PROVE BufferInv'
  BY OthersNext DEF RecvInv, BufferInv
<1>1. TypeOK'
  BY TypeInv DEF BufferInv
<1>2. CASE UNCHANGED vars
  BY <1>1, <1>2, AsideInv DEF vars, memVars, BufferInv, Lengths
<1>3. ASSUME NEW k \in Keys, NEW s \in Shards, PrepareFirst(k, s) PROVE BufferInv'
  BY <1>1, <1>3, PrepareFirstInv
<1>4. ASSUME NEW k \in Keys, NEW s \in Shards, RetryAllocate(k, s) PROVE BufferInv'
  <2>1. k \in Inter
    BY <1>4 DEF OthersAtOnce, RetryAllocate
  <2> QED  BY <1>1, <1>4, <2>1, RetryAllocateInv
<1>5. ASSUME NEW k \in Keys, NEW s \in Shards, PrepareLater(k, s) \/ ResumeLater(k, s)
      PROVE  BufferInv'
  <2>1. k \in Inter
    BY <1>5 DEF OthersAtOnce, PrepareLater, ResumeLater, Inter
  <2> QED  BY <1>1, <1>5, <2>1, LaterInv
<1>6. ASSUME NEW k \in Keys, NEW s \in Shards, ShardReceived(k, s) PROVE BufferInv'
  <2>1. k \in Inter
    BY <1>6 DEF OthersAtOnce, ShardReceived
  <2> QED  BY <1>1, <1>6, <2>1, ShardReceivedInv
<1>7. ASSUME NEW k \in Keys, PrepareWhole(k) PROVE BufferInv'
  BY <1>1, <1>7, PrepareWholeInv
<1>8. ASSUME NEW id \in Ids, CloseStream(id) PROVE BufferInv'
  BY <1>1, <1>8, CloseStreamInv
<1>9. ASSUME NEW r \in Readers, NEW k \in CallKeys, Receive(r, k) \/ ResumeReceive(r, k)
      PROVE  BufferInv'
  BY <1>1, <1>9, ReceiveInv
<1>10. ASSUME NEW k \in Keys, MarkDone(k) PROVE BufferInv'
  BY <1>1, <1>10, MarkDoneInv
<1>11. ASSUME NEW k \in Keys, Unlinked(k) PROVE BufferInv'
  BY <1>1, <1>11, UnlinkedInv
<1>12. ASSUME NEW k \in Keys, UnlinkFails(k) PROVE BufferInv'
  BY <1>1, <1>12, UnlinkFailsInv
<1> QED
  BY <1>2, <1>3, <1>4, <1>5, <1>6, <1>7, <1>8, <1>9, <1>10, <1>11, <1>12
  DEF Next, Server, Senders, Consumers, Stop

(* A reader is handed a tensor only when every shard of it has arrived,     *)
(* for any number of shards, readers and requests, and whether or not the   *)
(* leader marks chunks one at a time (receiver.py:210-242 and 337-341).     *)
THEOREM WholeTensors == Spec => []OnlyWholeTensors
<1>1. RecvInv => OnlyWholeTensors
  <2> SUFFICES ASSUME RecvInv, NEW r \in Readers, NEW k \in Keys,
                      call[<<r, k>>] = "got", Kind[k] = "inter"
               PROVE  arrived[k] = Shards
    BY DEF OnlyWholeTensors
  <2>1. Whole(k) /\ arrived[k] = { s \in Shards : prep[<<k, s>>] = "received" }
    BY DEF RecvInv, BufferInv, GotWhole, Arrivals, Inter
  <2> QED  BY <2>1 DEF Whole
<1> QED  BY <1>1, RecvInvInit, RecvInvNext, PTL DEF Spec

-----------------------------------------------------------------------------
(* The slots in use, when the leader marks one chunk after the other.       *)

(* Unlink is for tensors that live in the sender's slab. *)
UnlinkedElsewhere == \A k \in Inter : mark[k] \notin {"unlinking", "failed"}

HeldInv == RecvInv /\ InOrder /\ UnlinkedElsewhere /\ SlotsHeldOnce

LEMMA HeldSame ==
  ASSUME SlotsHeldOnce, Held' = Held, UNCHANGED occupancy,
         \A k \in Held : slots'[k] = slots[k]
  PROVE  SlotsHeldOnce'
<1>1. { slots'[k] : k \in Held } = { slots[k] : k \in Held }
  OBVIOUS
<1> QED  BY <1>1 DEF SlotsHeldOnce

LEMMA HeldMore ==
  ASSUME SlotsHeldOnce, NEW k, k \notin Held, Held' = Held \cup {k},
         slots'[k] \cap occupancy = {}, occupancy' = occupancy \cup slots'[k],
         \A l \in Held : slots'[l] = slots[l]
  PROVE  SlotsHeldOnce'
<1>1. (UNION { slots'[l] : l \in Held' }) = (UNION { slots[l] : l \in Held }) \cup slots'[k]
  <2>1. \A x : x \in UNION { slots'[l] : l \in Held' } <=> \E l \in Held' : x \in slots'[l]
    OBVIOUS
  <2>2. \A x : x \in UNION { slots[l] : l \in Held } <=> \E l \in Held : x \in slots[l]
    OBVIOUS
  <2> QED  BY <2>1, <2>2
<1>2. \A l \in Held : slots'[l] \subseteq occupancy
  BY DEF SlotsHeldOnce
<1>3. \A l, m \in Held' : l # m => slots'[l] \cap slots'[m] = {}
  BY <1>2 DEF SlotsHeldOnce
<1> QED  BY <1>1, <1>3 DEF SlotsHeldOnce

LEMMA HeldLess ==
  ASSUME SlotsHeldOnce, NEW k \in Held, Held' = Held \ {k},
         occupancy' = occupancy \ slots[k],
         \A l \in Held' : slots'[l] = slots[l]
  PROVE  SlotsHeldOnce'
<1>1. occupancy' = UNION { slots[l] : l \in Held \ {k} }
  <2>1. \A l \in Held \ {k} : slots[l] \cap slots[k] = {}
    BY DEF SlotsHeldOnce
  <2>2. \A x : x \in UNION { slots[l] : l \in Held } <=> \E l \in Held : x \in slots[l]
    OBVIOUS
  <2>3. \A x : x \in UNION { slots[l] : l \in Held \ {k} } <=>
                 \E l \in Held \ {k} : x \in slots[l]
    OBVIOUS
  <2>4. occupancy = UNION { slots[l] : l \in Held }
    BY DEF SlotsHeldOnce
  <2> QED  BY <2>1, <2>2, <2>3, <2>4
<1>2. { slots'[l] : l \in Held' } = { slots[l] : l \in Held \ {k} }
  OBVIOUS
<1>3. \A l, m \in Held' : l # m => slots'[l] \cap slots'[m] = {}
  BY DEF SlotsHeldOnce
<1> QED  BY <1>1, <1>2, <1>3 DEF SlotsHeldOnce

(* The call that finds room takes slots that no chunk holds. *)
LEMMA AllocatedHeld ==
  ASSUME RecvInv, SlotsHeldOnce, NEW k \in Inter, NEW s \in Shards,
         prep[<<k, s>>] \in {"idle", "memwoken"}, chunk[k] = "none",
         Fits(occupancy, Size[k]) # {}, Allocated(k, s), UNCHANGED mark
  PROVE  SlotsHeldOnce'
<1> USE DEF RecvInv, BufferInv
<1>1. k \in Keys /\ k \notin Held
  BY DEF Inter, Held
<1>2. mark[k] = "no"
  <2>1. call[<<Leader, k>>] # "got"
    BY ReceiverAssumption DEF GotWhole, Whole
  <2> QED  BY <1>1, <2>1, ReceiverAssumption DEF Marked
<1>3. Held' = Held \cup {k}
  BY <1>1, <1>2 DEF TypeOK, Held, Inter, Allocated
<1>4. /\ slots'[k] = Allocate(occupancy, Size[k])
      /\ \A l \in Keys \ {k} : slots'[l] = slots[l]
  BY <1>1 DEF TypeOK, Allocated
<1>5. slots'[k] \cap occupancy = {}
  BY <1>1, <1>4, AllocateIsFree, ReceiverAssumption
<1> QED  BY <1>1, <1>3, <1>4, <1>5, HeldMore DEF Allocated, Held

(* The end of MarkDone: only the chunk marked leaves the set of those held. *)
LEMMA FinishHeld ==
  ASSUME Sequential, RecvInv, SlotsHeldOnce, UnlinkedElsewhere, NEW k \in Keys, FinishMark(k),
         \A r \in Readers, l \in Before(k) \cup {k} : call[<<r, l>>] = "got",
         \A l \in Before(k) : mark[l] \in {"done", "failed"},
         \/ k \in Held /\ occupancy' = occupancy \ slots[k]
         \/ k \notin Held /\ UNCHANGED occupancy
  PROVE  SlotsHeldOnce'
<1> USE DEF RecvInv, BufferInv
<1>1. \A l \in Held \ {k} : mark'[l] = mark[l] /\ chunk'[l] = chunk[l] /\ slots'[l] = slots[l]
  <2> SUFFICES ASSUME NEW l \in Held, l # k
               PROVE  mark'[l] = mark[l] /\ chunk'[l] = chunk[l] /\ slots'[l] = slots[l]
    OBVIOUS
  <2>1. l \in Keys /\ mark[l] \notin {"done", "failed"}
    BY DEF Held, UnlinkedElsewhere, Inter
  <2>2. CASE LastOfEntry(k)
    <3>1. ReqOf(l) # ReqOf(k)
      BY <2>1, <2>2, DroppedIsFilled
    <3> QED  BY <2>1, <2>2, <3>1 DEF TypeOK, FinishMark, DropEntry
  <2>3. CASE ~LastOfEntry(k)
    BY <2>1, <2>3 DEF TypeOK, FinishMark, KeepEntry
  <2> QED  BY <2>2, <2>3
<1>2. \A l \in Keys : chunk'[l] # "none" /\ mark'[l] # "done" => chunk[l] # "none" /\ mark[l] # "done"
  BY DEF TypeOK, FinishMark, DropEntry
<1>3. mark'[k] = "done"
  BY DEF TypeOK, FinishMark
<1>4. Held' = Held \ {k}
  <2>1. Held' \subseteq Held \ {k}
    BY <1>2, <1>3 DEF Held
  <2>2. Held \ {k} \subseteq Held'
    BY <1>1 DEF Held
  <2> QED  BY <2>1, <2>2
<1>5. CASE k \in Held /\ occupancy' = occupancy \ slots[k]
  BY <1>1, <1>4, <1>5, HeldLess
<1>6. CASE k \notin Held /\ UNCHANGED occupancy
  BY <1>1, <1>4, <1>6, HeldSame
<1> QED  BY <1>5, <1>6

(* A chunk whose MarkDone has returned stays so. *)
LEMMA InOrderNext ==
  ASSUME Sequential, TypeOK, InOrder, [Next]_vars
  PROVE  InOrder'
<1>1. CASE mark' = mark
  BY <1>1 DEF InOrder
<1>2. ASSUME NEW k \in Keys, NEW m \in MarkStates, mark' = [mark EXCEPT ![k] = m],
             mark[k] \in {"no", "unlinking"},
             \A l \in Before(k) : mark[l] \in {"done", "failed"}
      PROVE  InOrder'
  <2>1. \A l \in Keys : mark[l] \in {"done", "failed"} => mark'[l] \in {"done", "failed"}
    BY <1>2 DEF TypeOK
  <2>2. ASSUME NEW j \in Keys, mark'[j] \in {"unlinking", "done", "failed"}, NEW l \in Before(j)
        PROVE  mark'[l] \in {"done", "failed"}
    <3>1. l \in Keys
      BY DEF Before, KeysOf
    <3>2. mark[l] \in {"done", "failed"}
      BY <1>2, <2>2 DEF InOrder, TypeOK
    <3> QED  BY <2>1, <3>1, <3>2
  <2> QED  BY <2>2 DEF InOrder
<1>3. ASSUME NEW k \in Keys, MarkDone(k) PROVE InOrder'
  <2>1. \E m \in MarkStates : mark' = [mark EXCEPT ![k] = m]
    BY <1>3 DEF MarkDone, FinishMark, MarkStates
  <2>2. mark[k] = "no" /\ \A l \in Before(k) : mark[l] \in {"done", "failed"}
    BY <1>3 DEF MarkDone, MayMark
  <2> QED  BY <1>2, <2>1, <2>2
<1>4. ASSUME NEW k \in Keys, Unlinked(k) \/ UnlinkFails(k) PROVE InOrder'
  <2>1. /\ \E m \in MarkStates : mark' = [mark EXCEPT ![k] = m]
        /\ mark[k] = "unlinking"
    BY <1>4 DEF Unlinked, UnlinkFails, FinishMark, MarkStates
  <2>2. \A l \in Before(k) : mark[l] \in {"done", "failed"}
    BY <2>1 DEF InOrder
  <2> QED  BY <1>2, <2>1, <2>2
<1> QED
  BY <1>1, <1>3, <1>4
  DEF Next, Server, Senders, Consumers, Stop, vars, PrepareFirst, RetryAllocate,
      PrepareLater, ResumeLater, ShardReceived, PrepareWhole, CloseStream,
      Receive, ResumeReceive

LEMMA UnlinkedElsewhereNext ==
  ASSUME TypeOK, UnlinkedElsewhere, [Next]_vars
  PROVE  UnlinkedElsewhere'
<1>1. CASE mark' = mark
  BY <1>1 DEF UnlinkedElsewhere, Inter
<1>2. ASSUME NEW k \in Keys, MarkDone(k) \/ Unlinked(k) \/ UnlinkFails(k)
      PROVE  UnlinkedElsewhere'
  <2>1. PICK m \in MarkStates :
          mark' = [mark EXCEPT ![k] = m] /\ (m \in {"unlinking", "failed"} => k \notin Inter)
    BY <1>2 DEF MarkDone, Unlinked, UnlinkFails, FinishMark, MarkStates, UnlinkedElsewhere, Inter
  <2> QED  BY <2>1 DEF TypeOK, UnlinkedElsewhere, Inter
<1> QED
  BY <1>1, <1>2
  DEF Next, Server, Senders, Consumers, Stop, vars, PrepareFirst, RetryAllocate,
      PrepareLater, ResumeLater, ShardReceived, PrepareWhole, CloseStream,
      Receive, ResumeReceive

LEMMA HeldInvNext ==
  ASSUME Sequential, HeldInv, [Next]_vars
  PROVE  HeldInv'
<1> SUFFICES SlotsHeldOnce'
  BY RecvInvNext, InOrderNext, UnlinkedElsewhereNext DEF HeldInv, RecvInv, BufferInv
<1> USE DEF HeldInv
<1>1. TypeOK /\ SlotsHeldOnce
  BY DEF RecvInv, BufferInv
<1>2. ASSUME UNCHANGED <<occupancy, slots, mark>>,
             \A k \in Inter : chunk'[k] = "none" <=> chunk[k] = "none"
      PROVE  SlotsHeldOnce'
  <2>1. Held' = Held
    BY <1>2 DEF Held, Inter
  <2> QED  BY <1>1, <1>2, <2>1, HeldSame
<1>3. ASSUME NEW k \in Keys, NEW s \in Shards, PrepareFirst(k, s) PROVE SlotsHeldOnce'
  <2>1. k \in Inter /\ chunk[k] = "none"
    <3>1. k \in Inter /\ Phase(k)
      BY <1>3 DEF RecvInv, BufferInv, Phases, PrepareFirst, Inter
    <3> QED  BY <1>3, <3>1, PhaseFacts DEF PrepareFirst, Untouched
  <2>2. CASE Fits(occupancy, Size[k]) # {} /\ Allocated(k, s)
    BY <1>1, <1>3, <2>1, <2>2, AllocatedHeld DEF PrepareFirst
  <2>3. CASE ~(Fits(occupancy, Size[k]) # {} /\ Allocated(k, s))
    BY <1>2, <1>3, <2>3 DEF PrepareFirst, SleepForMemory
  <2> QED  BY <2>2, <2>3
<1>4. ASSUME NEW k \in Keys, NEW s \in Shards, RetryAllocate(k, s) PROVE SlotsHeldOnce'
  <2>1. k \in Inter /\ chunk[k] = "none"
    <3>1. k \in Inter
      BY <1>4 DEF RecvInv, OthersAtOnce, RetryAllocate
    <3>2. Phase(k)
      BY <3>1 DEF RecvInv, BufferInv, Phases
    <3> QED  BY <1>4, <3>1, <3>2, PhaseFacts DEF RetryAllocate, Allocating
  <2>2. CASE Fits(occupancy, Size[k]) # {} /\ Allocated(k, s)
    BY <1>1, <1>4, <2>1, <2>2, AllocatedHeld DEF RetryAllocate
  <2>3. CASE ~(Fits(occupancy, Size[k]) # {} /\ Allocated(k, s))
    BY <1>2, <1>4, <2>3 DEF RetryAllocate, SleepForMemory
  <2> QED  BY <2>2, <2>3
<1>5. ASSUME NEW k \in Keys, NEW s \in Shards, ShardReceived(k, s) PROVE SlotsHeldOnce'
  <2>1. k \in Inter
    BY <1>5 DEF RecvInv, OthersAtOnce, ShardReceived
  <2>2. Filling(k)
    BY <1>5, <2>1, PhaseFacts DEF RecvInv, BufferInv, Phases, ShardReceived
  <2>3. \A l \in Inter : chunk'[l] = "none" <=> chunk[l] = "none"
    BY <1>1, <1>5, <2>2 DEF TypeOK, ShardReceived, Filling, Inter
  <2> QED  BY <1>2, <1>5, <2>3 DEF ShardReceived
<1>6. ASSUME NEW k \in Keys, PrepareWhole(k) PROVE SlotsHeldOnce'
  <2>1. \A l \in Inter : chunk'[l] = chunk[l]
    BY <1>1, <1>6 DEF TypeOK, PrepareWhole, Inter
  <2> QED  BY <1>2, <1>6, <2>1 DEF PrepareWhole, memVars
<1>7. ASSUME NEW k \in Keys, MarkDone(k) PROVE SlotsHeldOnce'
  <2>1. /\ \A r \in Readers, l \in Before(k) \cup {k} : call[<<r, l>>] = "got"
        /\ \A l \in Before(k) : mark[l] \in {"done", "failed"}
        /\ mark[k] = "no"
    BY <1>7 DEF MarkDone, MayMark
  <2>2. CASE FinishMark(k) /\ chunk[k] = "object" /\ UNCHANGED occupancy
    <3>1. k \notin Held
      BY <2>2 DEF Held, RecvInv, BufferInv, Phases, Inter, Phase, Untouched, Allocating, Filling, Filled
    <3> QED  BY <1>1, <2>1, <2>2, <3>1, FinishHeld
  <2>3. CASE /\ FinishMark(k) /\ chunk[k] = "done" /\ Kind[k] = "inter"
             /\ occupancy' = occupancy \ slots[k]
    <3>1. k \in Held
      BY <2>1, <2>3 DEF Held
    <3> QED  BY <1>1, <2>1, <2>3, <3>1, FinishHeld
  <2>4. ASSUME NEW m \in {"refused", "unlinking"}, mark' = [mark EXCEPT ![k] = m],
               UNCHANGED <<occupancy, chunk, slots>>
        PROVE  SlotsHeldOnce'
    <3>1. Held' = Held
      BY <1>1, <2>1, <2>4 DEF Held, TypeOK
    <3> QED  BY <1>1, <2>4, <3>1, HeldSame
  <2> QED  BY <1>7, <2>2, <2>3, <2>4 DEF MarkDone, KeepEntry
<1>8. ASSUME NEW k \in Keys, Unlinked(k) PROVE SlotsHeldOnce'
  <2>1. /\ \A r \in Readers, l \in Before(k) \cup {k} : call[<<r, l>>] = "got"
        /\ \A l \in Before(k) : mark[l] \in {"done", "failed"}
    BY <1>8 DEF RecvInv, BufferInv, Marked, InOrder, Unlinked
  <2>2. k \notin Held
    BY <1>8 DEF UnlinkedElsewhere, Unlinked, Held, Inter
  <2> QED  BY <1>1, <1>8, <2>1, <2>2, FinishHeld DEF Unlinked
<1>9. ASSUME NEW k \in Keys, UnlinkFails(k) PROVE SlotsHeldOnce'
  <2>1. Held' = Held
    <3>1. k \notin Inter
      BY <1>9 DEF UnlinkedElsewhere, UnlinkFails
    <3>2. \A l \in Keys \ {k} : mark'[l] = mark[l]
      BY <1>1, <1>9 DEF TypeOK, UnlinkFails
    <3> QED  BY <1>9, <3>1, <3>2 DEF Held, Inter, UnlinkFails
  <2> QED  BY <1>1, <1>9, <2>1, HeldSame DEF UnlinkFails, memVars
<1> QED
  BY <1>2, <1>3, <1>4, <1>5, <1>6, <1>7, <1>8, <1>9
  DEF Next, Server, Senders, Consumers, Stop, vars, memVars, PrepareLater,
      ResumeLater, CloseStream, Receive, ResumeReceive

LEMMA HeldInvInit == Init => HeldInv
<1> SUFFICES ASSUME Init PROVE HeldInv
  OBVIOUS
<1>1. \A k \in Keys : mark[k] = "no" /\ chunk[k] = "none"
  BY DEF Init
<1>2. Held = {} /\ occupancy = {}
  BY <1>1 DEF Init, Held
<1>3. SlotsHeldOnce
  BY <1>2 DEF SlotsHeldOnce
<1>4. InOrder /\ UnlinkedElsewhere
  BY <1>1 DEF InOrder, UnlinkedElsewhere, Inter
<1> QED  BY <1>3, <1>4, RecvInvInit DEF HeldInv

(* When the leader marks one chunk after the other, the slots in use are    *)
(* exactly those of the tensors not yet marked done, each held by one       *)
(* tensor: nothing leaks, nothing is freed twice or under a reader          *)
(* (receiver.py:93-115 and 367-421; sidecar.md:81).                         *)
THEOREM HeldOnce ==
  ASSUME Sequential
  PROVE  Spec => []SlotsHeldOnce
<1>1. HeldInv => SlotsHeldOnce
  BY DEF HeldInv
<1>2. HeldInv /\ [Next]_vars => HeldInv'
  BY HeldInvNext
<1> QED  BY <1>1, <1>2, HeldInvInit, PTL DEF Spec

-----------------------------------------------------------------------------
(* Waiting for memory.                                                      *)

LEMMA SleepNext == TypeOK /\ NoSleepingAllocate /\ [Next]_vars => NoSleepingAllocate'
<1> SUFFICES ASSUME TypeOK, NoSleepingAllocate, [Next]_vars,
                    NEW l \in Keys, NEW t \in Shards, prep'[<<l, t>>] = "memwait"
             PROVE  Fits(occupancy', Size[l]) = {}
  BY DEF NoSleepingAllocate, Fits
<1>1. \A n : occupancy \subseteq occupancy' => Fits(occupancy', n) \subseteq Fits(occupancy, n)
  BY DEF Fits
<1>2. ASSUME prep[<<l, t>>] = "memwait", occupancy \subseteq occupancy'
      PROVE  Fits(occupancy', Size[l]) = {}
  BY <1>1, <1>2 DEF NoSleepingAllocate
<1>3. ASSUME UNCHANGED <<occupancy, prep>> PROVE Fits(occupancy', Size[l]) = {}
  BY <1>2, <1>3
<1>4. ASSUME NEW k \in Keys, NEW s \in Shards, NEW x,
             prep' = [prep EXCEPT ![<<k, s>>] = x], occupancy \subseteq occupancy',
             x = "memwait" => UNCHANGED occupancy /\ Fits(occupancy, Size[k]) = {}
      PROVE  Fits(occupancy', Size[l]) = {}
  <2>1. CASE l = k /\ t = s
    BY <1>4, <2>1 DEF TypeOK
  <2>2. CASE ~(l = k /\ t = s)
    BY <1>2, <1>4, <2>2 DEF TypeOK
  <2> QED  BY <2>1, <2>2
<1>5. ASSUME NEW k \in Keys, NEW s \in Shards, PrepareFirst(k, s) \/ RetryAllocate(k, s)
      PROVE  Fits(occupancy', Size[l]) = {}
  <2>1. CASE Allocated(k, s)
    BY <1>4, <2>1 DEF Allocated
  <2>2. CASE SleepForMemory(k, s) /\ Fits(occupancy, Size[k]) = {}
    BY <1>4, <2>2 DEF SleepForMemory
  <2>3. CASE prep' = [prep EXCEPT ![<<k, s>>] = "failed"] /\ UNCHANGED occupancy
    BY <1>4, <2>3
  <2> QED  BY <1>5, <2>1, <2>2, <2>3 DEF PrepareFirst, RetryAllocate
<1>6. ASSUME NEW k \in Keys, NEW s \in Shards,
             PrepareLater(k, s) \/ ResumeLater(k, s) \/ ShardReceived(k, s)
      PROVE  Fits(occupancy', Size[l]) = {}
  BY <1>4, <1>6 DEF PrepareLater, ResumeLater, ShardReceived, memVars
<1>7. ASSUME NEW k \in Keys, PrepareWhole(k) PROVE Fits(occupancy', Size[l]) = {}
  BY <1>4, <1>7, KeyFacts DEF PrepareWhole, memVars
<1>8. CASE NotifyMemory
  BY <1>8 DEF NotifyMemory
<1> QED
  BY <1>3, <1>5, <1>6, <1>7, <1>8
  DEF Next, Server, Senders, Consumers, Stop, vars, memVars, CloseStream, Receive,
      ResumeReceive, MarkDone, Unlinked, UnlinkFails

(* No PrepareReceive sleeps while its tensor would fit: no wakeup is lost   *)
(* between allocate, the sleep and notify_all (receiver.py:93-115).         *)
THEOREM MemoryWaitsEnd == Spec => []NoSleepingAllocate
<1>1. Init => TypeOK /\ NoSleepingAllocate
  BY TypeInit DEF Init, NoSleepingAllocate
<1>2. TypeOK /\ NoSleepingAllocate /\ [Next]_vars => (TypeOK /\ NoSleepingAllocate)'
  BY TypeInv, SleepNext
<1> QED  BY <1>1, <1>2, PTL DEF Spec

-----------------------------------------------------------------------------
(* The end of a stream.                                                     *)

EndInv == RecvInv /\ Known /\ EndCalls /\ NoFalseEnd

(* Lengths that are known stay so, as long as no entry is dropped. *)
LEMMA KnownGrows ==
  ASSUME TypeOK, Known,
         \A id \in Ids : num_chunks[id] # -1 => num_chunks'[id] # -1,
         \A id \in Ids : done_event'[id] => done_event[id] \/ num_chunks'[id] # -1,
         \A r \in Readers, k \in CallKeys : call'[<<r, k>>] = "woken" =>
           call[<<r, k>>] = "woken" \/ num_chunks'[ReqOf(k)] # -1,
         \A k \in Inter : malloc_event'[k] = "set" =>
           malloc_event[k] = "set" \/ num_chunks'[ReqOf(k)] # -1
  PROVE  Known'
<1>1. \A k \in CallKeys : ReqOf(k) \in Ids
  BY KeyFacts
<1>2. \A id \in Ids : done_event'[id] => num_chunks'[id] # -1
  BY DEF Known
<1>3. \A r \in Readers, k \in CallKeys :
        call'[<<r, k>>] = "woken" => num_chunks'[ReqOf(k)] # -1
  BY <1>1 DEF Known
<1>4. \A k \in Inter : malloc_event'[k] = "set" => num_chunks'[ReqOf(k)] # -1
  BY KeyFacts DEF Known, Inter
<1> QED  BY <1>2, <1>3, <1>4 DEF Known, Inter

LEMMA SetDoneKnown ==
  ASSUME TypeOK, Known, NEW id \in Ids, SetDone(id), num_chunks'[id] # -1,
         \A j \in Ids : num_chunks[j] # -1 => num_chunks'[j] # -1,
         \A k \in Inter : malloc_event'[k] = "set" => malloc_event[k] = "set"
  PROVE  Known'
<1>1. \A j \in Ids : done_event'[j] => done_event[j] \/ num_chunks'[j] # -1
  BY DEF TypeOK, SetDone
<1>2. \A r \in Readers, k \in CallKeys : call'[<<r, k>>] = "woken" =>
        call[<<r, k>>] = "woken" \/ num_chunks'[ReqOf(k)] # -1
  BY DEF SetDone
<1> QED  BY <1>1, <1>2, KnownGrows

LEMMA AllocatedKnown ==
  ASSUME RecvInv, Known, NEW k \in Keys, NEW s \in Shards, Allocated(k, s),
         UNCHANGED <<done_event, call>>
  PROVE  Known'
<1>1. /\ num_chunks'[ReqOf(k)] # -1
      /\ \A j \in Ids : num_chunks[j] # -1 => num_chunks'[j] # -1
  BY KeyFacts, EnterLedgerLengths DEF RecvInv, BufferInv, Allocated
<1>2. \A l \in Inter : malloc_event'[l] = "set" => malloc_event[l] = "set" \/ l = k
  BY DEF RecvInv, BufferInv, TypeOK, Allocated, Inter
<1> QED  BY <1>1, <1>2, KnownGrows DEF RecvInv, BufferInv

(* Nobody waits for an entry that is dropped. *)
LEMMA FinishKnown ==
  ASSUME RecvInv, Known, EndCalls, NEW k \in Keys, FinishMark(k),
         UNCHANGED <<malloc_event, call>>,
         \A r \in Readers, l \in Before(k) \cup {k} : call[<<r, l>>] = "got",
         LastOfEntry(k) => call[<<Leader, EndKey(ReqOf(k))>>] \in {"idle", "end"}
  PROVE  Known'
<1> USE DEF RecvInv, BufferInv
<1>1. CASE ~LastOfEntry(k)
  BY <1>1, KnownGrows DEF FinishMark, KeepEntry
<1>2. CASE LastOfEntry(k)
  <2> DEFINE id == ReqOf(k)
  <2>1. /\ id \in Ids
        /\ \A j \in Ids : num_chunks'[j] = (IF j = id THEN -1 ELSE num_chunks[j])
        /\ \A j \in Ids : done_event'[j] <=> (j # id /\ done_event[j])
    BY <1>2, KeyFacts DEF TypeOK, FinishMark, DropEntry
  <2>2. ASSUME NEW r \in Readers, NEW l \in CallKeys, call[<<r, l>>] = "woken"
        PROVE  ReqOf(l) # id
    <3>1. CASE l \in Keys
      BY <1>2, <2>2, <3>1, DroppedIsFilled
    <3>2. CASE l \notin Keys
      <4>1. l = EndKey(ReqOf(l)) /\ ReqOf(l) \in Ids
        BY <3>2, KeyFacts
      <4> QED  BY <1>2, <2>2, <4>1 DEF EndCalls
    <3> QED  BY <3>1, <3>2
  <2>3. ASSUME NEW l \in Inter, malloc_event[l] = "set" PROVE ReqOf(l) # id
    BY <1>2, <2>3, DroppedIsFilled DEF Filled, Inter
  <2>4. /\ \A r \in Readers, l \in CallKeys : call[<<r, l>>] = "woken" => num_chunks'[ReqOf(l)] # -1
        /\ \A l \in Inter : malloc_event[l] = "set" => num_chunks'[ReqOf(l)] # -1
    BY <2>1, <2>2, <2>3, KeyFacts DEF Known, Inter
  <2> QED  BY <2>1, <2>4 DEF Known, Inter
<1> QED  BY <1>1, <1>2

LEMMA KnownNext ==
  ASSUME RecvInv, Known, EndCalls, [Next]_vars
  PROVE  Known'
<1> USE DEF RecvInv, BufferInv
<1>1. CASE UNCHANGED <<done_event, call, num_chunks>>
           /\ \A k \in Inter : malloc_event'[k] = "set" => malloc_event[k] = "set"
  BY <1>1, KnownGrows
<1>2. ASSUME NEW k \in Keys, NEW s \in Shards, PrepareFirst(k, s) \/ RetryAllocate(k, s)
      PROVE  Known'
  <2>1. CASE Allocated(k, s)
    BY <1>2, <2>1, AllocatedKnown DEF PrepareFirst, RetryAllocate
  <2>2. CASE ~Allocated(k, s)
    BY <1>1, <1>2, <2>2 DEF TypeOK, PrepareFirst, RetryAllocate, SleepForMemory, Inter
  <2> QED  BY <2>1, <2>2
<1>3. ASSUME NEW k \in Keys, NEW s \in Shards, ShardReceived(k, s) PROVE Known'
  <2>1. k \in Inter
    BY <1>3 DEF OthersAtOnce, ShardReceived
  <2>2. malloc_event[k] = "set"
    BY <1>3, <2>1, PhaseFacts DEF Phases, ShardReceived, Filling
  <2>3. num_chunks[ReqOf(k)] # -1
    BY <2>1, <2>2 DEF Known
  <2>4. \A l \in Inter : malloc_event'[l] = "set" => malloc_event[l] = "set"
    BY <1>3 DEF TypeOK, ShardReceived, Inter
  <2>5. CASE SetDone(ReqOf(k))
    BY <1>3, <2>3, <2>4, <2>5, KeyFacts, SetDoneKnown DEF ShardReceived
  <2>6. CASE ~SetDone(ReqOf(k))
    BY <1>1, <1>3, <2>4, <2>6 DEF ShardReceived
  <2> QED  BY <2>5, <2>6
<1>4. ASSUME NEW k \in Keys, PrepareWhole(k) PROVE Known'
  <2>1. /\ num_chunks'[ReqOf(k)] # -1
        /\ \A j \in Ids : num_chunks[j] # -1 => num_chunks'[j] # -1
    BY <1>4, KeyFacts, EnterLedgerLengths DEF PrepareWhole
  <2> QED  BY <1>4, <2>1, KeyFacts, SetDoneKnown DEF PrepareWhole, memVars
<1>5. ASSUME NEW id \in Ids, CloseStream(id) PROVE Known'
  <2>1. \A j \in Ids : num_chunks'[j] = IF j = id THEN NumChunks[id] ELSE num_chunks[j]
    BY <1>5 DEF TypeOK, CloseStream
  <2>2. NumChunks[id] # -1
    BY ReceiverAssumption
  <2> QED  BY <1>5, <2>1, <2>2, SetDoneKnown DEF CloseStream, memVars
<1>6. ASSUME NEW r \in Readers, NEW k \in CallKeys, Receive(r, k) \/ ResumeReceive(r, k)
      PROVE  Known'
  <2>1. UNCHANGED <<num_chunks, malloc_event>>
    BY <1>6 DEF Receive, ResumeReceive, memVars
  <2>2. \A q \in Readers, l \in CallKeys :
          call'[<<q, l>>] = "woken" => call[<<q, l>>] = "woken"
    <3>1. PICK x \in {"end", "got", "waiting"} : call' = [call EXCEPT ![<<r, k>>] = x]
      BY <1>6 DEF Receive, ResumeReceive, Iterate
    <3> QED  BY <3>1 DEF TypeOK
  <2>3. \A j \in Ids : done_event'[j] => done_event[j]
    BY <1>6, KeyFacts DEF TypeOK, Receive, ResumeReceive, Iterate
  <2> QED  BY <2>1, <2>2, <2>3, KnownGrows
<1>7. ASSUME NEW k \in Keys, MarkDone(k) \/ Unlinked(k) \/ UnlinkFails(k) PROVE Known'
  <2>1. UNCHANGED <<malloc_event, call>>
    BY <1>7 DEF MarkDone, Unlinked, UnlinkFails, memVars
  <2>2. /\ \A r \in Readers, l \in Before(k) \cup {k} : call[<<r, l>>] = "got"
        /\ IsLast(k) => call[<<Leader, EndKey(ReqOf(k))>>] \in {"idle", "end"}
    BY <1>7 DEF MarkDone, MayMark, Unlinked, UnlinkFails, Marked, EndCalls
  <2>3. CASE FinishMark(k)
    BY <2>1, <2>2, <2>3, LastIsLast, FinishKnown
  <2>4. CASE ~FinishMark(k)
    BY <1>1, <1>7, <2>1, <2>4 DEF MarkDone, Unlinked, UnlinkFails, KeepEntry
  <2> QED  BY <2>3, <2>4
<1> QED
  BY <1>1, <1>2, <1>3, <1>4, <1>5, <1>6, <1>7
  DEF Next, Server, Senders, Consumers, Stop, vars, memVars, PrepareLater, ResumeLater

(* How the calls that ask for the end move. *)
LEMMA EndCallsNext ==
  ASSUME TypeOK, EndCalls, [Next]_vars
  PROVE  EndCalls'
<1>1. ASSUME NEW r \in Readers, NEW id \in Ids,
             call[<<r, EndKey(id)>>] \in {"idle", "end"},
             call'[<<r, EndKey(id)>>] # call[<<r, EndKey(id)>>]
      PROVE  Receive(r, EndKey(id))
  <2>1. EndKey(id) \in CallKeys
    BY KeyFacts
  <2>2. ASSUME NEW j, SetDone(j) PROVE FALSE
    BY <1>1, <2>1, <2>2 DEF SetDone
  <2>3. ASSUME NEW q \in Readers, NEW l \in CallKeys, Receive(q, l)
        PROVE  Receive(r, EndKey(id))
    BY <1>1, <2>1, <2>3, ZenonT(40) DEF TypeOK, Receive, Iterate
  <2>4. ASSUME NEW q \in Readers, NEW l \in CallKeys, ResumeReceive(q, l)
        PROVE  FALSE
    BY <1>1, <2>1, <2>4 DEF TypeOK, ResumeReceive, Iterate
  <2>5. CASE call' = call
    BY <1>1, <2>5
  <2> QED
    BY <2>2, <2>3, <2>4, <2>5
    DEF Next, Server, Senders, Consumers, Stop, vars, PrepareFirst, RetryAllocate,
        PrepareLater, ResumeLater, ShardReceived, PrepareWhole, CloseStream,
        MarkDone, Unlinked, UnlinkFails
<1>2. ASSUME NEW r \in Readers, NEW id \in Ids, Receive(r, EndKey(id))
      PROVE  r = Leader /\ \A k \in KeysOf(id) : IsLast(k) => mark[k] = "no" /\ UNCHANGED mark
  BY <1>2, KeyFacts DEF Receive, MayReceive
<1>3. ASSUME NEW r \in Readers \ {Leader}, NEW id \in Ids
      PROVE  call'[<<r, EndKey(id)>>] = "idle"
  BY <1>1, <1>2 DEF EndCalls
<1>4. ASSUME NEW k \in Keys, mark'[k] # "no", IsLast(k)
      PROVE  call'[<<Leader, EndKey(ReqOf(k))>>] \in {"idle", "end"}
  <2>1. ReqOf(k) \in Ids /\ k \in KeysOf(ReqOf(k)) /\ Leader \in Readers
    BY KeyFacts, ReceiverAssumption
  <2>2. CASE mark[k] # "no"
    <3>1. ~Receive(Leader, EndKey(ReqOf(k)))
      BY <1>2, <1>4, <2>1, <2>2
    <3> QED  BY <1>1, <1>4, <2>1, <2>2, <3>1 DEF EndCalls
  <2>3. CASE mark[k] = "no"
    <3>1. PICK l \in Keys : MarkDone(l) \/ Unlinked(l) \/ UnlinkFails(l)
      BY <1>4, <2>3
      DEF Next, Server, Senders, Consumers, Stop, vars, PrepareFirst, RetryAllocate,
          PrepareLater, ResumeLater, ShardReceived, PrepareWhole, CloseStream,
          Receive, ResumeReceive
    <3>2. l = k
      BY <1>4, <2>3, <3>1 DEF TypeOK, MarkDone, Unlinked, UnlinkFails, FinishMark
    <3> QED  BY <1>4, <2>3, <3>1, <3>2 DEF MarkDone, MayMark, Unlinked, UnlinkFails
  <2> QED  BY <2>2, <2>3
<1> QED  BY <1>3, <1>4 DEF EndCalls

LEMMA IterateResult ==
  ASSUME TypeOK, NEW r \in Readers, NEW k \in CallKeys, Iterate(r, k),
         call'[<<r, k>>] \in {"end", "got"}
  PROVE  \/ OutOfBound(k) /\ call'[<<r, k>>] = "end"
         \/ Available(k) /\ call'[<<r, k>>] = "got"
BY DEF TypeOK, Iterate

LEMMA NoFalseEndNext ==
  ASSUME EndInv, [Next]_vars
  PROVE  NoFalseEnd'
<1> USE DEF EndInv, RecvInv, BufferInv
<1>1. ASSUME NEW r \in Readers, NEW k \in CallKeys,
             call'[<<r, k>>] \in {"end", "got"}, call'[<<r, k>>] # call[<<r, k>>]
      PROVE  /\ num_chunks[ReqOf(k)] # -1
             /\ \/ OutOfBound(k) /\ call'[<<r, k>>] = "end"
                \/ Available(k) /\ call'[<<r, k>>] = "got"
  <2>1. ASSUME NEW j, SetDone(j) PROVE FALSE
    BY <1>1, <2>1 DEF SetDone
  <2>2. ASSUME NEW q \in Readers, NEW l \in CallKeys, Receive(q, l)
        PROVE  /\ num_chunks[ReqOf(k)] # -1
               /\ \/ OutOfBound(k) /\ call'[<<r, k>>] = "end"
                  \/ Available(k) /\ call'[<<r, k>>] = "got"
    <3>1. q = r /\ l = k
      BY <1>1, <2>2 DEF TypeOK, Receive, Iterate
    <3>2. done_event[ReqOf(k)] /\ Iterate(r, k)
      BY <1>1, <2>2, <3>1 DEF TypeOK, Receive
    <3>3. num_chunks[ReqOf(k)] # -1
      BY <3>2, KeyFacts DEF Known
    <3>4. \/ OutOfBound(k) /\ call'[<<r, k>>] = "end"
          \/ Available(k) /\ call'[<<r, k>>] = "got"
      BY <1>1, <3>2, IterateResult
    <3> QED  BY <3>3, <3>4
  <2>3. ASSUME NEW q \in Readers, NEW l \in CallKeys, ResumeReceive(q, l)
        PROVE  /\ num_chunks[ReqOf(k)] # -1
               /\ \/ OutOfBound(k) /\ call'[<<r, k>>] = "end"
                  \/ Available(k) /\ call'[<<r, k>>] = "got"
    <3>1. q = r /\ l = k
      BY <1>1, <2>3 DEF TypeOK, ResumeReceive, Iterate
    <3>2. num_chunks[ReqOf(k)] # -1 /\ Iterate(r, k)
      BY <2>3, <3>1 DEF Known, ResumeReceive
    <3>3. \/ OutOfBound(k) /\ call'[<<r, k>>] = "end"
          \/ Available(k) /\ call'[<<r, k>>] = "got"
      BY <1>1, <3>2, IterateResult
    <3> QED  BY <3>2, <3>3
  <2>4. CASE call' = call
    BY <1>1, <2>4
  <2> QED
    BY <2>1, <2>2, <2>3, <2>4
    DEF Next, Server, Senders, Consumers, Stop, vars, PrepareFirst, RetryAllocate,
        PrepareLater, ResumeLater, ShardReceived, PrepareWhole, CloseStream,
        MarkDone, Unlinked, UnlinkFails
<1>2. ASSUME NEW k \in CallKeys, OutOfBound(k), num_chunks[ReqOf(k)] # -1
      PROVE  k \notin Keys
  <2>1. num_chunks[ReqOf(k)] = NumChunks[ReqOf(k)]
    BY <1>2, KeyFacts DEF Lengths, OutOfBound
  <2>2. IdxOf(k) >= NumChunks[ReqOf(k)] /\ IdxOf(k) \in Nat /\ NumChunks[ReqOf(k)] \in Nat
    BY <1>2, <2>1, KeyFacts, ReceiverAssumption DEF OutOfBound
  <2>3. k \in Keys => IdxOf(k) < NumChunks[ReqOf(k)]
    BY KeyFacts
  <2> QED  BY <2>2, <2>3
<1>3. ASSUME NEW r \in Readers, NEW k \in CallKeys
      PROVE  /\ call'[<<r, k>>] = "end" => k \notin Keys
             /\ call'[<<r, k>>] = "got" => k \in Keys
  <2>1. CASE call'[<<r, k>>] = call[<<r, k>>]
    BY <2>1 DEF NoFalseEnd
  <2>2. CASE call'[<<r, k>>] # call[<<r, k>>]
    BY <1>1, <1>2, <2>2 DEF Available
  <2> QED  BY <2>1, <2>2
<1> QED  BY <1>3 DEF NoFalseEnd

LEMMA EndInvInit == Init => EndInv
<1> SUFFICES ASSUME Init PROVE EndInv
  OBVIOUS
<1>1. \A r \in Readers, k \in CallKeys : call[<<r, k>>] = "idle"
  BY DEF Init
<1>2. Known
  BY <1>1 DEF Init, Known, Inter
<1>3. EndCalls
  <2>1. \A id \in Ids : EndKey(id) \in CallKeys
    BY KeyFacts
  <2>2. \A k \in Keys : mark[k] = "no"
    BY DEF Init
  <2> QED  BY <1>1, <2>1, <2>2 DEF EndCalls
<1>4. NoFalseEnd
  BY <1>1 DEF NoFalseEnd
<1> QED  BY <1>2, <1>3, <1>4, RecvInvInit DEF EndInv

LEMMA EndInvNext == EndInv /\ [Next]_vars => EndInv'
<1> SUFFICES ASSUME EndInv, [Next]_vars PROVE EndInv'
  OBVIOUS
<1>1. RecvInv' /\ NoFalseEnd'
  BY RecvInvNext, NoFalseEndNext DEF EndInv
<1>2. Known' /\ EndCalls'
  BY KnownNext, EndCallsNext DEF EndInv, RecvInv, BufferInv
<1> QED  BY <1>1, <1>2 DEF EndInv

(* Receive answers None only past the end of the data: the -1 of an entry   *)
(* made by a Receive and the 0 of an open stream are never taken for the    *)
(* length, whatever the order of Receive, PrepareReceive, CloseStream and   *)
(* MarkDone (receiver.py:287-354).                                          *)
THEOREM EndIsTrue == Spec => []NoFalseEnd
<1>1. EndInv => NoFalseEnd
  BY DEF EndInv
<1> QED  BY <1>1, EndInvInit, EndInvNext, PTL DEF Spec

-----------------------------------------------------------------------------
(* Waiting for a chunk, what is left at the end, and the store.             *)
(*                                                                          *)
(* NoneSleepsForGood says nothing of the event that no one waits for, which *)
(* is what a reader finds that comes late: EventSet does.  The rest says    *)
(* that what arrived stays until it is marked, which lengths an entry may   *)
(* have and until when, and that an entry is dropped once its last chunk is      *)
(* marked and not entered again.                                            *)

(* The two halves of NoneSleepsForGood: what a sleeper waits for is still   *)
(* to come, and a chunk lies beside a clear event only because of a reader  *)
(* that sleeps for another.                                                 *)
StillToCome(id) == (\E l \in KeysOf(id) : ~Transferred(l)) \/ id \in Streamed \ closed
Sleepers ==
  \A r \in Readers, k \in CallKeys : call[<<r, k>>] = "waiting" =>
    ReqOf(k) \in ledger /\ ~done_event[ReqOf(k)] /\ StillToCome(ReqOf(k))
SleepsElsewhere(r, l, id) == ReqOf(l) = id /\ call[<<r, l>>] = "waiting" /\ ~Available(l)
Cleared ==
  \A k \in Keys : Available(k) /\ ~done_event[ReqOf(k)] =>
    \E r \in Readers, l \in CallKeys : SleepsElsewhere(r, l, ReqOf(k))

LEMMA SleepersAndCleared == NoneSleepsForGood <=> Sleepers /\ Cleared
BY DEF NoneSleepsForGood, Sleepers, Cleared, StillToCome, SleepsElsewhere

Complete(id) == (\A k \in KeysOf(id) : Transferred(k)) /\ id \notin Streamed \ closed
Open(id) == \A k \in KeysOf(id) : IsLast(k) => mark[k] # "done"

OthersWhole ==
  \A k \in Keys \ Inter : malloc_event[k] = "none" /\ (chunk[k] # "none" => Transferred(k))

GotTransferred == \A r \in Readers, k \in Keys : call[<<r, k>>] = "got" => Transferred(k)
Kept == \A k \in Keys : Transferred(k) /\ mark[k] \notin {"done", "failed"} => Available(k)
NoneRefused == \A k \in Keys : mark[k] # "refused"

TrueLengths ==
  \A id \in Ids : num_chunks[id] # -1 =>
    num_chunks[id] = IF id \in Streamed \ closed THEN 0 ELSE NumChunks[id]
Entered ==
  \A id \in Ids : Open(id) /\ (id \in closed \/ \E k \in KeysOf(id) : Transferred(k)) =>
    num_chunks[id] # -1
EndTold == \A id \in Ids : call[<<Leader, EndKey(id)>>] = "end" => id \notin Streamed \ closed
ClosedBeforeLast ==
  \A k \in Keys : IsLast(k) /\ mark[k] # "no" => ReqOf(k) \notin Streamed \ closed
InLedger == \A id \in Ids : num_chunks[id] # -1 => id \in ledger
Gone == \A id \in Ids : ~Open(id) => id \notin ledger
EventSet == \A id \in Ids : Complete(id) /\ Open(id) => done_event[id]

StreamParts ==
  /\ GotTransferred /\ Kept /\ NoneRefused
  /\ TrueLengths /\ Entered /\ EndTold /\ ClosedBeforeLast /\ InLedger /\ Gone
  /\ EventSet /\ Sleepers /\ Cleared

StreamInv == EndInv /\ InOrder /\ OthersWhole /\ StreamParts

(* For these invariants a step is of one of five kinds: it moves memory and *)
(* may enter a request, it completes a chunk, it closes a stream, it is one *)
(* of a Receive, or one of a MarkDone.                                      *)
Moves ==
  /\ \A k \in Keys : (Transferred(k)' <=> Transferred(k)) /\ (Available(k)' <=> Available(k))
  /\ UNCHANGED <<done_event, call, mark, closed>>
  /\ \/ UNCHANGED <<ledger, num_chunks>>
     \/ \E k \in Keys : ~Transferred(k) /\ EnterLedger(ReqOf(k))

Arrives(k) ==
  /\ ~Transferred(k)
  /\ \A l \in Keys : /\ Transferred(l)' <=> (l = k \/ Transferred(l))
                     /\ Available(l)' <=> (l = k \/ Available(l))
  /\ SetDone(ReqOf(k))
  /\ UNCHANGED <<mark, closed>>
  /\ \/ UNCHANGED <<ledger, num_chunks>> /\ num_chunks[ReqOf(k)] # -1
     \/ EnterLedger(ReqOf(k))

Reads(r, k) == Receive(r, k) \/ ResumeReceive(r, k)
Marks(k) == MarkDone(k) \/ Unlinked(k) \/ UnlinkFails(k)

LEMMA TransferredShards ==
  ASSUME NEW k \in Keys
  PROVE  /\ k \in Inter => (Transferred(k) <=> Whole(k))
         /\ k \notin Inter => (Transferred(k) <=> prep[<<k, 0>>] = "received")
BY KeyFacts DEF Transferred, Whole, Inter

(* A step of one PrepareReceive that completes no transfer. *)
LEMMA SameTransfers ==
  ASSUME TypeOK, NEW k \in Keys, NEW s \in Shards, NEW x, k \in Inter,
         prep[<<k, s>>] # "received", x # "received", prep' = [prep EXCEPT ![<<k, s>>] = x]
  PROVE  ~Transferred(k) /\ \A l \in Keys : Transferred(l)' <=> Transferred(l)
<1>1. \A l \in Keys, t \in Shards :
        prep'[<<l, t>>] = IF l = k /\ t = s THEN x ELSE prep[<<l, t>>]
  BY DEF TypeOK
<1>2. ~Transferred(k) /\ ~Transferred(k)'
  BY <1>1 DEF Transferred, Inter
<1>3. ASSUME NEW l \in Keys, l # k PROVE Transferred(l)' <=> Transferred(l)
  BY <1>1, <1>3 DEF Transferred
<1> QED  BY <1>2, <1>3

LEMMA AllocatedMoves ==
  ASSUME RecvInv, NEW k \in Inter, NEW s \in Shards, Allocated(k, s),
         prep[<<k, s>>] \in {"idle", "memwoken"}, chunk[k] = "none",
         UNCHANGED <<done_event, call, mark, closed>>
  PROVE  Moves
<1>1. k \in Keys /\ TypeOK
  BY DEF Inter, RecvInv, BufferInv
<1>2. ~Transferred(k) /\ \A l \in Keys : Transferred(l)' <=> Transferred(l)
  BY <1>1, SameTransfers DEF Allocated
<1>3. \A l \in Keys : Available(l)' <=> Available(l)
  BY <1>1 DEF TypeOK, Allocated, Available
<1> QED  BY <1>1, <1>2, <1>3 DEF Moves, Allocated

LEMMA PrepareMoves ==
  ASSUME RecvInv, NEW k \in Keys, NEW s \in Shards,
         PrepareFirst(k, s) \/ RetryAllocate(k, s)
  PROVE  Moves
<1>1. k \in Inter /\ TypeOK
  BY DEF RecvInv, BufferInv, OthersAtOnce, PrepareFirst, RetryAllocate, Inter
<1>2. Phase(k) /\ prep[<<k, s>>] \in {"idle", "memwoken"}
      /\ (prep[<<k, s>>] = "idle" => malloc_event[k] = "none")
  BY <1>1 DEF RecvInv, BufferInv, Phases, PrepareFirst, RetryAllocate
<1>3. chunk[k] = "none"
  BY <1>2, PhaseFacts DEF Untouched, Allocating
<1>4. CASE Allocated(k, s)
  BY <1>1, <1>2, <1>3, <1>4, AllocatedMoves DEF PrepareFirst, RetryAllocate
<1>5. CASE ~Allocated(k, s)
  <2>1. PICK x \in {"memwait", "failed"} : prep' = [prep EXCEPT ![<<k, s>>] = x]
    BY <1>5 DEF PrepareFirst, RetryAllocate, SleepForMemory
  <2>2. UNCHANGED <<chunk, ledger, num_chunks, done_event, call, mark, closed>>
    BY <1>5 DEF PrepareFirst, RetryAllocate, SleepForMemory
  <2>3. \A l \in Keys : Transferred(l)' <=> Transferred(l)
    BY <1>1, <1>2, <2>1, SameTransfers
  <2> QED  BY <2>2, <2>3 DEF Moves, Available
<1> QED  BY <1>4, <1>5

LEMMA LaterMoves ==
  ASSUME RecvInv, NEW k \in Keys, NEW s \in Shards,
         PrepareLater(k, s) \/ ResumeLater(k, s)
  PROVE  Moves
<1>1. k \in Inter /\ TypeOK
  BY DEF RecvInv, BufferInv, OthersAtOnce, PrepareLater, ResumeLater, Inter
<1>2. PICK x \in {"posted", "waiting"} : prep' = [prep EXCEPT ![<<k, s>>] = x]
  BY DEF PrepareLater, ResumeLater
<1>3. prep[<<k, s>>] # "received"
      /\ UNCHANGED <<chunk, ledger, num_chunks, done_event, call, mark, closed>>
  BY DEF PrepareLater, ResumeLater
<1>4. \A l \in Keys : Transferred(l)' <=> Transferred(l)
  BY <1>1, <1>2, <1>3, SameTransfers
<1> QED  BY <1>3, <1>4 DEF Moves, Available

LEMMA ShardMoves ==
  ASSUME RecvInv, Known, RecvInv', NEW k \in Keys, NEW s \in Shards, ShardReceived(k, s)
  PROVE  Moves \/ Arrives(k)
<1> USE DEF RecvInv, BufferInv
<1>1. k \in Inter /\ TypeOK
  BY DEF OthersAtOnce, ShardReceived
<1>2. Filling(k) /\ ~Transferred(k)
  <2>1. Filling(k)
    BY <1>1, PhaseFacts DEF Phases, ShardReceived
  <2> QED  BY <1>1, <2>1, TransferredShards DEF Filling
<1>3. arrived'[k] = { t \in Shards : prep'[<<k, t>>] = "received" }
  BY <1>1 DEF Arrivals, Inter
<1>4. Transferred(k)' <=> arrived'[k] = Shards
  BY <1>1, <1>3 DEF Transferred, Inter
<1>5. \A l \in Keys \ {k} : Transferred(l)' <=> Transferred(l)
  BY <1>1 DEF TypeOK, ShardReceived, Transferred
<1>6. \A l \in Keys \ {k} : Available(l)' <=> Available(l)
  BY <1>1 DEF TypeOK, ShardReceived, Available
<1>7. arrived'[k] = arrived[k] \cup {s} /\ num_chunks[ReqOf(k)] # -1
  BY <1>1, <1>2 DEF TypeOK, ShardReceived, Known, Filling
<1>8. CASE arrived'[k] = Shards
  <2>1. chunk'[k] = "done" /\ SetDone(ReqOf(k))
    BY <1>1, <1>7, <1>8 DEF TypeOK, ShardReceived
  <2>2. Available(k)'
    BY <2>1 DEF Available
  <2> QED  BY <1>2, <1>4, <1>5, <1>6, <1>7, <1>8, <2>1, <2>2 DEF Arrives, ShardReceived
<1>9. CASE arrived'[k] # Shards
  <2>1. UNCHANGED <<chunk, done_event, call>>
    BY <1>7, <1>9 DEF ShardReceived
  <2> QED  BY <1>2, <1>4, <1>5, <1>9, <2>1 DEF Moves, ShardReceived, Available
<1> QED  BY <1>8, <1>9

LEMMA WholeArrives ==
  ASSUME TypeOK, NEW k \in Keys, PrepareWhole(k)
  PROVE  Arrives(k)
<1>1. k \notin Inter /\ ~Transferred(k) /\ 0 \in Shards
  BY KeyFacts, TransferredShards DEF PrepareWhole, Inter
<1>2. \A l \in Keys, t \in Shards :
        prep'[<<l, t>>] = IF l = k /\ t = 0 THEN "received" ELSE prep[<<l, t>>]
  BY <1>1 DEF TypeOK, PrepareWhole
<1>3. Transferred(k)'
  BY <1>1, <1>2 DEF Transferred, Inter
<1>4. \A l \in Keys \ {k} : Transferred(l)' <=> Transferred(l)
  BY <1>2 DEF Transferred
<1>5. Available(k)' /\ \A l \in Keys \ {k} : Available(l)' <=> Available(l)
  BY DEF TypeOK, PrepareWhole, Available
<1> QED  BY <1>1, <1>3, <1>4, <1>5 DEF Arrives, PrepareWhole

LEMMA StepKinds ==
  ASSUME RecvInv, Known, [Next]_vars
  PROVE  \/ Moves
         \/ \E k \in Keys : Arrives(k) \/ Marks(k)
         \/ \E id \in Ids : CloseStream(id)
         \/ \E r \in Readers, k \in CallKeys : Reads(r, k)
<1>1. RecvInv'
  BY RecvInvNext
<1>2. CASE UNCHANGED vars
  BY <1>2 DEF Moves, vars, memVars, Transferred, Available
<1>3. TypeOK
  BY DEF RecvInv, BufferInv
<1> QED
  BY <1>1, <1>2, <1>3, PrepareMoves, LaterMoves, ShardMoves, WholeArrives
  DEF Next, Server, Senders, Consumers, Stop, Marks, Reads

(* The other kinds of steps complete no transfer. *)
LEMMA RestMovesNothing ==
  ASSUME \/ \E k \in Keys : Marks(k)
         \/ \E id \in Ids : CloseStream(id)
         \/ \E r \in Readers, k \in CallKeys : Reads(r, k)
  PROVE  \A l \in Keys : Transferred(l)' <=> Transferred(l)
<1>1. \A l \in Keys, s \in Shards :
        prep'[<<l, s>>] = "received" <=> prep[<<l, s>>] = "received"
  BY DEF Marks, MarkDone, NotifyMemory, Unlinked, UnlinkFails, CloseStream, Reads, Receive, ResumeReceive
<1> QED  BY <1>1 DEF Transferred

-----------------------------------------------------------------------------
(* What the steps of Receive find.                                          *)

LEMMA SetDoneCalls ==
  ASSUME NEW id \in Ids, SetDone(id), NEW r \in Readers, NEW k \in CallKeys
  PROVE  /\ \A x \in {"idle", "got", "end"} : call'[<<r, k>>] = x <=> call[<<r, k>>] = x
         /\ call'[<<r, k>>] = "waiting" => call[<<r, k>>] = "waiting" /\ ReqOf(k) # id
BY DEF SetDone

LEMMA LastKey ==
  ASSUME NEW id \in Ids
  PROVE  \E k \in KeysOf(id) : IsLast(k)
<1> DEFINE k == <<id, NumChunks[id] - 1>>
<1>1. NumChunks[id] \in Nat \ {0}
  BY ReceiverAssumption
<1>2. NumChunks[id] - 1 \in 0 .. NumChunks[id] - 1
  BY <1>1
<1>3. k \in {id} \X (0 .. NumChunks[id] - 1)
  BY <1>2
<1>4. k \in Keys
  BY <1>3 DEF Keys
<1>5. ReqOf(k) = id /\ IdxOf(k) = NumChunks[id] - 1
  BY DEF ReqOf, IdxOf
<1>6. IsLast(k)
  BY <1>1, <1>5 DEF IsLast
<1>7. k \in KeysOf(id)
  BY <1>4, <1>5 DEF KeysOf
<1> QED  BY <1>6, <1>7

LEMMA OneLast ==
  ASSUME NEW k \in Keys, NEW l \in Keys, IsLast(k), IsLast(l), ReqOf(k) = ReqOf(l)
  PROVE  k = l
<1>1. IdxOf(k) \in Nat /\ IdxOf(l) \in Nat
  BY KeyFacts
<1>2. IdxOf(k) = IdxOf(l)
  BY <1>1 DEF IsLast
<1> QED  BY <1>2, KeyFacts

(* A request whose last chunk is marked: every reader has all of it. *)
LEMMA MarkedIsGot ==
  ASSUME RecvInv, NEW k \in Keys, IsLast(k), mark[k] # "no",
         NEW r \in Readers, NEW l \in Keys, ReqOf(l) = ReqOf(k)
  PROVE  call[<<r, l>>] = "got"
<1>1. l \in Before(k) \cup {k}
  BY BeforeLast
<1> QED  BY <1>1 DEF RecvInv, BufferInv, Marked

LEMMA NotYetOpen ==
  ASSUME RecvInv, GotTransferred, NEW k \in Keys, ~Transferred(k)
  PROVE  Open(ReqOf(k)) /\ \A l \in KeysOf(ReqOf(k)) : IsLast(l) => mark[l] = "no"
<1> SUFFICES ASSUME NEW l \in KeysOf(ReqOf(k)), IsLast(l), mark[l] # "no"
             PROVE  FALSE
  BY DEF Open
<1>1. l \in Keys /\ ReqOf(l) = ReqOf(k) /\ Leader \in Readers
  BY ReceiverAssumption DEF KeysOf
<1>2. call[<<Leader, k>>] = "got"
  BY <1>1, MarkedIsGot
<1> QED  BY <1>1, <1>2 DEF GotTransferred

(* Whoever asks finds the request open and, for a chunk, not yet marked. *)
LEMMA AskersFindItOpen ==
  ASSUME RecvInv, EndCalls, InOrder, NEW r \in Readers, NEW k \in CallKeys,
         \/ call[<<r, k>>] \notin {"idle", "got", "end"}
         \/ MayReceive(r, k)
  PROVE  /\ k \in Keys => mark[k] = "no"
         /\ k \notin Keys => k = EndKey(ReqOf(k)) /\ r = Leader
         /\ Open(ReqOf(k))
<1>1. ReqOf(k) \in Ids /\ (k \notin Keys => k = EndKey(ReqOf(k)))
  BY KeyFacts
<1>2. k \in Keys => mark[k] = "no"
  BY DEF MayReceive, RecvInv, BufferInv, Marked
<1>3. k \notin Keys => r = Leader
  BY <1>1 DEF MayReceive, EndCalls
<1>4. ASSUME NEW l \in KeysOf(ReqOf(k)), IsLast(l), mark[l] = "done" PROVE FALSE
  <2>1. l \in Keys /\ ReqOf(l) = ReqOf(k)
    BY DEF KeysOf
  <2>2. CASE k \in Keys
    <3>1. k # l
      BY <1>2, <1>4, <2>2
    <3>2. k \in Before(l)
      BY <1>4, <2>1, <2>2, <3>1, BeforeLast
    <3>3. mark[k] \in {"done", "failed"}
      BY <1>4, <2>1, <3>2 DEF InOrder
    <3> QED  BY <1>2, <2>2, <3>3
  <2>3. CASE k \notin Keys
    <3>1. k = EndKey(ReqOf(l)) /\ r = Leader
      BY <1>1, <1>3, <2>1, <2>3
    <3>2. call[<<Leader, EndKey(ReqOf(l))>>] \in {"idle", "end"}
      BY <1>4, <2>1 DEF EndCalls
    <3>3. MayReceive(r, k)
      BY <3>1, <3>2
    <3> QED  BY <1>4, <2>3, <3>3 DEF MayReceive
  <2> QED  BY <2>2, <2>3
<1> QED  BY <1>1, <1>2, <1>3, <1>4 DEF Open

(* Past a set event the length is known, and it is the true one once the    *)
(* request is complete; so a call that finds it complete does not wait.     *)
LEMMA IterateWaits ==
  ASSUME StreamInv, NEW r \in Readers, NEW k \in CallKeys,
         num_chunks[ReqOf(k)] # -1, ~OutOfBound(k), ~Available(k),
         k \in Keys => mark[k] = "no"
  PROVE  ~Complete(ReqOf(k))
<1> SUFFICES ASSUME Complete(ReqOf(k)) PROVE FALSE
  OBVIOUS
<1>1. ReqOf(k) \in Ids /\ NumChunks[ReqOf(k)] \in Nat \ {0}
  BY KeyFacts, ReceiverAssumption
<1>2. num_chunks[ReqOf(k)] = NumChunks[ReqOf(k)]
  BY <1>1 DEF StreamInv, StreamParts, TrueLengths, Complete
<1>3. CASE k \in Keys
  <2>1. k \in KeysOf(ReqOf(k))
    BY <1>3, KeyFacts
  <2>2. Transferred(k)
    BY <2>1 DEF Complete
  <2> QED  BY <1>3, <2>2 DEF StreamInv, StreamParts, Kept
<1>4. CASE k \notin Keys
  <2>1. IdxOf(k) = NumChunks[ReqOf(k)]
    <3>1. k = EndKey(ReqOf(k))
      BY <1>4, KeyFacts
    <3> QED  BY <3>1 DEF EndKey, IdxOf
  <2> QED  BY <1>1, <1>2, <2>1 DEF OutOfBound
<1> QED  BY <1>3, <1>4

(* The outcome of a step of Receive. *)
LEMMA ReadOutcome ==
  ASSUME StreamInv, NoFalseEnd', NEW r \in Readers, NEW k \in CallKeys, Reads(r, k)
  PROVE  /\ Open(ReqOf(k)) /\ (k \in Keys => mark[k] = "no")
         /\ call[<<r, k>>] \in {"idle", "woken"}
         /\ UNCHANGED <<num_chunks, chunk, mark, closed>>
         /\ ledger' = ledger \/ ledger' = ledger \cup {ReqOf(k)}
         /\ ReqOf(k) \in ledger'
         /\ \/ /\ call' = [call EXCEPT ![<<r, k>>] = "waiting"]
               /\ \A j \in Ids : done_event'[j] <=> (done_event[j] /\ j # ReqOf(k))
               /\ ~Complete(ReqOf(k))
               /\ Available(k) => ~done_event[ReqOf(k)]
            \/ /\ call' = [call EXCEPT ![<<r, k>>] = "got"] /\ UNCHANGED done_event
               /\ k \in Keys /\ Available(k)
            \/ /\ call' = [call EXCEPT ![<<r, k>>] = "end"] /\ UNCHANGED done_event
               /\ k = EndKey(ReqOf(k)) /\ r = Leader
               /\ ReqOf(k) \notin Streamed \ closed
<1> USE DEF StreamInv, StreamParts, EndInv, RecvInv, BufferInv
<1>0. ReqOf(k) \in Ids
  BY KeyFacts
<1>1. /\ k \in Keys => mark[k] = "no"
      /\ k \notin Keys => k = EndKey(ReqOf(k)) /\ r = Leader
      /\ Open(ReqOf(k))
  BY AskersFindItOpen DEF Reads, Receive, ResumeReceive
<1>2. /\ call[<<r, k>>] \in {"idle", "woken"}
      /\ UNCHANGED <<num_chunks, chunk, mark, closed>>
      /\ ledger' = ledger \/ ledger' = ledger \cup {ReqOf(k)}
      /\ ReqOf(k) \in ledger'
  BY <1>0 DEF Reads, Receive, ResumeReceive, Known, InLedger
<1>3. CASE Receive(r, k) /\ ~done_event[ReqOf(k)]
  <2>1. /\ call' = [call EXCEPT ![<<r, k>>] = "waiting"]
        /\ UNCHANGED done_event
    BY <1>3 DEF Receive
  <2>2. ~Complete(ReqOf(k))
    BY <1>0, <1>1, <1>3 DEF EventSet
  <2>3. \A j \in Ids : done_event'[j] <=> (done_event[j] /\ j # ReqOf(k))
    BY <1>3, <2>1
  <2> QED  BY <1>1, <1>2, <1>3, <2>1, <2>2, <2>3
<1>4. CASE ~(Receive(r, k) /\ ~done_event[ReqOf(k)])
  <2>1. Iterate(r, k) /\ num_chunks[ReqOf(k)] # -1
    BY <1>0, <1>4 DEF Reads, Receive, ResumeReceive, Known
  <2>2. CASE OutOfBound(k)
    <3>1. call' = [call EXCEPT ![<<r, k>>] = "end"] /\ UNCHANGED done_event
      BY <2>1, <2>2 DEF Iterate
    <3>2. call'[<<r, k>>] = "end"
      BY <3>1 DEF TypeOK
    <3>3. k \notin Keys
      BY <3>2 DEF NoFalseEnd
    <3>4. ReqOf(k) \notin Streamed \ closed
      BY <1>0, <2>1, <2>2 DEF TrueLengths, OutOfBound
    <3> QED  BY <1>1, <1>2, <3>1, <3>3, <3>4
  <2>3. CASE ~OutOfBound(k) /\ Available(k)
    BY <1>1, <1>2, <2>1, <2>3 DEF Iterate, Available
  <2>4. CASE ~OutOfBound(k) /\ ~Available(k)
    <3>1. /\ call' = [call EXCEPT ![<<r, k>>] = "waiting"]
          /\ done_event' = [done_event EXCEPT ![ReqOf(k)] = FALSE]
      BY <2>1, <2>4 DEF Iterate
    <3>2. \A j \in Ids : done_event'[j] <=> (done_event[j] /\ j # ReqOf(k))
      BY <3>1 DEF TypeOK
    <3>3. ~Complete(ReqOf(k))
      BY <1>1, <2>1, <2>4, IterateWaits
    <3> QED  BY <1>1, <1>2, <2>4, <3>1, <3>2, <3>3
  <2> QED  BY <2>2, <2>3, <2>4
<1> QED  BY <1>3, <1>4

-----------------------------------------------------------------------------
(* Every kind of step keeps the invariant.                                  *)

LEMMA AvailableIsWhole ==
  ASSUME RecvInv, OthersWhole, NEW k \in Keys, Available(k)
  PROVE  Transferred(k)
<1>1. CASE k \in Inter
  <2>1. Filled(k)
    BY <1>1, KeyFacts, PhaseFacts DEF RecvInv, BufferInv, Phases, Available
  <2> QED  BY <1>1, <2>1, TransferredShards DEF Filled
<1>2. CASE k \notin Inter
  BY <1>2 DEF OthersWhole, Available
<1> QED  BY <1>1, <1>2

LEMMA KeysOfIn == \A id : \A k \in KeysOf(id) : k \in Keys /\ ReqOf(k) = id
BY DEF KeysOf

LEMMA OthersWholeNext ==
  ASSUME RecvInv, Known, OthersWhole, [Next]_vars, NEW k \in Keys \ Inter
  PROVE  malloc_event'[k] = "none" /\ (chunk'[k] # "none" => Transferred(k)')
<1> USE DEF RecvInv, BufferInv
<1>1. malloc_event[k] = "none" /\ (chunk[k] # "none" => Transferred(k))
  BY DEF OthersWhole
<1>2. ASSUME NEW l \in Keys, NEW s \in Shards,
             \/ PrepareFirst(l, s) \/ PrepareLater(l, s) \/ RetryAllocate(l, s)
             \/ ResumeLater(l, s) \/ ShardReceived(l, s)
      PROVE  UNCHANGED <<malloc_event[k], chunk[k]>>
  <2>1. l \in Inter /\ l # k
    BY <1>2 DEF OthersAtOnce, Inter, PrepareFirst, PrepareLater, RetryAllocate,
                ResumeLater, ShardReceived
  <2> QED
    BY <1>2, <2>1 DEF TypeOK, memVars, PrepareFirst, PrepareLater, RetryAllocate,
                      ResumeLater, ShardReceived, Allocated, SleepForMemory
<1>3. ASSUME NEW l \in Keys, PrepareWhole(l)
      PROVE  UNCHANGED malloc_event[k] /\ (chunk'[k] = chunk[k] \/ (l = k /\ Transferred(k)'))
  <2>1. UNCHANGED malloc_event[k] /\ (l # k => chunk'[k] = chunk[k])
    BY <1>3 DEF TypeOK, PrepareWhole, memVars
  <2>2. Transferred(k)' <=> (k = l \/ Transferred(k))
    BY <1>3, WholeArrives DEF Arrives
  <2> QED  BY <2>1, <2>2
<1>4. ASSUME NEW l \in Keys, Marks(l)
      PROVE  UNCHANGED malloc_event[k] /\ chunk'[k] \in {chunk[k], "none"}
  BY <1>4 DEF TypeOK, Marks, MarkDone, Unlinked, UnlinkFails, FinishMark, DropEntry, memVars
<1>5. ASSUME \/ \E id \in Ids : CloseStream(id)
             \/ \E r \in Readers, l \in CallKeys : Reads(r, l)
             \/ UNCHANGED vars
      PROVE  UNCHANGED <<malloc_event[k], chunk[k]>>
  BY <1>5 DEF vars, memVars, CloseStream, Reads, Receive, ResumeReceive
<1>6. UNCHANGED malloc_event[k] /\ (chunk'[k] \in {chunk[k], "none"} \/ Transferred(k)')
  BY <1>2, <1>3, <1>4, <1>5
  DEF Next, Server, Senders, Consumers, Stop, Marks, Reads
<1>7. Transferred(k) => Transferred(k)'
  BY StepKinds, RestMovesNothing DEF Moves, Arrives
<1> QED  BY <1>1, <1>6, <1>7

(* A chunk still to come enters its request with the length that is known.  *)
LEMMA EnterKeeps ==
  ASSUME StreamInv, NEW k \in Keys, ~Transferred(k), EnterLedger(ReqOf(k)),
         UNCHANGED <<mark, closed>>
  PROVE  /\ TrueLengths' /\ Gone' /\ InLedger'
         /\ num_chunks'[ReqOf(k)] # -1
         /\ \A j \in Ids : num_chunks[j] # -1 => num_chunks'[j] # -1
         /\ ledger \subseteq ledger'
<1> USE DEF StreamInv, StreamParts, EndInv, RecvInv, BufferInv
<1> DEFINE id == ReqOf(k)
<1>1. id \in Ids /\ NumChunks[id] \in Nat \ {0} /\ Open(id)
  BY KeyFacts, NotYetOpen, ReceiverAssumption
<1>2. \A j \in Ids : num_chunks'[j] =
        IF j = id /\ num_chunks[id] = -1 THEN SentNumChunks(id) ELSE num_chunks[j]
  BY <1>1 DEF TypeOK, EnterLedger
<1>3. ledger' = ledger \cup {id}
  BY DEF EnterLedger
<1>4. SentNumChunks(id) = (IF id \in Streamed THEN 0 ELSE NumChunks[id]) /\ SentNumChunks(id) # -1
  BY <1>1 DEF SentNumChunks
<1>5. id \in closed => num_chunks[id] # -1
  BY <1>1 DEF Entered
<1>6. TrueLengths'
  <2> SUFFICES ASSUME NEW j \in Ids, num_chunks'[j] # -1
               PROVE  num_chunks'[j] = IF j \in Streamed \ closed THEN 0 ELSE NumChunks[j]
    BY DEF TrueLengths
  <2>1. CASE j = id /\ num_chunks[id] = -1
    BY <1>2, <1>4, <1>5, <2>1
  <2>2. CASE ~(j = id /\ num_chunks[id] = -1)
    BY <1>2, <2>2 DEF TrueLengths
  <2> QED  BY <2>1, <2>2
<1>7. Gone'
  BY <1>1, <1>3 DEF Gone, Open
<1>8. InLedger'
  BY <1>2, <1>3 DEF InLedger
<1> QED  BY <1>1, <1>2, <1>3, <1>4, <1>6, <1>7, <1>8

(* The reader that sleeps for another chunk goes on sleeping when the step  *)
(* sets the event of other requests only and makes no other chunk available.*)
LEMMA SameCleared ==
  ASSUME Cleared, NEW out \in SUBSET Ids,
         \A k \in Keys : ReqOf(k) \notin out /\ Available(k)' => Available(k),
         \A k \in Keys : ReqOf(k) \in out /\ Available(k)' => done_event'[ReqOf(k)],
         \A j \in Ids \ out : done_event[j] => done_event'[j],
         \A r \in Readers, k \in CallKeys :
           ReqOf(k) \notin out /\ call[<<r, k>>] = "waiting" => call'[<<r, k>>] = "waiting"
  PROVE  Cleared'
<1> SUFFICES ASSUME NEW k \in Keys, Available(k)', ~done_event'[ReqOf(k)]
             PROVE  \E r \in Readers, l \in CallKeys : SleepsElsewhere(r, l, ReqOf(k))'
  BY DEF Cleared
<1>1. ReqOf(k) \in Ids \ out /\ Available(k) /\ ~done_event[ReqOf(k)]
  BY KeyFacts
<1>2. PICK r \in Readers, l \in CallKeys : SleepsElsewhere(r, l, ReqOf(k))
  BY <1>1 DEF Cleared
<1>3. ReqOf(l) = ReqOf(k) /\ call'[<<r, l>>] = "waiting"
  BY <1>1, <1>2 DEF SleepsElsewhere
<1>4. ~Available(l)'
  <2>1. CASE l \in Keys
    BY <1>1, <1>2, <1>3, <2>1 DEF SleepsElsewhere
  <2>2. CASE l \notin Keys
    BY <2>2 DEF Available
  <2> QED  BY <2>1, <2>2
<1> QED  BY <1>3, <1>4 DEF SleepsElsewhere

LEMMA MovesKeep ==
  ASSUME StreamInv, Moves
  PROVE  StreamParts'
<1> USE DEF StreamInv, StreamParts
<1>1. \A k \in Keys : (Transferred(k)' <=> Transferred(k)) /\ (Available(k)' <=> Available(k))
  BY DEF Moves
<1>2. UNCHANGED <<done_event, call, mark, closed>>
  BY DEF Moves
<1>3. \A id : Open(id)' <=> Open(id)
  BY <1>2 DEF Open
<1>4. \A id : Complete(id)' <=> Complete(id)
  BY <1>1, <1>2, KeysOfIn DEF Complete
<1>5. /\ TrueLengths' /\ Gone' /\ InLedger'
      /\ \A j \in Ids : num_chunks[j] # -1 => num_chunks'[j] # -1
      /\ ledger \subseteq ledger'
  <2>1. CASE UNCHANGED <<ledger, num_chunks>>
    BY <1>2, <1>3, <2>1 DEF TrueLengths, Gone, InLedger
  <2>2. CASE \E k \in Keys : ~Transferred(k) /\ EnterLedger(ReqOf(k))
    BY <1>2, <2>2, EnterKeeps
  <2> QED  BY <2>1, <2>2 DEF Moves
<1>6. GotTransferred' /\ Kept' /\ NoneRefused'
  BY <1>1, <1>2 DEF GotTransferred, Kept, NoneRefused
<1>7. Entered'
  BY <1>1, <1>2, <1>3, <1>5, KeysOfIn DEF Entered
<1>8. EndTold' /\ ClosedBeforeLast'
  BY <1>2 DEF EndTold, ClosedBeforeLast
<1>9. EventSet'
  BY <1>2, <1>3, <1>4 DEF EventSet
<1>10. Sleepers'
  BY <1>1, <1>2, <1>5, KeysOfIn DEF Sleepers, StillToCome
<1>11. Cleared'
  BY <1>1, <1>2, SameCleared, {} \in SUBSET Ids
<1> QED  BY <1>5, <1>6, <1>7, <1>8, <1>9, <1>10, <1>11

LEMMA ArrivesKeep ==
  ASSUME StreamInv, NEW k \in Keys, Arrives(k)
  PROVE  StreamParts'
<1> USE DEF StreamInv, StreamParts
<1> DEFINE id == ReqOf(k)
<1>1. /\ id \in Ids /\ ~Transferred(k) /\ SetDone(id) /\ UNCHANGED <<mark, closed>>
      /\ \A l \in Keys : /\ Transferred(l)' <=> (l = k \/ Transferred(l))
                         /\ Available(l)' <=> (l = k \/ Available(l))
  BY KeyFacts DEF Arrives
<1>2. \A j : Open(j)' <=> Open(j)
  BY <1>1 DEF Open
<1>3. /\ TrueLengths' /\ Gone' /\ InLedger' /\ num_chunks'[id] # -1
      /\ \A j \in Ids : num_chunks[j] # -1 => num_chunks'[j] # -1
      /\ ledger \subseteq ledger'
  <2>1. CASE UNCHANGED <<ledger, num_chunks>> /\ num_chunks[id] # -1
    BY <1>1, <1>2, <2>1 DEF TrueLengths, Gone, InLedger
  <2>2. CASE EnterLedger(id)
    BY <1>1, <2>2, EnterKeeps
  <2> QED  BY <2>1, <2>2 DEF Arrives
<1>4. /\ \A r \in Readers, l \in CallKeys :
           /\ \A x \in {"got", "end"} : call'[<<r, l>>] = x <=> call[<<r, l>>] = x
           /\ call'[<<r, l>>] = "waiting" => call[<<r, l>>] = "waiting" /\ ReqOf(l) # id
      /\ \A j \in Ids : done_event'[j] <=> j = id \/ done_event[j]
  <2>1. \A j \in Ids : done_event'[j] <=> j = id \/ done_event[j]
    BY <1>1 DEF SetDone, EndInv, RecvInv, BufferInv, TypeOK
  <2> QED  BY <1>1, <2>1, SetDoneCalls
<1>5. GotTransferred' /\ Kept' /\ NoneRefused'
  BY <1>1, <1>4, KeyFacts DEF GotTransferred, Kept, NoneRefused
<1>6. Entered'
  <2> SUFFICES ASSUME NEW j \in Ids, Open(j), j \in closed \/ \E l \in KeysOf(j) : Transferred(l)'
               PROVE  num_chunks'[j] # -1
    BY <1>1, <1>2 DEF Entered
  <2>1. CASE j # id
    BY <1>1, <1>3, <2>1, KeysOfIn DEF Entered
  <2> QED  BY <1>3, <2>1
<1>7. EndTold' /\ ClosedBeforeLast'
  BY <1>1, <1>4, KeyFacts, ReceiverAssumption DEF EndTold, ClosedBeforeLast
<1>8. EventSet'
  <2> SUFFICES ASSUME NEW j \in Ids, Complete(j)', Open(j), j # id
               PROVE  done_event'[j]
    BY <1>2, <1>4 DEF EventSet
  <2>1. Complete(j)
    BY <1>1, KeysOfIn DEF Complete
  <2> QED  BY <1>4, <2>1 DEF EventSet
<1>9. Sleepers'
  <2> SUFFICES ASSUME NEW r \in Readers, NEW l \in CallKeys, call'[<<r, l>>] = "waiting"
               PROVE  /\ ReqOf(l) \in ledger' /\ ~done_event'[ReqOf(l)]
                      /\ \/ \E m \in KeysOf(ReqOf(l)) : ~Transferred(m)'
                         \/ ReqOf(l) \in Streamed \ closed
    BY <1>1 DEF Sleepers, StillToCome
  <2>1. call[<<r, l>>] = "waiting" /\ ReqOf(l) # id /\ ReqOf(l) \in Ids
    BY <1>4, KeyFacts
  <2>2. /\ ReqOf(l) \in ledger /\ ~done_event[ReqOf(l)]
        /\ \/ \E m \in KeysOf(ReqOf(l)) : ~Transferred(m)
           \/ ReqOf(l) \in Streamed \ closed
    BY <2>1 DEF Sleepers, StillToCome
  <2> QED  BY <1>1, <1>3, <1>4, <2>1, <2>2, KeysOfIn
<1>10. Cleared'
  <2>1. \A r \in Readers, l \in CallKeys :
          ReqOf(l) # id /\ call[<<r, l>>] = "waiting" => call'[<<r, l>>] = "waiting"
    BY <1>1 DEF SetDone
  <2>2. {id} \in SUBSET Ids /\ done_event'[id]
    BY <1>1, <1>4
  <2>3. \A l \in Keys : ReqOf(l) \notin {id} /\ Available(l)' => Available(l)
    BY <1>1
  <2>4. \A l \in Keys : ReqOf(l) \in {id} /\ Available(l)' => done_event'[ReqOf(l)]
    BY <2>2
  <2>5. \A j \in Ids \ {id} : done_event[j] => done_event'[j]
    BY <1>4
  <2>6. \A r \in Readers, l \in CallKeys :
          ReqOf(l) \notin {id} /\ call[<<r, l>>] = "waiting" => call'[<<r, l>>] = "waiting"
    BY <2>1
  <2>7. Cleared
    OBVIOUS
  <2> HIDE DEF id, StreamInv, StreamParts
  <2> QED  BY <2>2, <2>3, <2>4, <2>5, <2>6, <2>7, SameCleared
<1> QED  BY <1>3, <1>5, <1>6, <1>7, <1>8, <1>9, <1>10

LEMMA CloseKeeps ==
  ASSUME StreamInv, NEW id \in Ids, CloseStream(id)
  PROVE  StreamParts'
<1> USE DEF StreamInv, StreamParts
<1>1. /\ id \in Streamed \ closed /\ closed' = closed \cup {id} /\ ledger' = ledger \cup {id}
      /\ SetDone(id) /\ UNCHANGED <<chunk, mark>>
  BY DEF CloseStream
<1>2. /\ \A j \in Ids : num_chunks'[j] = IF j = id THEN NumChunks[id] ELSE num_chunks[j]
      /\ \A j \in Ids : done_event'[j] <=> j = id \/ done_event[j]
  BY DEF CloseStream, SetDone, EndInv, RecvInv, BufferInv, TypeOK
<1>3. NumChunks[id] \in Nat \ {0} /\ NumChunks[id] # -1
  BY ReceiverAssumption
<1>4. \A l \in Keys : (Transferred(l)' <=> Transferred(l)) /\ (Available(l)' <=> Available(l))
  BY <1>1, RestMovesNothing DEF Available
<1>5. \A r \in Readers, l \in CallKeys :
        /\ \A x \in {"got", "end"} : call'[<<r, l>>] = x <=> call[<<r, l>>] = x
        /\ call'[<<r, l>>] = "waiting" => call[<<r, l>>] = "waiting" /\ ReqOf(l) # id
  <2>1. ASSUME NEW r \in Readers, NEW l \in CallKeys
        PROVE  /\ \A x \in {"got", "end"} : call'[<<r, l>>] = x <=> call[<<r, l>>] = x
               /\ call'[<<r, l>>] = "waiting" => call[<<r, l>>] = "waiting" /\ ReqOf(l) # id
    BY <1>1 DEF SetDone
  <2> QED  BY <2>1
<1>6. \A j : Open(j)' <=> Open(j)
  BY <1>1 DEF Open
<1>7. Open(id)
  BY <1>1, KeysOfIn DEF Open, ClosedBeforeLast
<1>8. GotTransferred' /\ Kept' /\ NoneRefused'
  BY <1>1, <1>4, <1>5, KeyFacts DEF GotTransferred, Kept, NoneRefused
<1>9. TrueLengths' /\ InLedger' /\ Gone'
  BY <1>1, <1>2, <1>3, <1>6, <1>7 DEF TrueLengths, InLedger, Gone
<1>10. Entered'
  <2> SUFFICES ASSUME NEW j \in Ids, Open(j), j \in closed' \/ \E l \in KeysOf(j) : Transferred(l)'
               PROVE  num_chunks'[j] # -1
    BY <1>6 DEF Entered
  <2> QED  BY <1>1, <1>2, <1>3, <1>4, KeysOfIn DEF Entered
<1>11. EndTold' /\ ClosedBeforeLast'
  BY <1>1, <1>5, KeyFacts, ReceiverAssumption DEF EndTold, ClosedBeforeLast
<1>12. EventSet'
  <2> SUFFICES ASSUME NEW j \in Ids, Complete(j)', Open(j), j # id
               PROVE  done_event'[j]
    BY <1>2, <1>6 DEF EventSet
  <2>1. Complete(j)
    BY <1>1, <1>4, KeysOfIn DEF Complete
  <2> QED  BY <1>2, <2>1 DEF EventSet
<1>13. Sleepers'
  <2> SUFFICES ASSUME NEW r \in Readers, NEW l \in CallKeys, call'[<<r, l>>] = "waiting"
               PROVE  /\ ReqOf(l) \in ledger' /\ ~done_event'[ReqOf(l)]
                      /\ \/ \E m \in KeysOf(ReqOf(l)) : ~Transferred(m)'
                         \/ ReqOf(l) \in Streamed \ closed'
    BY DEF Sleepers, StillToCome
  <2>1. call[<<r, l>>] = "waiting" /\ ReqOf(l) # id /\ ReqOf(l) \in Ids
    BY <1>5, KeyFacts
  <2>2. /\ ReqOf(l) \in ledger /\ ~done_event[ReqOf(l)]
        /\ \/ \E m \in KeysOf(ReqOf(l)) : ~Transferred(m)
           \/ ReqOf(l) \in Streamed \ closed
    BY <2>1 DEF Sleepers, StillToCome
  <2> QED  BY <1>1, <1>2, <1>4, <2>1, <2>2, KeysOfIn
<1>14. Cleared'
  <2>1. \A r \in Readers, l \in CallKeys :
          ReqOf(l) # id /\ call[<<r, l>>] = "waiting" => call'[<<r, l>>] = "waiting"
    BY <1>1 DEF SetDone
  <2>2. {id} \in SUBSET Ids /\ done_event'[id]
    BY <1>2
  <2>3. \A j \in Ids \ {id} : done_event[j] => done_event'[j]
    BY <1>2
  <2>4. \A l \in Keys : ReqOf(l) \in {id} /\ Available(l)' => done_event'[ReqOf(l)]
    BY <2>2
  <2>5. Cleared
    OBVIOUS
  <2>6. \A l \in Keys : ReqOf(l) \notin {id} /\ Available(l)' => Available(l)
    BY <1>4
  <2>7. \A r \in Readers, l \in CallKeys :
          ReqOf(l) \notin {id} /\ call[<<r, l>>] = "waiting" => call'[<<r, l>>] = "waiting"
    BY <2>1
  <2> HIDE DEF StreamInv, StreamParts
  <2> QED  BY <2>2, <2>3, <2>4, <2>5, <2>6, <2>7, SameCleared
<1> QED  BY <1>8, <1>9, <1>10, <1>11, <1>12, <1>13, <1>14

LEMMA ReadsKeep ==
  ASSUME StreamInv, NoFalseEnd', NEW r \in Readers, NEW k \in CallKeys, Reads(r, k)
  PROVE  StreamParts'
<1> USE DEF StreamInv, StreamParts
<1> DEFINE id == ReqOf(k)
<1>0. call[<<r, k>>] \in {"idle", "woken"}
  BY ReadOutcome
<1>1. /\ id \in Ids /\ Open(id)
      /\ UNCHANGED <<num_chunks, chunk, mark, closed>>
      /\ ledger' = ledger \/ ledger' = ledger \cup {id}
      /\ id \in ledger'
  BY ReadOutcome, KeyFacts
<1>2. PICK x \in {"waiting", "got", "end"} :
        /\ call' = [call EXCEPT ![<<r, k>>] = x]
        /\ x # "waiting" => UNCHANGED done_event
        /\ x = "waiting" => /\ \A j \in Ids : done_event'[j] <=> (done_event[j] /\ j # id)
                            /\ ~Complete(id)
                            /\ Available(k) => ~done_event[id]
        /\ x = "got" => k \in Keys /\ Available(k)
        /\ x = "end" => k = EndKey(id) /\ r = Leader /\ id \notin Streamed \ closed
  BY ReadOutcome
<1>3. \A q \in Readers, l \in CallKeys :
        call'[<<q, l>>] = IF q = r /\ l = k THEN x ELSE call[<<q, l>>]
  BY <1>2 DEF EndInv, RecvInv, BufferInv, TypeOK
<1>4. \A l \in Keys : (Transferred(l)' <=> Transferred(l)) /\ (Available(l)' <=> Available(l))
  BY <1>1, RestMovesNothing DEF Available
<1>5. \A j : (Open(j)' <=> Open(j)) /\ (Complete(j)' <=> Complete(j))
  BY <1>1, <1>4, KeysOfIn DEF Open, Complete
<1>6. GotTransferred'
  <2> SUFFICES ASSUME NEW q \in Readers, NEW l \in Keys, call'[<<q, l>>] = "got"
               PROVE  Transferred(l)
    BY <1>4 DEF GotTransferred
  <2>1. CASE q = r /\ l = k
    <3>1. Available(l)
      BY <1>2, <1>3, <2>1, KeyFacts
    <3> QED  BY <3>1, AvailableIsWhole DEF EndInv
  <2>2. CASE ~(q = r /\ l = k)
    BY <1>3, <2>2, KeyFacts DEF GotTransferred
  <2> QED  BY <2>1, <2>2
<1>7. Kept' /\ NoneRefused' /\ TrueLengths' /\ ClosedBeforeLast'
  BY <1>1, <1>4 DEF Kept, NoneRefused, TrueLengths, ClosedBeforeLast
<1>8. Entered'
  BY <1>1, <1>4, <1>5, KeysOfIn DEF Entered
<1>9. EndTold'
  <2> SUFFICES ASSUME NEW j \in Ids, call'[<<Leader, EndKey(j)>>] = "end"
               PROVE  j \notin Streamed \ closed
    BY <1>1 DEF EndTold
  <2>1. EndKey(j) \in CallKeys /\ Leader \in Readers /\ ReqOf(EndKey(j)) = j
    BY KeyFacts, ReceiverAssumption
  <2>2. CASE r = Leader /\ k = EndKey(j)
    BY <1>2, <1>3, <2>1, <2>2
  <2>3. CASE ~(r = Leader /\ k = EndKey(j))
    BY <1>3, <2>1, <2>3 DEF EndTold
  <2> QED  BY <2>2, <2>3
<1>10. InLedger' /\ Gone'
  BY <1>1, <1>5 DEF InLedger, Gone
<1>11. EventSet'
  BY <1>2, <1>5 DEF EventSet
<1>12. Sleepers'
  <2> SUFFICES ASSUME NEW q \in Readers, NEW l \in CallKeys, call'[<<q, l>>] = "waiting"
               PROVE  /\ ReqOf(l) \in ledger' /\ ~done_event'[ReqOf(l)]
                      /\ ~Complete(ReqOf(l))
    BY <1>5 DEF Sleepers, StillToCome, Complete
  <2>1. ReqOf(l) \in Ids
    BY KeyFacts
  <2>2. CASE q = r /\ l = k
    BY <1>1, <1>2, <1>3, <2>2
  <2>3. CASE ~(q = r /\ l = k)
    <3>1. /\ ReqOf(l) \in ledger /\ ~done_event[ReqOf(l)]
          /\ ~Complete(ReqOf(l))
      BY <1>3, <2>3 DEF Sleepers, StillToCome, Complete
    <3> QED  BY <1>1, <1>2, <2>1, <3>1
  <2> QED  BY <2>2, <2>3
<1>13. Cleared'
  <2> SUFFICES ASSUME NEW m \in Keys, Available(m), ~done_event'[ReqOf(m)]
               PROVE  \E q \in Readers, l \in CallKeys : SleepsElsewhere(q, l, ReqOf(m))'
    BY <1>4 DEF Cleared
  <2>1. ReqOf(m) \in Ids
    BY KeyFacts
  <2>2. CASE ReqOf(m) = id /\ x = "waiting" /\ ~Available(k)
    (* the reader itself sleeps for another chunk *)
    <3>1. call'[<<r, k>>] = "waiting" /\ ReqOf(k) = ReqOf(m)
      BY <1>3, <2>2
    <3>2. ~Available(k)'
      BY <1>1, <2>2 DEF Available
    <3>3. SleepsElsewhere(r, k, ReqOf(m))'
      BY <3>1, <3>2 DEF SleepsElsewhere
    <3> QED  BY <3>3
  <2>3. CASE ~(ReqOf(m) = id /\ x = "waiting" /\ ~Available(k))
    <3>1. ~done_event[ReqOf(m)]
      BY <1>2, <2>1, <2>3
    <3>2. PICK q \in Readers, l \in CallKeys : SleepsElsewhere(q, l, ReqOf(m))
      BY <3>1 DEF Cleared
    <3>3. <<q, l>> # <<r, k>>
      BY <1>0, <3>2 DEF SleepsElsewhere
    <3>4. call'[<<q, l>>] = "waiting" /\ ReqOf(l) = ReqOf(m)
      BY <1>3, <3>2, <3>3 DEF SleepsElsewhere
    <3>5. ~Available(l)'
      BY <1>1, <3>2 DEF SleepsElsewhere, Available
    <3>6. SleepsElsewhere(q, l, ReqOf(m))'
      BY <3>4, <3>5 DEF SleepsElsewhere
    <3> QED  BY <3>6
  <2> QED  BY <2>2, <2>3
<1> QED  BY <1>6, <1>7, <1>8, <1>9, <1>10, <1>11, <1>12, <1>13

(* The outcome of a step of MarkDone: it is never refused, and the entry is *)
(* dropped with the last chunk and with no other.                           *)
LEMMA MarkOutcome ==
  ASSUME Sequential, StreamInv, NEW k \in Keys, Marks(k)
  PROVE  /\ \A r \in Readers, l \in Before(k) \cup {k} : call[<<r, l>>] = "got"
         /\ \A l \in Before(k) : mark[l] \in {"done", "failed"}
         /\ mark[k] \in {"no", "unlinking"} /\ UNCHANGED <<call, closed>>
         /\ IsLast(k) => ReqOf(k) \notin Streamed \ closed
         /\ IsLast(k) => call[<<Leader, EndKey(ReqOf(k))>>] \in {"idle", "end"}
         /\ \/ /\ \E m \in {"unlinking", "failed"} : mark' = [mark EXCEPT ![k] = m]
               /\ UNCHANGED <<ledger, num_chunks, done_event, chunk>>
            \/ /\ mark' = [mark EXCEPT ![k] = "done"]
               /\ IsLast(k) /\ DropEntry(ReqOf(k))
            \/ /\ mark' = [mark EXCEPT ![k] = "done"]
               /\ ~IsLast(k)
               /\ UNCHANGED <<ledger, num_chunks, done_event>>
               /\ \A l \in Keys \ {k} : chunk'[l] = chunk[l]
<1> USE DEF StreamInv, StreamParts, EndInv, RecvInv, BufferInv
<1>0. ReqOf(k) \in Ids /\ Leader \in Readers /\ EndKey(ReqOf(k)) \in CallKeys
      /\ k \in KeysOf(ReqOf(k))
  BY KeyFacts, ReceiverAssumption
<1>1. /\ \A r \in Readers, l \in Before(k) \cup {k} : call[<<r, l>>] = "got"
      /\ \A l \in Before(k) : mark[l] \in {"done", "failed"}
      /\ mark[k] \in {"no", "unlinking"} /\ UNCHANGED <<call, closed>>
  BY DEF Marks, MarkDone, MayMark, Unlinked, UnlinkFails, Marked, InOrder
<1>2. IsLast(k) => /\ ReqOf(k) \notin Streamed \ closed
                   /\ call[<<Leader, EndKey(ReqOf(k))>>] \in {"idle", "end"}
  <2>1. CASE MarkDone(k)
    BY <1>0, <2>1 DEF MarkDone, MayMark, EndTold
  <2>2. CASE Unlinked(k) \/ UnlinkFails(k)
    BY <2>2 DEF Unlinked, UnlinkFails, ClosedBeforeLast, EndCalls
  <2> QED  BY <2>1, <2>2 DEF Marks
<1>3. chunk[k] # "none"
  BY <1>0, <1>1 DEF GotTransferred, Kept, Available
<1>4. IsLast(k) <=> LastOfEntry(k)
  <2>1. LastOfEntry(k) => IsLast(k)
    BY LastIsLast
  <2>2. ASSUME IsLast(k) PROVE LastOfEntry(k)
    <3>1. Open(ReqOf(k))
      <4> SUFFICES ASSUME NEW l \in KeysOf(ReqOf(k)), IsLast(l) PROVE mark[l] # "done"
        BY DEF Open
      <4> QED  BY <1>1, <2>2, OneLast, KeysOfIn
    <3>2. Transferred(k)
      BY <1>0, <1>1 DEF GotTransferred
    <3>3. num_chunks[ReqOf(k)] # -1
      BY <1>0, <3>1, <3>2 DEF Entered
    <3>4. num_chunks[ReqOf(k)] = NumChunks[ReqOf(k)]
      BY <1>0, <1>2, <2>2, <3>3 DEF TrueLengths
    <3> QED  BY <2>2, <3>4 DEF LastOfEntry, IsLast
  <2> QED  BY <2>1, <2>2
<1>5. CASE FinishMark(k)
  <2>1. mark' = [mark EXCEPT ![k] = "done"]
    BY <1>5 DEF FinishMark
  <2>2. CASE IsLast(k)
    BY <1>1, <1>2, <1>4, <1>5, <2>1, <2>2 DEF FinishMark
  <2>3. CASE ~IsLast(k)
    <3>1. UNCHANGED <<ledger, num_chunks, done_event>>
          /\ \A l \in Keys \ {k} : chunk'[l] = chunk[l]
      BY <1>4, <1>5, <2>3 DEF FinishMark, KeepEntry, TypeOK
    <3> QED  BY <1>1, <2>1, <2>3, <3>1
  <2> QED  BY <2>2, <2>3
<1>6. CASE ~FinishMark(k)
  <2>1. /\ \E m \in {"unlinking", "failed"} : mark' = [mark EXCEPT ![k] = m]
        /\ UNCHANGED <<ledger, num_chunks, done_event, chunk>>
    BY <1>3, <1>6 DEF Marks, MarkDone, Unlinked, UnlinkFails, KeepEntry
  <2> QED  BY <1>1, <1>2, <2>1
<1> QED  BY <1>5, <1>6

LEMMA MarksKeep ==
  ASSUME Sequential, StreamInv, NEW k \in Keys, Marks(k)
  PROVE  StreamParts'
<1> USE DEF StreamInv, StreamParts
<1> DEFINE id == ReqOf(k)
<1>1. /\ \A r \in Readers, l \in Before(k) \cup {k} : call[<<r, l>>] = "got"
      /\ \A l \in Before(k) : mark[l] \in {"done", "failed"}
      /\ mark[k] \in {"no", "unlinking"} /\ UNCHANGED <<call, closed>>
      /\ IsLast(k) => id \notin Streamed \ closed
      /\ IsLast(k) => call[<<Leader, EndKey(id)>>] \in {"idle", "end"}
  BY MarkOutcome
<1>2. \A l \in Keys : Transferred(l)' <=> Transferred(l)
  BY RestMovesNothing
<1>3. \A j : Complete(j)' <=> Complete(j)
  BY <1>1, <1>2, KeysOfIn DEF Complete
<1>4. PICK m \in {"unlinking", "done", "failed"} :
        /\ mark' = [mark EXCEPT ![k] = m]
        /\ \/ /\ m \in {"unlinking", "failed"}
              /\ UNCHANGED <<ledger, num_chunks, done_event, chunk>>
           \/ m = "done" /\ IsLast(k) /\ DropEntry(id)
           \/ /\ m = "done" /\ ~IsLast(k)
              /\ UNCHANGED <<ledger, num_chunks, done_event>>
              /\ \A l \in Keys \ {k} : chunk'[l] = chunk[l]
  BY MarkOutcome
<1>5. \A l \in Keys : mark'[l] = IF l = k THEN m ELSE mark[l]
  BY <1>4 DEF EndInv, RecvInv, BufferInv, TypeOK
<1>6. /\ k \in KeysOf(id) /\ id \in Ids
      /\ \A j : Open(j)' => Open(j)
      /\ \A j : Open(j) /\ ~Open(j)' => j = id /\ m = "done" /\ IsLast(k)
  BY <1>1, <1>5, KeyFacts, KeysOfIn DEF Open
<1>7. GotTransferred' /\ EndTold' /\ NoneRefused'
  BY <1>1, <1>2, <1>5 DEF GotTransferred, EndTold, NoneRefused
<1>8. ClosedBeforeLast'
  BY <1>1, <1>5 DEF ClosedBeforeLast
<1>9. CASE m = "done" /\ IsLast(k) /\ DropEntry(id)
  <2>1. /\ ledger' = ledger \ {id}
        /\ \A j \in Ids : num_chunks'[j] = IF j = id THEN -1 ELSE num_chunks[j]
        /\ \A j \in Ids : done_event'[j] <=> (j # id /\ done_event[j])
        /\ \A l \in Keys : ReqOf(l) # id => chunk'[l] = chunk[l]
    BY <1>9 DEF DropEntry, EndInv, RecvInv, BufferInv, TypeOK
  <2>2. ~Open(id)'
    BY <1>5, <1>6, <1>9, KeyFacts DEF Open
  <2>3. Kept'
    <3> SUFFICES ASSUME NEW l \in Keys, Transferred(l)', mark'[l] \notin {"done", "failed"}
                 PROVE  Available(l)'
      BY DEF Kept
    <3>1. ReqOf(l) # id
      BY <1>1, <1>5, <1>9, BeforeLast
    <3>2. Available(l)
      BY <1>2, <1>5, <1>9, <3>1 DEF Kept
    <3> QED  BY <2>1, <3>1, <3>2 DEF Available
  <2>4. TrueLengths' /\ InLedger'
    BY <1>1, <2>1 DEF TrueLengths, InLedger
  <2>5. Entered'
    <3> SUFFICES ASSUME NEW j \in Ids, Open(j)', j \in closed \/ \E l \in KeysOf(j) : Transferred(l)'
                 PROVE  num_chunks'[j] # -1
      BY <1>1 DEF Entered
    <3>1. j # id /\ Open(j)
      BY <1>6, <2>2
    <3> QED  BY <1>2, <2>1, <3>1, KeysOfIn DEF Entered
  <2>6. Gone'
    BY <1>6, <2>1 DEF Gone
  <2>7. EventSet'
    <3> SUFFICES ASSUME NEW j \in Ids, Complete(j), Open(j)' PROVE done_event'[j]
      BY <1>3 DEF EventSet
    <3>1. j # id /\ Open(j)
      BY <1>6, <2>2
    <3> QED  BY <2>1, <3>1 DEF EventSet
  <2>8. Sleepers'
    <3> SUFFICES ASSUME NEW r \in Readers, NEW l \in CallKeys, call[<<r, l>>] = "waiting"
                 PROVE  /\ ReqOf(l) \in ledger' /\ ~done_event'[ReqOf(l)]
                        /\ ~Complete(ReqOf(l))
      BY <1>1, <1>3 DEF Sleepers, StillToCome, Complete
    <3>1. /\ ReqOf(l) \in ledger /\ ~done_event[ReqOf(l)] /\ ~Complete(ReqOf(l))
          /\ ReqOf(l) \in Ids
      BY KeyFacts DEF Sleepers, StillToCome, Complete
    <3>2. ReqOf(l) # id
      <4>1. CASE l \in Keys
        <5>1. ReqOf(l) = id => l \in Before(k) \cup {k}
          BY <1>9, <4>1, BeforeLast
        <5> QED  BY <1>1, <5>1
      <4>2. CASE l \notin Keys
        <5>1. ReqOf(l) = id => l = EndKey(id)
          BY <4>2, KeyFacts
        <5>2. r # Leader => call[<<r, EndKey(id)>>] = "idle"
          BY <1>6 DEF EndInv, EndCalls
        <5> QED  BY <1>1, <1>9, <5>1, <5>2
      <4> QED  BY <4>1, <4>2
    <3> QED  BY <2>1, <3>1, <3>2
  <2>9. Cleared'
    <3>1. \A l \in Keys : (ReqOf(l) # id /\ Available(l)' => Available(l)) /\ (ReqOf(l) = id => ~Available(l)')
      BY <1>9, <2>1 DEF Available, DropEntry
    <3>2. {id} \in SUBSET Ids
      BY <1>6
    <3> QED  BY <1>1, <2>1, <3>1, <3>2, SameCleared
  <2> QED  BY <1>7, <1>8, <2>3, <2>4, <2>5, <2>6, <2>7, <2>8, <2>9
<1>10. CASE /\ ~(m = "done" /\ IsLast(k))
            /\ UNCHANGED <<ledger, num_chunks, done_event>>
            /\ \A l \in Keys \ {k} : chunk'[l] = chunk[l]
            /\ m # "done" => UNCHANGED chunk
  <2>1. \A j : Open(j)' <=> Open(j)
    BY <1>6, <1>10
  <2>2. Kept'
    <3> SUFFICES ASSUME NEW l \in Keys, Transferred(l)', mark'[l] \notin {"done", "failed"}
                 PROVE  Available(l)'
      BY DEF Kept
    <3>1. Available(l) /\ chunk'[l] = chunk[l]
      BY <1>1, <1>2, <1>5, <1>10 DEF Kept
    <3> QED  BY <3>1 DEF Available
  <2>3. TrueLengths' /\ InLedger' /\ Gone' /\ EventSet'
    BY <1>1, <1>3, <1>10, <2>1 DEF TrueLengths, InLedger, Gone, EventSet
  <2>4. Entered'
    BY <1>1, <1>2, <1>10, <2>1, KeysOfIn DEF Entered
  <2>5. Sleepers'
    BY <1>1, <1>2, <1>10, KeysOfIn DEF Sleepers, StillToCome
  <2>6. Cleared'
    <3>1. \A l \in Keys : Available(l)' => Available(l)
      <4>1. Available(k)
        BY <1>1, KeyFacts DEF Kept, GotTransferred
      <4> QED  BY <1>10, <4>1 DEF Available
    <3> QED  BY <1>1, <1>10, <3>1, SameCleared, {} \in SUBSET Ids
  <2> QED  BY <1>7, <1>8, <2>2, <2>3, <2>4, <2>5, <2>6
<1> QED  BY <1>4, <1>9, <1>10

LEMMA StreamInvInit == Init => StreamInv
<1> SUFFICES ASSUME Init PROVE StreamInv
  OBVIOUS
<1>1. /\ \A k \in Keys : mark[k] = "no" /\ chunk[k] = "none" /\ malloc_event[k] = "none"
      /\ \A r \in Readers, k \in CallKeys : call[<<r, k>>] = "idle"
      /\ \A id \in Ids : num_chunks[id] = -1
      /\ closed = {}
  BY DEF Init
<1>2. \A k \in Keys : ~Transferred(k)
  BY KeyFacts DEF Init, Transferred
<1>3. InOrder /\ OthersWhole
  BY <1>1, HeldInvInit DEF HeldInv, OthersWhole
<1>4. GotTransferred /\ Kept /\ NoneRefused
  BY <1>1, <1>2, KeyFacts DEF GotTransferred, Kept, NoneRefused
<1>5. TrueLengths /\ Entered /\ InLedger
  BY <1>1, <1>2, KeysOfIn DEF TrueLengths, Entered, InLedger
<1>6. EndTold /\ ClosedBeforeLast
  BY <1>1, KeyFacts, ReceiverAssumption DEF EndTold, ClosedBeforeLast
<1>7. Gone /\ Sleepers /\ Cleared
  BY <1>1, KeysOfIn DEF Gone, Open, Sleepers, Cleared, Available
<1>8. EventSet
  BY <1>2, LastKey, KeysOfIn DEF EventSet, Complete
<1> QED  BY <1>3, <1>4, <1>5, <1>6, <1>7, <1>8, EndInvInit DEF StreamInv, StreamParts

LEMMA StreamInvNext ==
  ASSUME Sequential, StreamInv, [Next]_vars
  PROVE  StreamInv'
<1>1. EndInv'
  BY EndInvNext DEF StreamInv
<1>2. InOrder'
  BY InOrderNext DEF StreamInv, EndInv, RecvInv, BufferInv
<1>3. OthersWhole'
  BY OthersWholeNext DEF StreamInv, EndInv, OthersWhole, Inter
<1>4. StreamParts'
  <2>1. NoFalseEnd'
    BY <1>1 DEF EndInv
  <2> QED
    BY <2>1, StepKinds, MovesKeep, ArrivesKeep, CloseKeeps, ReadsKeep, MarksKeep
    DEF StreamInv, EndInv
<1> QED  BY <1>1, <1>2, <1>3, <1>4 DEF StreamInv

(* No Receive sleeps on an event that nobody will set: while one sleeps a   *)
(* chunk or the end of its stream is still to come, however the clear() of  *)
(* one reader and the set() of another handler race (receiver.py:297-354).  *)
(* It does not say that a reader is woken for its own chunk: it may sleep   *)
(* beside it, but then some reader sleeps for a chunk that is not there.    *)
THEOREM SleepersAreWoken ==
  ASSUME Sequential
  PROVE  Spec => []NoneSleepsForGood
<1>1. StreamInv => NoneSleepsForGood
  BY SleepersAndCleared DEF StreamInv, StreamParts
<1>2. StreamInv /\ [Next]_vars => StreamInv'
  BY StreamInvNext
<1> QED  BY <1>1, <1>2, StreamInvInit, PTL DEF Spec

(* A request whose MarkDone calls have returned leaves no entry and no      *)
(* malloc event behind, unless the Unlink of its last chunk has failed, and *)
(* no slot is in use once all have returned: the server forgets what it has *)
(* served (receiver.py:367-421).                                            *)
THEOREM EverythingForgotten ==
  ASSUME Sequential
  PROVE  Spec => []NothingLeft
<1>1. StreamInv /\ HeldInv => NothingLeft
  <2> SUFFICES ASSUME StreamInv, HeldInv PROVE NothingLeft
    OBVIOUS
  <2> USE DEF StreamInv, StreamParts, EndInv
  <2>1. \A k \in Keys : mark[k] # "refused"
    BY DEF NoneRefused
  <2>2. ASSUME NEW id \in Ids, \A k \in KeysOf(id) : mark[k] \in Returned, ~LastFailed(id)
        PROVE  id \notin ledger /\ \A k \in KeysOf(id) : malloc_event[k] = "none"
    <3>1. ~Open(id)
      BY <2>1, <2>2, LastKey, KeysOfIn DEF Open, Returned, LastFailed
    <3>2. ASSUME NEW k \in KeysOf(id) PROVE malloc_event[k] = "none"
      <4>1. k \in Keys /\ mark[k] # "no"
        BY <2>2, KeysOfIn DEF Returned
      <4>2. Transferred(k)
        BY <4>1, ReceiverAssumption DEF RecvInv, BufferInv, Marked, GotTransferred
      <4>3. CASE k \in Inter
        BY <4>1, <4>2, <4>3, TransferredShards, KeyFacts
        DEF RecvInv, BufferInv, Phases, Phase, Untouched, Allocating, Filling, Filled, Whole
      <4>4. CASE k \notin Inter
        BY <4>1, <4>4 DEF OthersWhole
      <4> QED  BY <4>3, <4>4
    <3> QED  BY <3>1, <3>2 DEF Gone
  <2>3. ASSUME \A k \in Keys : mark[k] \in Returned
        PROVE  occupancy = {}
    <3>1. Held = {}
      BY <2>1, <2>3 DEF Held, HeldInv, UnlinkedElsewhere, Inter, Returned
    <3> QED  BY <3>1 DEF HeldInv, SlotsHeldOnce
  <2> QED  BY <2>2, <2>3 DEF NothingLeft
<1>2. StreamInv /\ [Next]_vars => StreamInv'
  BY StreamInvNext
<1>3. HeldInv /\ [Next]_vars => HeldInv'
  BY HeldInvNext
<1> QED  BY <1>1, <1>2, <1>3, StreamInvInit, HeldInvInit, PTL DEF Spec

-----------------------------------------------------------------------------
(* The receiver implements the store of its clients' view.                  *)

Published == { k \in Keys : Transferred(k) }
Ended == (Ids \ Streamed) \cup closed
Taken == [r \in Readers |-> { k \in Keys : call[<<r, k>>] = "got" }]
Told == { id \in Ids : call[<<Leader, EndKey(id)>>] = "end" }
Released == { k \in Keys : mark[k] \in {"done", "failed"} }

LEMMA StoreStutter ==
  ASSUME UNCHANGED <<Published, Ended, Taken, Told, Released>>
  PROVE  UNCHANGED Store!storeVars
BY DEF Store!storeVars, Published, Ended, Taken, Told, Released

(* Calls that neither return a chunk nor tell an end are not seen.          *)
LEMMA SameCalls ==
  ASSUME \A r \in Readers, k \in CallKeys :
           \A x \in {"got", "end"} : call'[<<r, k>>] = x <=> call[<<r, k>>] = x
  PROVE  UNCHANGED <<Taken, Told>>
<1>1. \A r \in Readers, k \in Keys : call'[<<r, k>>] = "got" <=> call[<<r, k>>] = "got"
  BY KeyFacts
<1>2. \A id \in Ids : call'[<<Leader, EndKey(id)>>] = "end" <=> call[<<Leader, EndKey(id)>>] = "end"
  BY KeyFacts, ReceiverAssumption
<1> QED  BY <1>1, <1>2 DEF Taken, Told

LEMMA MovesAreHidden ==
  ASSUME Moves
  PROVE  UNCHANGED Store!storeVars
<1>1. UNCHANGED <<Taken, Told>>
  BY DEF Moves, Taken, Told
<1>2. UNCHANGED <<Published, Ended, Released>>
  BY DEF Moves, Published, Ended, Released
<1> QED  BY <1>1, <1>2, StoreStutter

LEMMA ArrivalsPublish ==
  ASSUME NEW k \in Keys, Arrives(k)
  PROVE  Store!Publish(k)
<1>1. UNCHANGED <<Taken, Told>>
  BY SameCalls, SetDoneCalls, KeyFacts DEF Arrives
<1>2. UNCHANGED <<Ended, Released>>
  BY DEF Arrives, Ended, Released
<1>3. k \notin Published /\ Published' = Published \cup {k}
  BY DEF Arrives, Published
<1> QED  BY <1>1, <1>2, <1>3 DEF Store!Publish, Published, Ended, Taken, Told, Released

LEMMA ClosingEnds ==
  ASSUME NEW id \in Ids, CloseStream(id)
  PROVE  Store!End(id)
<1>1. UNCHANGED <<Taken, Told>>
  BY SameCalls, SetDoneCalls DEF CloseStream
<1>2. UNCHANGED Published
  BY RestMovesNothing DEF Published
<1>3. Ended' = Ended \cup {id} /\ UNCHANGED Released
  BY DEF CloseStream, Ended, Released
<1> QED  BY <1>1, <1>2, <1>3 DEF Store!End, Published, Ended, Taken, Told, Released

LEMMA ReadsTake ==
  ASSUME StreamInv, NoFalseEnd', NEW r \in Readers, NEW k \in CallKeys, Reads(r, k)
  PROVE  \/ k \in Keys /\ Store!Take(r, k)
         \/ Store!Tell(ReqOf(k))
         \/ UNCHANGED Store!storeVars
<1>1. UNCHANGED Published
  BY RestMovesNothing DEF Published
<1>2. UNCHANGED <<Ended, Released>>
  <2>1. UNCHANGED <<num_chunks, chunk, mark, closed>>
    BY ReadOutcome
  <2> QED  BY <2>1 DEF Ended, Released
<1>3. /\ k \in Keys => mark[k] = "no"
      /\ call[<<r, k>>] \in {"idle", "woken"} /\ ReqOf(k) \in Ids
  BY ReadOutcome, KeyFacts
<1>4. PICK x \in {"waiting", "got", "end"} :
        /\ call' = [call EXCEPT ![<<r, k>>] = x]
        /\ x = "got" => k \in Keys /\ Available(k)
        /\ x = "end" => k = EndKey(ReqOf(k)) /\ r = Leader /\ ReqOf(k) \notin Streamed \ closed
  BY ReadOutcome
<1>5. \A q \in Readers, l \in CallKeys :
        call'[<<q, l>>] = IF q = r /\ l = k THEN x ELSE call[<<q, l>>]
  BY <1>4 DEF StreamInv, EndInv, RecvInv, BufferInv, TypeOK
<1>6. CASE x = "waiting"
  <2>1. UNCHANGED <<Taken, Told>>
    BY <1>3, <1>5, <1>6, SameCalls
  <2> QED  BY <1>1, <1>2, <2>1, StoreStutter
<1>7. CASE x = "got"
  <2>1. k \in Published \ Released
    BY <1>3, <1>4, <1>7, AvailableIsWhole DEF StreamInv, EndInv, Published, Released
  <2>2. Taken' = [Taken EXCEPT ![r] = @ \cup {k}]
    <3>1. ASSUME NEW q \in Readers
          PROVE  { l \in Keys : call'[<<q, l>>] = "got" }
                   = IF q = r THEN { l \in Keys : call[<<q, l>>] = "got" } \cup {k}
                     ELSE { l \in Keys : call[<<q, l>>] = "got" }
      BY <1>4, <1>5, <1>7, KeyFacts
    <3> QED  BY <3>1 DEF Taken
  <2>3. UNCHANGED Told
    <3>1. \A id \in Ids : EndKey(id) # k /\ EndKey(id) \in CallKeys
      BY <1>4, <1>7, KeyFacts
    <3> QED  BY <1>5, <3>1, ReceiverAssumption DEF Told
  <2> QED  BY <1>1, <1>2, <1>4, <1>7, <2>1, <2>2, <2>3
           DEF Store!Take, Published, Ended, Taken, Told, Released
<1>8. CASE x = "end"
  <2>1. ReqOf(k) \in Ended
    BY <1>3, <1>4, <1>8 DEF Ended
  <2>2. k \notin Keys /\ k = EndKey(ReqOf(k))
    BY <1>3, <1>4, <1>8, KeyFacts
  <2>3. UNCHANGED Taken
    BY <1>5, <2>2, KeyFacts DEF Taken
  <2>4. Told' = Told \cup {ReqOf(k)}
    <3>1. \A id \in Ids : EndKey(id) = k <=> id = ReqOf(k)
      BY <2>2, KeyFacts
    <3>2. \A id \in Ids : call'[<<Leader, EndKey(id)>>] =
            IF id = ReqOf(k) THEN "end" ELSE call[<<Leader, EndKey(id)>>]
      BY <1>4, <1>5, <1>8, <3>1, KeyFacts
    <3> QED  BY <1>3, <3>2 DEF Told
  <2> QED  BY <1>1, <1>2, <2>1, <2>3, <2>4
           DEF Store!Tell, Published, Ended, Taken, Told, Released
<1> QED  BY <1>6, <1>7, <1>8

LEMMA MarksRelease ==
  ASSUME Sequential, StreamInv, NEW k \in Keys, Marks(k)
  PROVE  Store!Release(k) \/ UNCHANGED Store!storeVars
<1>1. UNCHANGED Published
  BY RestMovesNothing DEF Published
<1>2. /\ \A r \in Readers : call[<<r, k>>] = "got"
      /\ \A l \in Before(k) : mark[l] \in {"done", "failed"}
      /\ mark[k] \in {"no", "unlinking"} /\ UNCHANGED <<call, closed>>
  <2>1. \A r \in Readers, l \in Before(k) \cup {k} : call[<<r, l>>] = "got"
    BY MarkOutcome
  <2>2. /\ \A l \in Before(k) : mark[l] \in {"done", "failed"}
        /\ mark[k] \in {"no", "unlinking"} /\ UNCHANGED <<call, closed>>
    BY MarkOutcome
  <2> QED  BY <2>1, <2>2
<1>3. UNCHANGED <<Ended, Taken, Told>>
  BY <1>2 DEF Ended, Taken, Told
<1>4. PICK m \in {"unlinking", "done", "failed"} : mark' = [mark EXCEPT ![k] = m]
  <2>1. \/ \E m \in {"unlinking", "failed"} : mark' = [mark EXCEPT ![k] = m]
        \/ mark' = [mark EXCEPT ![k] = "done"]
    BY MarkOutcome
  <2> QED  BY <2>1
<1>5. \A l \in Keys : mark'[l] = IF l = k THEN m ELSE mark[l]
  BY <1>4 DEF StreamInv, EndInv, RecvInv, BufferInv, TypeOK
<1>6. CASE m = "unlinking"
  <2>1. UNCHANGED Released
    BY <1>2, <1>5, <1>6 DEF Released
  <2> QED  BY <1>1, <1>3, <2>1, StoreStutter
<1>7. CASE m \in {"done", "failed"}
  <2>1. Released' = Released \cup {k}
    BY <1>5, <1>7 DEF Released
  <2>2. \A r \in Readers : k \in Taken[r]
    BY <1>2 DEF Taken
  <2>3. \A l \in Keys : l[1] = k[1] /\ l[2] < k[2] => l \in Released
    BY <1>2 DEF Released, Before, KeysOf, ReqOf, IdxOf
  <2> QED  BY <1>1, <1>3, <2>1, <2>2, <2>3
           DEF Store!Release, Published, Ended, Taken, Told, Released
<1> QED  BY <1>6, <1>7

LEMMA StoreInit == Init => Store!Init
<1> SUFFICES ASSUME Init PROVE Store!Init
  OBVIOUS
<1>1. Published = {}
  BY KeyFacts DEF Init, Published, Transferred
<1>2. \A r \in Readers, k \in CallKeys : call[<<r, k>>] = "idle"
  BY DEF Init
<1>3. Taken = [r \in Readers |-> {}]
  BY <1>2, KeyFacts DEF Taken
<1>4. Told = {}
  BY <1>2, KeyFacts, ReceiverAssumption DEF Told
<1>5. Ended = Ids \ Streamed /\ Released = {}
  BY DEF Init, Ended, Released
<1> QED  BY <1>1, <1>3, <1>4, <1>5 DEF Store!Init, Published, Ended, Taken, Told, Released

LEMMA StoreNext ==
  ASSUME Sequential, StreamInv, StreamInv', [Next]_vars
  PROVE  [Store!Next]_(Store!storeVars)
<1>1. RecvInv /\ Known /\ NoFalseEnd'
  BY DEF StreamInv, EndInv
<1>2. CASE Moves
  BY <1>2, MovesAreHidden
<1>3. ASSUME NEW k \in Keys, Arrives(k) PROVE Store!Next
  BY <1>3, ArrivalsPublish DEF Store!Next
<1>4. ASSUME NEW id \in Ids, CloseStream(id) PROVE Store!Next
  BY <1>4, ClosingEnds DEF Store!Next
<1>5. ASSUME NEW r \in Readers, NEW k \in CallKeys, Reads(r, k)
      PROVE  Store!Next \/ UNCHANGED Store!storeVars
  BY <1>1, <1>5, ReadsTake, KeyFacts DEF Store!Next
<1>6. ASSUME NEW k \in Keys, Marks(k) PROVE Store!Next \/ UNCHANGED Store!storeVars
  BY <1>6, MarksRelease DEF Store!Next
<1> QED  BY <1>1, <1>2, <1>3, <1>4, <1>5, <1>6, StepKinds

(* Every step of the receiver is one of the store or changes nothing its    *)
(* clients see: chunks appear whole and once, are taken between that and    *)
(* their release, which is in order, and an end is told only when known.    *)
THEOREM ReceiverIsAStore ==
  ASSUME Sequential
  PROVE  Spec => ImplementsStore
<1>1. StreamInv /\ [Next]_vars => StreamInv'
  BY StreamInvNext
<1>2. StreamInv /\ StreamInv' /\ [Next]_vars => [Store!Next]_(Store!storeVars)
  BY StoreNext
<1>3. Init => StreamInv /\ Store!Init
  BY StreamInvInit, StoreInit
<1>4. Spec => Store!Spec
  BY <1>1, <1>2, <1>3, PTL DEF Spec, Store!Spec
<1> QED  BY <1>4 DEF ImplementsStore

=============================================================================
