-------------------------- MODULE SidecarReceiver ---------------------------
(***************************************************************************)
(* The receiver half of a Sidecar server (services/sidecar/receiver.py).   *)
(*                                                                         *)
(* The server is one asyncio event loop: a handler runs without            *)
(* interruption up to its next await that really suspends, and every       *)
(* action below is one such segment.  No body of malloc_lock or            *)
(* recv_done_lock contains an await, so those locks are never contended    *)
(* and leave no trace in the model.                                        *)
(*                                                                         *)
(* Around the server, the environment is what its clients are allowed to   *)
(* do: a sender server issues PrepareReceive once per chunk (once per      *)
(* shard for a tensor of another node) and completes the UCX transfer      *)
(* afterwards, in any order across chunks and shards; it issues            *)
(* CloseStream for a streamed request at any time; every reader (the       *)
(* processes of the consumer's group) calls Receive for every chunk, in    *)
(* any order and concurrently; the leader calls MarkDone for a chunk when  *)
(* every reader has it.                                                    *)
(***************************************************************************)
EXTENDS ShmManager, FiniteSets

CONSTANTS
  Ids,          (* request ids                                             *)
  NumChunks,    (* [Ids -> number of chunks the producer sends]            *)
  Streamed,     (* the ids sent with stream=True                           *)
  Asking,       (* the ids that are read until Receive says they end       *)
  Kind,         (* [Keys -> "inter", "intra" or "object"]                  *)
  Size,         (* [Keys -> slots of the chunk's buffer]                   *)
  NumShards,    (* shards of a tensor that comes from another node         *)
  Readers,      (* the processes of the consumer group                     *)
  Leader,       (* the one that asks for the end and marks chunks done     *)
  Sequential    (* TRUE: a MarkDone is issued after the one before it has  *)
                (* returned (mark_done); FALSE: it is left to a pool of    *)
                (* threads (mark_done_sync)                                *)

(* A chunk is named by its request and its index; a Receive may also name  *)
(* the index one past the last chunk, to learn that the data has ended.    *)
Keys     == UNION { {id} \X (0 .. NumChunks[id] - 1) : id \in Ids }
CallKeys == UNION { {id} \X (0 .. NumChunks[id]) : id \in Ids }
ReqOf(k) == k[1]
IdxOf(k) == k[2]
EndKey(id)  == <<id, NumChunks[id]>>
IsLast(k)   == IdxOf(k) + 1 = NumChunks[ReqOf(k)]
KeysOf(id)  == { k \in Keys : ReqOf(k) = id }

Shards == 0 .. NumShards - 1

ASSUME ReceiverAssumption ==
  /\ NumChunks \in [Ids -> Nat \ {0}]
  /\ Streamed \subseteq Asking /\ Asking \subseteq Ids
  /\ Kind \in [Keys -> {"inter", "intra", "object"}]
  /\ Size \in [Keys -> Nat \ {0}]
  /\ NumShards \in Nat \ {0}
  /\ Leader \in Readers
  /\ Sequential \in BOOLEAN

VARIABLES
  malloc_event, (* [Keys -> "none", "clear" or "set"]                      *)
  ledger,       (* the ids with an entry in self.ledger                    *)
  num_chunks,   (* their num_chunks; -1 also for an id with no entry       *)
  done_event,   (* is their done_event set?                                *)
  chunk,        (* [Keys -> "none", "tensor", "done" or "object"]: the     *)
                (* chunk's state in the entry                              *)
  slots,        (* [Keys -> slots of the buffer in that state]             *)
  arrived,      (* [Keys -> shards marked ready in that buffer]            *)
  prep,         (* [Keys \X Shards -> where PrepareReceive and the receive *)
                (* task it spawns are]                                     *)
  call,         (* [Readers \X CallKeys -> where a Receive is]             *)
  mark,         (* [Keys -> where the leader's MarkDone is]                *)
  closed        (* the streams whose CloseStream has been handled          *)

memVars == <<occupancy, malloc_event, slots, arrived>>
vars == <<memVars, ledger, num_chunks, done_event, chunk, prep, call, mark, closed>>

PrepStates == {"idle", "memwait", "memwoken", "waiting", "failed", "posted", "received"}
CallStates == {"idle", "waiting", "woken", "got", "end"}
MarkStates == {"no", "unlinking", "done", "refused", "failed"}

Init ==
  /\ occupancy = {}
  /\ malloc_event = [k \in Keys |-> "none"]
  /\ ledger = {}
  /\ num_chunks = [id \in Ids |-> -1]
  /\ done_event = [id \in Ids |-> FALSE]
  /\ chunk = [k \in Keys |-> "none"]
  /\ slots = [k \in Keys |-> {}]
  /\ arrived = [k \in Keys |-> {}]
  /\ prep = [p \in Keys \X Shards |-> "idle"]
  /\ call = [q \in Readers \X CallKeys |-> "idle"]
  /\ mark = [k \in Keys |-> "no"]
  /\ closed = {}

-----------------------------------------------------------------------------
(* done_event.set(): the event is set and every Receive that sleeps on it   *)
(* is scheduled; it runs later, whatever happens to the event meanwhile.    *)
SetDone(id) ==
  /\ done_event' = [done_event EXCEPT ![id] = TRUE]
  /\ call' = [q \in Readers \X CallKeys |->
                IF call[q] = "waiting" /\ ReqOf(q[2]) = id THEN "woken" ELSE call[q]]

(* The num_chunks field of the sender's requests: 0 while streaming. *)
SentNumChunks(id) == IF id \in Streamed THEN 0 ELSE NumChunks[id]

(* An entry made by a Receive keeps the -1 it was made with. *)
EnterLedgerKeepUnknown(id) ==
  /\ ledger' = ledger \cup {id}
  /\ num_chunks' = [num_chunks EXCEPT ![id] = IF id \in ledger THEN @ ELSE SentNumChunks(id)]

(* The entry that a PrepareReceive finds or creates. *)
EnterLedger(id) ==
  /\ ledger' = ledger \cup {id}
  /\ num_chunks' = [num_chunks EXCEPT ![id] = IF @ = -1 THEN SentNumChunks(id) ELSE @]

(* `del self.ledger[id]`, with everything the entry holds. *)
DropEntry(id) ==
  /\ ledger' = ledger \ {id}
  /\ num_chunks' = [num_chunks EXCEPT ![id] = -1]
  /\ done_event' = [done_event EXCEPT ![id] = FALSE]
  /\ chunk' = [k \in Keys |-> IF ReqOf(k) = id THEN "none" ELSE chunk[k]]
  /\ slots' = [k \in Keys |-> IF ReqOf(k) = id THEN {} ELSE slots[k]]

KeepEntry == UNCHANGED <<ledger, num_chunks, done_event, slots>>

-----------------------------------------------------------------------------
(* PrepareReceive of a tensor on another node, for one shard.               *)

(* The first call has its memory: the chunk enters the ledger, the calls    *)
(* of the other shards may go on, and the receive task is spawned.          *)
Allocated(k, s) ==
  /\ occupancy' = occupancy \cup Allocate(occupancy, Size[k])
  /\ slots' = [slots EXCEPT ![k] = Allocate(occupancy, Size[k])]
  /\ chunk' = [chunk EXCEPT ![k] = "tensor"]
  /\ malloc_event' = [malloc_event EXCEPT ![k] = "set"]
  /\ prep' = [prep EXCEPT ![<<k, s>>] = "posted"]
  /\ EnterLedger(ReqOf(k))

SleepForMemory(k, s) ==
  /\ prep' = [prep EXCEPT ![<<k, s>>] = "memwait"]
  /\ UNCHANGED <<occupancy, slots, chunk, ledger, num_chunks>>

PrepareFirst(k, s) ==
  /\ Kind[k] = "inter" /\ prep[<<k, s>>] = "idle" /\ malloc_event[k] = "none"
  /\ \/ /\ Fits(occupancy, Size[k]) # {}
        /\ Allocated(k, s)
     \/ /\ ~Oversize(Size[k]) /\ Fits(occupancy, Size[k]) = {}
        /\ SleepForMemory(k, s)
        /\ malloc_event' = [malloc_event EXCEPT ![k] = "clear"]
     \/ /\ Oversize(Size[k])    \* ValueError: the event stays behind, clear
        /\ prep' = [prep EXCEPT ![<<k, s>>] = "failed"]
        /\ malloc_event' = [malloc_event EXCEPT ![k] = "clear"]
        /\ UNCHANGED <<occupancy, slots, chunk, ledger, num_chunks>>
  /\ UNCHANGED <<done_event, arrived, call, mark, closed>>

(* Memory was freed and this call was notified: it tries again. *)
RetryAllocate(k, s) ==
  /\ prep[<<k, s>>] = "memwoken"
  /\ \/ /\ Fits(occupancy, Size[k]) # {}
        /\ Allocated(k, s)
     \/ /\ Fits(occupancy, Size[k]) = {}
        /\ SleepForMemory(k, s)
        /\ UNCHANGED malloc_event
  /\ UNCHANGED <<done_event, arrived, call, mark, closed>>

(* A later shard finds the buffer, or sleeps until it is there. *)
PrepareLater(k, s) ==
  /\ Kind[k] = "inter" /\ prep[<<k, s>>] = "idle" /\ malloc_event[k] # "none"
  /\ prep' = [prep EXCEPT ![<<k, s>>] = IF malloc_event[k] = "set" THEN "posted" ELSE "waiting"]
  /\ UNCHANGED <<memVars, ledger, num_chunks, done_event, chunk, call, mark, closed>>

ResumeLater(k, s) ==
  /\ prep[<<k, s>>] = "waiting" /\ malloc_event[k] = "set"
  /\ prep' = [prep EXCEPT ![<<k, s>>] = "posted"]
  /\ UNCHANGED <<memVars, ledger, num_chunks, done_event, chunk, call, mark, closed>>

(* recv_task: the UCX transfer of the shard has completed. *)
ShardReceived(k, s) ==
  /\ prep[<<k, s>>] = "posted"
  /\ prep' = [prep EXCEPT ![<<k, s>>] = "received"]
  /\ arrived' = [arrived EXCEPT ![k] = @ \cup {s}]
  /\ IF arrived[k] \cup {s} = Shards
       THEN /\ malloc_event' = [malloc_event EXCEPT ![k] = "none"]
            /\ chunk' = [chunk EXCEPT ![k] = "done"]
            /\ SetDone(ReqOf(k))
       ELSE UNCHANGED <<malloc_event, chunk, done_event, call>>
  /\ UNCHANGED <<occupancy, slots, ledger, num_chunks, mark, closed>>

(* PrepareReceive of a tensor of this node (a handle into the sender's      *)
(* slab, no slot of this one) or of a small object: complete at once.       *)
PrepareWhole(k) ==
  /\ Kind[k] \in {"intra", "object"} /\ prep[<<k, 0>>] = "idle"
  /\ prep' = [prep EXCEPT ![<<k, 0>>] = "received"]
  /\ chunk' = [chunk EXCEPT ![k] = IF Kind[k] = "intra" THEN "done" ELSE "object"]
  /\ EnterLedger(ReqOf(k))
  /\ SetDone(ReqOf(k))
  /\ UNCHANGED <<memVars, mark, closed>>

(* The length is stored but nobody is told. *)
CloseStreamQuietly(id) ==
  /\ id \in Streamed \ closed
  /\ closed' = closed \cup {id}
  /\ ledger' = ledger \cup {id}
  /\ num_chunks' = [num_chunks EXCEPT ![id] = NumChunks[id]]
  /\ UNCHANGED <<memVars, done_event, chunk, prep, call, mark>>

CloseStream(id) ==
  /\ id \in Streamed \ closed
  /\ closed' = closed \cup {id}
  /\ ledger' = ledger \cup {id}
  /\ num_chunks' = [num_chunks EXCEPT ![id] = NumChunks[id]]
  /\ SetDone(id)
  /\ UNCHANGED <<memVars, chunk, prep, mark>>

-----------------------------------------------------------------------------
(* Receive: a loop that sleeps on the entry's event.                        *)

(* An open stream's 0 taken for a length. *)
OutOfBoundOfOpen(k) == IdxOf(k) >= num_chunks[ReqOf(k)]
(* A tensor with shards in flight taken for a whole one. *)
AvailablePartly(k) == k \in Keys /\ chunk[k] # "none"

OutOfBound(k) == num_chunks[ReqOf(k)] # 0 /\ IdxOf(k) >= num_chunks[ReqOf(k)]
Available(k)  == k \in Keys /\ chunk[k] \in {"done", "object"}

(* One iteration of the loop, entered with the event's wait() just over. *)
Iterate(r, k) ==
  \/ /\ OutOfBound(k)
     /\ call' = [call EXCEPT ![<<r, k>>] = "end"]
     /\ UNCHANGED done_event
  \/ /\ ~OutOfBound(k) /\ Available(k)
     /\ call' = [call EXCEPT ![<<r, k>>] = "got"]
     /\ UNCHANGED done_event
  \/ /\ ~OutOfBound(k) /\ ~Available(k)
     /\ call' = [call EXCEPT ![<<r, k>>] = "waiting"]
     /\ done_event' = [done_event EXCEPT ![ReqOf(k)] = FALSE]

(* A reader may ask for a chunk until it is marked done, and the leader for *)
(* the end until the last chunk is, which it must when the data is a stream.*)
MayReceive(r, k) ==
  IF k \in Keys THEN mark[k] = "no"
  ELSE /\ r = Leader /\ ReqOf(k) \in Asking
       /\ \A l \in KeysOf(ReqOf(k)) : IsLast(l) => mark[l] = "no"

Receive(r, k) ==
  /\ call[<<r, k>>] = "idle" /\ MayReceive(r, k)
  /\ ledger' = ledger \cup {ReqOf(k)}     \* a new entry has num_chunks = -1
  /\ IF done_event[ReqOf(k)]
       THEN Iterate(r, k)
       ELSE /\ call' = [call EXCEPT ![<<r, k>>] = "waiting"]
            /\ UNCHANGED done_event
  /\ UNCHANGED <<memVars, num_chunks, chunk, prep, mark, closed>>

ResumeReceive(r, k) ==
  /\ call[<<r, k>>] = "woken"
  /\ Iterate(r, k)
  /\ UNCHANGED <<memVars, ledger, num_chunks, chunk, prep, mark, closed>>

-----------------------------------------------------------------------------
(* MarkDone.                                                                *)

(* What the leader waits for before it marks a chunk: every reader has it   *)
(* and the chunks before it, and before the last one of a stream it has     *)
(* seen the end, since nothing else tells it which chunk is the last.       *)
Before(k) == { l \in KeysOf(ReqOf(k)) : IdxOf(l) < IdxOf(k) }

MayMark(k) ==
  /\ \A r \in Readers, l \in Before(k) \cup {k} : call[<<r, l>>] = "got"
  /\ IsLast(k) => /\ call[<<Leader, EndKey(ReqOf(k))>>] \in {"idle", "end"}
                  /\ ReqOf(k) \in Streamed => call[<<Leader, EndKey(ReqOf(k))>>] = "end"
  /\ Sequential => \A l \in Before(k) : mark[l] \in {"done", "failed"}

LastOfEntry(k) == num_chunks[ReqOf(k)] = IdxOf(k) + 1

(* The entry goes with its last chunk only if that is an object. *)
FinishMarkObjects(k) ==
  /\ mark' = [mark EXCEPT ![k] = "done"]
  /\ IF LastOfEntry(k) /\ chunk[k] = "object"
       THEN DropEntry(ReqOf(k))
       ELSE KeepEntry /\ chunk' = [chunk EXCEPT ![k] = IF @ = "object" THEN "none" ELSE @]

(* The end of the handler: the entry goes with its last chunk. *)
FinishMark(k) ==
  /\ mark' = [mark EXCEPT ![k] = "done"]
  /\ IF LastOfEntry(k)
       THEN DropEntry(ReqOf(k))
       ELSE KeepEntry /\ chunk' = [chunk EXCEPT ![k] = IF @ = "object" THEN "none" ELSE @]

NotifyNobody == UNCHANGED prep
NotifyOne ==
  IF \A p \in Keys \X Shards : prep[p] # "memwait" THEN UNCHANGED prep
  ELSE \E p \in Keys \X Shards :
         prep[p] = "memwait" /\ prep' = [prep EXCEPT ![p] = "memwoken"]

(* notify_all: every allocation that waits for memory tries again. *)
NotifyMemory ==
  prep' = [p \in Keys \X Shards |-> IF prep[p] = "memwait" THEN "memwoken" ELSE prep[p]]

MarkDone(k) ==
  /\ mark[k] = "no" /\ MayMark(k)
  /\ \/ /\ chunk[k] = "none"           \* NOT_FOUND
        /\ mark' = [mark EXCEPT ![k] = "refused"]
        /\ KeepEntry
        /\ UNCHANGED <<occupancy, chunk, prep>>
     \/ /\ chunk[k] = "object"
        /\ FinishMark(k)
        /\ UNCHANGED <<occupancy, prep>>
     \/ /\ chunk[k] = "done" /\ Kind[k] = "inter"
        /\ occupancy' = occupancy \ slots[k]
        /\ NotifyMemory
        /\ FinishMark(k)
     \/ /\ chunk[k] = "done" /\ Kind[k] = "intra"
        /\ mark' = [mark EXCEPT ![k] = "unlinking"]
        /\ KeepEntry
        /\ UNCHANGED <<occupancy, chunk, prep>>
  /\ UNCHANGED <<malloc_event, arrived, call, closed>>

(* The sender server has answered Unlink. *)
Unlinked(k) ==
  /\ mark[k] = "unlinking"
  /\ FinishMark(k)
  /\ UNCHANGED <<occupancy, malloc_event, arrived, prep, call, closed>>

(* Unlink was refused or has raised: the handler aborts, and whatever it    *)
(* would have removed stays.                                                *)
UnlinkFails(k) ==
  /\ mark[k] = "unlinking"
  /\ mark' = [mark EXCEPT ![k] = "failed"]
  /\ UNCHANGED <<memVars, ledger, num_chunks, done_event, chunk, prep, call, closed>>

-----------------------------------------------------------------------------
(* The MarkDone calls that have returned. *)
Returned == {"done", "refused", "failed"}

(* Nothing is left to do: every chunk is marked and every stream closed.    *)
Finished ==
  /\ \A k \in Keys : mark[k] \in Returned
  /\ closed = Streamed
Stop == Finished /\ UNCHANGED vars

Server ==
  \/ \E k \in Keys, s \in Shards : RetryAllocate(k, s) \/ ResumeLater(k, s)
  \/ \E r \in Readers, k \in CallKeys : ResumeReceive(r, k)

Senders ==
  \/ \E k \in Keys, s \in Shards :
       PrepareFirst(k, s) \/ PrepareLater(k, s) \/ ShardReceived(k, s)
  \/ \E k \in Keys : PrepareWhole(k) \/ Unlinked(k) \/ UnlinkFails(k)
  \/ \E id \in Ids : CloseStream(id)

Consumers ==
  \/ \E r \in Readers, k \in CallKeys : Receive(r, k)
  \/ \E k \in Keys : MarkDone(k)

Next == Server \/ Senders \/ Consumers \/ Stop

Spec == Init /\ [][Next]_vars

(* The event loop goes on running what is ready, and the senders and the    *)
(* consumers go on making the calls they may make.  Fairness of the three   *)
(* groups is enough: a plan is finite and every step takes a call further,  *)
(* so that no step of a group can be put off for ever by the others.        *)
Fairness == WF_vars(Server) /\ WF_vars(Senders) /\ WF_vars(Consumers)

FairSpec == Spec /\ Fairness

-----------------------------------------------------------------------------
TypeOK ==
  /\ occupancy \subseteq Slots
  /\ malloc_event \in [Keys -> {"none", "clear", "set"}]
  /\ ledger \subseteq Ids
  /\ num_chunks \in [Ids -> Int]
  /\ done_event \in [Ids -> BOOLEAN]
  /\ chunk \in [Keys -> {"none", "tensor", "done", "object"}]
  /\ slots \in [Keys -> SUBSET Slots]
  /\ arrived \in [Keys -> SUBSET Shards]
  /\ prep \in [Keys \X Shards -> PrepStates]
  /\ call \in [Readers \X CallKeys -> CallStates]
  /\ mark \in [Keys -> MarkStates]
  /\ closed \subseteq Streamed

(* The chunks whose buffer is in this server's slab and not yet given back. *)
Held == { k \in Keys : Kind[k] = "inter" /\ chunk[k] # "none" /\ mark[k] # "done" }

(* "The data is always held within the server until a corresponding         *)
(* mark_done" (docs/architecture/sidecar.md:81): the slots in use are those *)
(* of the chunks not yet marked done, every one of them for one chunk only, *)
(* across allocations, frees and retries of any number of requests.         *)
SlotsHeldOnce ==
  /\ occupancy = UNION { slots[k] : k \in Held }
  /\ \A k, l \in Held : k # l => slots[k] \cap slots[l] = {}

(* A reader is handed a tensor only when all of its shards are in the       *)
(* buffer (receive:337-341 and recv_task:225-236), in whatever order the    *)
(* transfers of shards and chunks complete.                                 *)
OnlyWholeTensors ==
  \A r \in Readers, k \in Keys :
    call[<<r, k>>] = "got" /\ Kind[k] = "inter" => arrived[k] = Shards

(* Receive answers None only for an index past the data the producer sends: *)
(* neither the -1 of an entry that a Receive created nor the 0 of an open   *)
(* stream is ever taken for a length (receive:318).                         *)
NoFalseEnd ==
  \A r \in Readers, k \in CallKeys :
    /\ call[<<r, k>>] = "end" => k \notin Keys
    /\ call[<<r, k>>] = "got" => k \in Keys

(* The transfer of the chunk is over. *)
Transferred(k) ==
  \A s \in Shards : (s = 0 \/ Kind[k] = "inter") => prep[<<k, s>>] = "received"

(* No Receive sleeps for good.  While one does, the event is clear and      *)
(* either a chunk of its request or the end of its stream is still to come, *)
(* whose handler wakes all of them: what the docstring of receive (297-303) *)
(* argues about clear and set.  It may sleep although its own chunk is      *)
(* there, since one event serves all readers, but only while another reader *)
(* sleeps that asks for what has not come: that one's clear() and no other  *)
(* reason keeps it waiting.                                                 *)
NoneSleepsForGood ==
  /\ \A r \in Readers, k \in CallKeys : call[<<r, k>>] = "waiting" =>
       /\ ReqOf(k) \in ledger /\ ~done_event[ReqOf(k)]
       /\ \/ \E l \in KeysOf(ReqOf(k)) : ~Transferred(l)
          \/ ReqOf(k) \in Streamed \ closed
  /\ \A k \in Keys : Available(k) /\ ~done_event[ReqOf(k)] =>
       \E r \in Readers, l \in CallKeys :
         ReqOf(l) = ReqOf(k) /\ call[<<r, l>>] = "waiting" /\ ~Available(l)

(* "If all shards are received, return the slot number immediately"         *)
(* (receive, 294): no Receive sleeps while its chunk is there.  The code    *)
(* does not keep this.                                                      *)
HandedOverAtOnce ==
  \A r \in Readers, k \in Keys : call[<<r, k>>] = "waiting" => ~Available(k)

(* No PrepareReceive sleeps for memory that is there: whoever is asleep in  *)
(* _allocate does not fit, whatever was freed in the meantime and by whom.  *)
NoSleepingAllocate ==
  \A k \in Keys, s \in Shards :
    prep[<<k, s>>] = "memwait" => Fits(occupancy, Size[k]) = {}

LastFailed(id) == \E k \in KeysOf(id) : IsLast(k) /\ mark[k] = "failed"

(* When all MarkDone calls of a request have returned nothing of it is     *)
(* left, whichever Unlinks have failed, unless it is the last: no ledger    *)
(* entry and no malloc event; and no slot once that holds for all requests. *)
NothingLeft ==
  /\ \A id \in Ids : (\A k \in KeysOf(id) : mark[k] \in Returned) /\ ~LastFailed(id) =>
       id \notin ledger /\ \A k \in KeysOf(id) : malloc_event[k] = "none"
  /\ (\A k \in Keys : mark[k] \in Returned) => occupancy = {}

(* A request of which every tensor is within the slab's size. *)
Sendable(id) == \A k \in KeysOf(id) : Kind[k] = "inter" => ~Oversize(Size[k])

(* Every chunk reaches its readers and is given back, whatever requests     *)
(* with a tensor that is refused run beside: the cycle PrepareReceive ->    *)
(* Receive -> MarkDone -> free -> waiting PrepareReceive does not get stuck *)
(* while the slab can hold all the tensors of a request from other nodes at *)
(* once and a refused tensor is alone in its request.  (Otherwise it can:   *)
(* the memory that a chunk waits for may be that of a chunk whose reader,   *)
(* whose event another reader has cleared, sleeps until another chunk of    *)
(* the request arrives.)                                                    *)
EverythingReleased == <>(\A k \in Keys : Sendable(ReqOf(k)) => mark[k] = "done")

-----------------------------------------------------------------------------
(* The receiver implements the store of its clients' view.                  *)
Store == INSTANCE ChunkStore WITH
  published <- { k \in Keys : Transferred(k) },
  ended     <- (Ids \ Streamed) \cup closed,
  taken     <- [r \in Readers |-> { k \in Keys : call[<<r, k>>] = "got" }],
  told      <- { id \in Ids : call[<<Leader, EndKey(id)>>] = "end" },
  released  <- { k \in Keys : mark[k] \in {"done", "failed"} }

(* Every step of the server is a step of the store or none: chunks appear   *)
(* whole, are handed out only between their arrival and their MarkDone, and *)
(* the end of a stream is told only after it was closed.  A chunk whose     *)
(* Unlink fails has been given back as far as its readers are concerned.    *)
ImplementsStore == Store!Spec

=============================================================================
