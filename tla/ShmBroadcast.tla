---------------------------- MODULE ShmBroadcast ----------------------------
(***************************************************************************)
(* The message queue between an Eric executor and its workers              *)
(* (task_executors/eric/distributed/shm_broadcast.py): a ring of chunks in *)
(* shared memory with one writer and several readers, without a lock.      *)
(* Every action is one load or store of a metadata byte by one process, or *)
(* the copy of a chunk, which takes time: a chunk being written is Torn.   *)
(* An object too large for a chunk is flagged there and sent over a        *)
(* publish-subscribe socket, which delivers to each reader in order.       *)
(* A poll that finds nothing is a step that changes nothing.               *)
(***************************************************************************)
EXTENDS Integers, Sequences

CONSTANTS
  NumReaders,    (* n_local_reader                                         *)
  MaxChunks,     (* max_chunks                                             *)
  MaxChunkBytes, (* max_chunk_bytes                                        *)
  Lengths        (* the lengths of the serialized objects, in the order    *)
                 (* they are enqueued; object n is the number n            *)

ASSUME BroadcastAssumption ==
  /\ NumReaders \in Nat \ {0} /\ MaxChunks \in Nat \ {0} /\ MaxChunkBytes \in Nat \ {0}
  /\ Lengths \in Seq(Nat)

Readers  == 0 .. NumReaders - 1
Chunks   == 0 .. MaxChunks - 1
Messages == 1 .. Len(Lengths)

(* What a chunk may hold besides an object: nothing usable, the overflow    *)
(* flag, or an object whose end did not fit.                                *)
Torn     == 0
Overflow == -1
CutShort == -2

VARIABLES
  written,   (* [Chunks -> the written flag]                               *)
  read,      (* [Chunks \X Readers -> the reader's flag]                   *)
  data,      (* [Chunks -> what the chunk holds]                           *)
  socket,    (* [Readers -> objects on their way to its SUB socket]        *)
  wpc,       (* the writer: "poll", "unmark", "write", "clear" or "send"   *)
  widx,      (* its current_idx                                            *)
  cleared,   (* the reader flags it has reset for this object              *)
  log,       (* the objects it has published                               *)
  rpc,       (* [Readers -> "poll", "check", "copy", "mark" or "recv"]     *)
  ridx,      (* [Readers -> its current_idx]                               *)
  read_flag, (* [Readers -> the value of its flag when last polled]        *)
  copy,      (* [Readers -> what it copied from the chunk]                 *)
  obtained   (* [Readers -> the objects it has dequeued]                   *)

writerVars == <<wpc, widx, cleared, log>>
readerVars == <<rpc, ridx, read_flag, copy, obtained>>
ringVars == <<written, read, data, socket, writerVars, readerVars>>

RingInit ==
  /\ written = [c \in Chunks |-> FALSE]
  /\ read = [x \in Chunks \X Readers |-> FALSE]
  /\ data = [c \in Chunks |-> Torn]
  /\ socket = [r \in Readers |-> <<>>]
  /\ wpc = "poll" /\ widx = 0 /\ cleared = 0 /\ log = <<>>
  /\ rpc = [r \in Readers |-> "poll"]
  /\ ridx = [r \in Readers |-> 0]
  /\ read_flag = [r \in Readers |-> FALSE]
  /\ copy = [r \in Readers |-> Torn]
  /\ obtained = [r \in Readers |-> <<>>]

After(idx) == (idx + 1) % MaxChunks

-----------------------------------------------------------------------------
(* The writer: enqueue and acquire_write.                                   *)

(* The object in hand, and whether it is too large for a chunk, whose first *)
(* byte is the overflow flag.                                               *)
Current == Len(log) + 1
TooLarge(m) == Lengths[m] >= MaxChunkBytes
FitsInChunk(m) == Lengths[m] + 1 <= MaxChunkBytes

WritableBySome(c) == ~written[c] \/ \E r \in Readers : read[<<c, r>>]
(* Not written, or read by all. *)
Writable(c) == ~written[c] \/ \A r \in Readers : read[<<c, r>>]

(* The flags are read one after the other, but while the writer polls they  *)
(* only ever go up: reading them at once misses nothing.                    *)
FindBlock ==
  /\ wpc = "poll" /\ Current \in Messages /\ Writable(widx)
  /\ wpc' = "unmark"
  /\ UNCHANGED <<written, read, data, socket, widx, cleared, log, readerVars>>

Unmark ==
  /\ wpc = "unmark"
  /\ written' = [written EXCEPT ![widx] = FALSE]
  /\ data' = [data EXCEPT ![widx] = Torn]        \* the copy starts
  /\ wpc' = "write"
  /\ UNCHANGED <<read, socket, widx, cleared, log, readerVars>>

WriteData ==
  /\ wpc = "write"
  /\ data' = [data EXCEPT ![widx] = IF TooLarge(Current) THEN Overflow
                                    ELSE IF FitsInChunk(Current) THEN Current ELSE CutShort]
  /\ wpc' = "clear" /\ cleared' = 0
  /\ UNCHANGED <<written, read, socket, widx, log, readerVars>>

ClearFlag ==
  /\ wpc = "clear" /\ cleared < NumReaders
  /\ read' = [read EXCEPT ![<<widx, cleared>>] = FALSE]
  /\ cleared' = cleared + 1
  /\ UNCHANGED <<written, data, socket, wpc, widx, log, readerVars>>

ClearedSome == cleared >= 1
(* Have all reader flags been reset? *)
ClearedAll == cleared = NumReaders

Publish ==
  /\ wpc = "clear" /\ ClearedAll
  /\ written' = [written EXCEPT ![widx] = TRUE]
  /\ widx' = After(widx)
  /\ log' = Append(log, Current)
  /\ wpc' = IF TooLarge(Current) THEN "send" ELSE "poll"
  /\ UNCHANGED <<read, data, socket, cleared, readerVars>>

SendOverflow ==
  /\ wpc = "send"
  /\ socket' = [r \in Readers |-> Append(socket[r], Len(log))]
  /\ wpc' = "poll"
  /\ UNCHANGED <<written, read, data, widx, cleared, log, readerVars>>

-----------------------------------------------------------------------------
(* A reader: dequeue and acquire_read.                                      *)

Goto(r, pc) == rpc' = [rpc EXCEPT ![r] = pc]

LoadReadFlag(r) ==
  /\ rpc[r] = "poll"
  /\ read_flag' = [read_flag EXCEPT ![r] = read[<<ridx[r], r>>]]
  /\ Goto(r, "check")
  /\ UNCHANGED <<written, read, data, socket, writerVars, ridx, copy, obtained>>

ReadableTwice(r) == written[ridx[r]]
(* Written, and not read by this reader. *)
Readable(r) == written[ridx[r]] /\ ~read_flag[r]

LoadWrittenFlag(r) ==
  /\ rpc[r] = "check"
  /\ Goto(r, IF Readable(r) THEN "copy" ELSE "poll")
  /\ UNCHANGED <<written, read, data, socket, writerVars, ridx, read_flag, copy, obtained>>

CopyData(r) ==
  /\ rpc[r] = "copy"
  /\ copy' = [copy EXCEPT ![r] = data[ridx[r]]]
  /\ Goto(r, "mark")
  /\ UNCHANGED <<written, read, data, socket, writerVars, ridx, read_flag, obtained>>

Obtain(r, m) == obtained' = [obtained EXCEPT ![r] = Append(@, m)]

MarkRead(r) ==
  /\ rpc[r] = "mark"
  /\ read' = [read EXCEPT ![<<ridx[r], r>>] = TRUE]
  /\ ridx' = [ridx EXCEPT ![r] = After(@)]
  /\ \/ copy[r] = Overflow /\ Goto(r, "recv") /\ UNCHANGED obtained
     \/ copy[r] # Overflow /\ Goto(r, "poll") /\ Obtain(r, copy[r])
  /\ UNCHANGED <<written, data, socket, writerVars, read_flag, copy>>

ReceiveOverflow(r) ==
  /\ rpc[r] = "recv" /\ socket[r] # <<>>
  /\ socket' = [socket EXCEPT ![r] = Tail(@)]
  /\ Obtain(r, Head(socket[r]))
  /\ Goto(r, "poll")
  /\ UNCHANGED <<written, read, data, writerVars, ridx, read_flag, copy>>

-----------------------------------------------------------------------------
Writer == FindBlock \/ Unmark \/ WriteData \/ ClearFlag \/ Publish \/ SendOverflow
Reader(r) ==
  LoadReadFlag(r) \/ LoadWrittenFlag(r) \/ CopyData(r) \/ MarkRead(r) \/ ReceiveOverflow(r)

RingNext == Writer \/ \E r \in Readers : Reader(r)

RingSpec == RingInit /\ [][RingNext]_ringVars

(* Every process keeps polling (sched_yield gives the others the processor).*)
RingFairness == WF_ringVars(Writer) /\ \A r \in Readers : WF_ringVars(Reader(r))

-----------------------------------------------------------------------------
RingTypeOK ==
  /\ written \in [Chunks -> BOOLEAN]
  /\ read \in [Chunks \X Readers -> BOOLEAN]
  /\ data \in [Chunks -> Messages \cup {Torn, Overflow}]
  /\ socket \in [Readers -> Seq(Messages)]
  /\ wpc \in {"poll", "unmark", "write", "clear", "send"}
  /\ widx \in Chunks
  /\ cleared \in 0 .. NumReaders
  /\ log \in Seq(Messages)
  /\ rpc \in [Readers -> {"poll", "check", "copy", "mark", "recv"}]
  /\ ridx \in [Readers -> Chunks]
  /\ read_flag \in [Readers -> BOOLEAN]
  /\ copy \in [Readers -> Messages \cup {Torn, Overflow}]
  /\ obtained \in [Readers -> Seq(Messages)]

(* While a reader copies a chunk or is about to mark it read, the writer    *)
(* does not touch it: the flags alone keep them apart (shm_broadcast.py:    *)
(* 64-91, the table of states and the order of the steps).                  *)
NoRace ==
  /\ RingTypeOK
  /\ \A r \in Readers : rpc[r] \in {"copy", "mark"} =>
       /\ written[ridx[r]] /\ ~read[<<ridx[r], r>>]
       /\ wpc \in {"unmark", "write", "clear"} => widx # ridx[r]

(* The queue implements the broadcast of its messages, whole and in order,  *)
(* those that go over the socket in their place among the others.           *)
Queue == INSTANCE Broadcast
ImplementsBroadcast == Queue!Spec

(* Every reader obtains every object.                                       *)
EveryReaderObtainsAll ==
  \A r \in Readers : <>(Len(obtained[r]) = Len(Lengths))

=============================================================================
