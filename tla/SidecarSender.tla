---------------------------- MODULE SidecarSender ---------------------------
(***************************************************************************)
(* The sender half of a Sidecar server (services/sidecar/sender.py): the   *)
(* Send handler for tensors, by concurrent copy (every worker of the group *)
(* copies its shard into one buffer) and by single copy (the first worker  *)
(* copies it all), and the Unlink handler by which the receivers of the    *)
(* same node give the buffer back.                                         *)
(*                                                                         *)
(* The server is one asyncio event loop and an action is one segment of a  *)
(* handler, up to its next await that suspends.  Copies to the slab,       *)
(* PrepareReceive calls and UCX transfers take any time and complete in    *)
(* any order; a PrepareReceive that the other server aborts raises here,   *)
(* no server answers one with a status other than OK.  event_lock and      *)
(* sent_lock guard bodies without an await and leave no trace.             *)
(***************************************************************************)
EXTENDS ShmManager, FiniteSets

CONSTANTS
  Chunks,         (* the tensors to send, each a request id and a chunk id *)
  Size,           (* [Chunks -> slots of the tensor]                       *)
  SlotNumel,      (* elements of a slot                                    *)
  IntraDsts,      (* [Chunks -> its destinations on this node]             *)
  InterDsts,      (* [Chunks -> its destinations on other nodes]           *)
  GroupSize,      (* workers of the sender's group, each sends a shard     *)
  CopyModes,      (* the values of concurrent_copy a server may start with *)
  Aborting        (* the destinations whose PrepareReceive may be aborted  *)

Shards  == 0 .. GroupSize - 1
Dsts(k) == IntraDsts[k] \cup InterDsts[k]
Outs    == UNION { {k} \X Shards \X Dsts(k) : k \in Chunks }

ASSUME SenderAssumption ==
  /\ Size \in [Chunks -> Nat \ {0}]
  /\ SlotNumel \in Nat \ {0}
  /\ GroupSize \in Nat \ {0}
  /\ CopyModes \subseteq BOOLEAN
  /\ \A k \in Chunks : IsFiniteSet(IntraDsts[k]) /\ IntraDsts[k] \cap InterDsts[k] = {}

VARIABLES
  concurrent_copy, (* the configuration of the server                      *)
  slots,         (* [Chunks -> slots of its buffer, {} before allocation]  *)
  malloc_events, (* [Chunks -> "none", "clear" or "set"]                   *)
  done_events,   (* the chunks whose done event is set                     *)
  ledger,        (* the chunks with an entry in self.ledger                *)
  ready,         (* [Chunks -> shards copied to the buffer]                *)
  shards_sent,   (* [Chunks -> shards sent to all destinations]            *)
  saved_buffers, (* the chunks with an entry in saved_buffers              *)
  ref_counts,    (* [Chunks -> Nat], 0 for a chunk with no entry           *)
  first,         (* the Send calls that created their chunk's events       *)
  send,          (* [Chunks \X Shards -> where the Send call is]           *)
  out,           (* [Outs -> where its part for one destination is]        *)
  unlink         (* [Chunks \X ranks -> "no", "done" or "refused"]         *)

memVars == <<occupancy, slots>>
bookVars == <<malloc_events, done_events, ledger, shards_sent, saved_buffers, ref_counts, first,
              concurrent_copy>>
vars == <<memVars, bookVars, ready, send, out, unlink>>

SendStates == {"idle", "memwait", "memwoken", "waiting", "copying", "sending", "ok", "failed"}
OutStates == {"none", "waitdone", "preparing", "handled", "transfer", "ok", "aborted"}

IntraPairs == UNION { {k} \X IntraDsts[k] : k \in Chunks }

Init ==
  /\ concurrent_copy \in CopyModes
  /\ occupancy = {}
  /\ slots = [k \in Chunks |-> {}]
  /\ malloc_events = [k \in Chunks |-> "none"]
  /\ done_events = {}
  /\ ledger = {}
  /\ ready = [k \in Chunks |-> {}]
  /\ shards_sent = [k \in Chunks |-> {}]
  /\ saved_buffers = {}
  /\ ref_counts = [k \in Chunks |-> 0]
  /\ first = {}
  /\ send = [c \in Chunks \X Shards |-> "idle"]
  /\ out = [o \in Outs |-> "none"]
  /\ unlink = [u \in IntraPairs |-> "no"]

-----------------------------------------------------------------------------
(* SharedMemoryBuffer.create_shards: the offset and the length of shard s   *)
(* of n elements split in g.                                                *)
Lesser(a, b) == IF a < b THEN a ELSE b
ShardOffset(n, g, s) == s * (n \div g) + Lesser(s, n % g)
ShardLength(n, g, s) == ShardOffset(n, g, s + 1) - ShardOffset(n, g, s)

Empty(k, s) == concurrent_copy /\ ShardLength(Size[k] * SlotNumel, GroupSize, s) = 0

(* The shards whose copy completes the buffer. *)
Copiers == IF concurrent_copy THEN Shards ELSE {0}

MarkShardReady(k, s) ==
  /\ ready' = [ready EXCEPT ![k] = @ \cup {s}]
  /\ done_events' = IF ready[k] \cup {s} = Copiers THEN done_events \cup {k} ELSE done_events

(* With the buffer at hand the shard's copy starts; a shard with no         *)
(* elements returns at once and is sent to nobody.                          *)
StartCopy(k, s) ==
  IF Empty(k, s)
  THEN MarkShardReady(k, s) /\ send' = [send EXCEPT ![<<k, s>>] = "ok"]
  ELSE /\ send' = [send EXCEPT ![<<k, s>>] = "copying"]
       /\ UNCHANGED <<ready, done_events>>

Allocated(k, s) ==
  /\ occupancy' = occupancy \cup Allocate(occupancy, Size[k])
  /\ slots' = [slots EXCEPT ![k] = Allocate(occupancy, Size[k])]
  /\ IF concurrent_copy
       THEN /\ malloc_events' = [malloc_events EXCEPT ![k] = "set"]
            /\ ledger' = ledger \cup {k}
       ELSE UNCHANGED <<malloc_events, ledger>>
  /\ StartCopy(k, s)

NoBuffer(k, s, state) ==
  /\ send' = [send EXCEPT ![<<k, s>>] = state]
  /\ malloc_events' = IF concurrent_copy THEN [malloc_events EXCEPT ![k] = "clear"]
                      ELSE malloc_events
  /\ UNCHANGED <<memVars, ledger, ready, done_events>>

(* The call that allocates: the first to arrive, or with single copy that   *)
(* of the first worker.                                                     *)
SendFirst(k, s) ==
  /\ send[<<k, s>>] = "idle"
  /\ IF concurrent_copy THEN malloc_events[k] = "none" ELSE s = 0
  /\ first' = first \cup {<<k, s>>}
  /\ \/ /\ Fits(occupancy, Size[k]) # {}
        /\ Allocated(k, s)
     \/ /\ ~Oversize(Size[k]) /\ Fits(occupancy, Size[k]) = {}
        /\ NoBuffer(k, s, "memwait")
     \/ /\ Oversize(Size[k])
        /\ NoBuffer(k, s, "failed")
  /\ UNCHANGED <<shards_sent, saved_buffers, ref_counts, concurrent_copy, out, unlink>>

RetryAllocate(k, s) ==
  /\ send[<<k, s>>] = "memwoken"
  /\ \/ /\ Fits(occupancy, Size[k]) # {}
        /\ Allocated(k, s)
     \/ /\ Fits(occupancy, Size[k]) = {}
        /\ NoBuffer(k, s, "memwait")
  /\ UNCHANGED <<shards_sent, saved_buffers, ref_counts, first, concurrent_copy, out, unlink>>

(* Single copy: the calls of the other workers are ignored. *)
SendIgnored(k, s) ==
  /\ ~concurrent_copy /\ s # 0 /\ send[<<k, s>>] = "idle"
  /\ send' = [send EXCEPT ![<<k, s>>] = "ok"]
  /\ UNCHANGED <<memVars, bookVars, ready, out, unlink>>

(* Concurrent copy: a later call finds the buffer or sleeps until it is     *)
(* there.                                                                   *)
SendLater(k, s) ==
  /\ concurrent_copy /\ send[<<k, s>>] = "idle" /\ malloc_events[k] # "none"
  /\ IF malloc_events[k] = "set" THEN StartCopy(k, s)
     ELSE send' = [send EXCEPT ![<<k, s>>] = "waiting"] /\ UNCHANGED <<ready, done_events>>
  /\ UNCHANGED <<memVars, malloc_events, ledger, shards_sent, saved_buffers, ref_counts,
                 first, concurrent_copy, out, unlink>>

ResumeLater(k, s) ==
  /\ send[<<k, s>>] = "waiting" /\ malloc_events[k] = "set"
  /\ StartCopy(k, s)
  /\ UNCHANGED <<memVars, malloc_events, ledger, shards_sent, saved_buffers, ref_counts,
                 first, concurrent_copy, out, unlink>>

-----------------------------------------------------------------------------
(* Announced without waiting for the other shards. *)
FirstOutEager(k, s, d) == IF d \in InterDsts[k] \/ s = 0 THEN "preparing" ELSE "ok"

(* What a shard's part for destination d begins with: only the first        *)
(* worker announces a buffer on its node, when every shard is in it.        *)
FirstOut(k, s, d) ==
  IF d \in InterDsts[k] THEN "preparing"
  ELSE IF s # 0 THEN "ok"
  ELSE IF concurrent_copy THEN "waitdone" ELSE "preparing"

(* One reference for all, and one for each worker of the sender's group. *)
RefCountOne(k) == 1
RefCountOfGroup(k) == Cardinality(IntraDsts[k]) * GroupSize
RefCount(k) == Cardinality(IntraDsts[k])

(* The shard is in the buffer; the parts for the destinations are started,  *)
(* and the call that allocated makes the tracker that Unlink looks for.     *)
Copied(k, s) ==
  /\ send[<<k, s>>] = "copying"
  /\ send' = [send EXCEPT ![<<k, s>>] = "sending"]
  /\ MarkShardReady(k, s)
  /\ out' = [o \in Outs |-> IF o[1] = k /\ o[2] = s THEN FirstOut(k, s, o[3]) ELSE out[o]]
  /\ IF <<k, s>> \in first /\ IntraDsts[k] # {}
       THEN /\ saved_buffers' = saved_buffers \cup {k}
            /\ ref_counts' = [ref_counts EXCEPT ![k] = RefCount(k)]
       ELSE UNCHANGED <<saved_buffers, ref_counts>>
  /\ UNCHANGED <<memVars, malloc_events, ledger, shards_sent, first, concurrent_copy, unlink>>

Part(o, from, to) ==
  /\ out[o] = from
  /\ out' = [out EXCEPT ![o] = to]
  /\ UNCHANGED <<memVars, bookVars, ready, send, unlink>>

(* _send_intra_node_buffer waits for the copies of all shards. *)
AllCopied(o) == o[1] \in done_events /\ Part(o, "waitdone", "preparing")

(* The other server has handled PrepareReceive; its answer comes later.     *)
Handled(o) == Part(o, "preparing", "handled")

Abort(o) == o[3] \in Aborting /\ Part(o, "preparing", "aborted")

Answered(o) ==
  Part(o, "handled", IF o[3] \in InterDsts[o[1]] THEN "transfer" ELSE "ok")

Transferred(o) == Part(o, "transfer", "ok")

-----------------------------------------------------------------------------
NotifyNobody(c, state) == send' = [send EXCEPT ![c] = state]

(* The call c returns; notify_all wakes every call that waits for memory.   *)
NotifyMemory(c, state) ==
  send' = [x \in Chunks \X Shards |->
             IF x = c THEN state
             ELSE IF send[x] = "memwait" THEN "memwoken" ELSE send[x]]

PartsOf(k, s) == { o \in Outs : o[1] = k /\ o[2] = s }

(* The shard itself not counted, and every shard taken for the last. *)
LastSentStale(k, s) == shards_sent[k] = Copiers
LastSentEarly(k, s) == s \in Copiers

(* Is shard s the last of the buffer to be sent? *)
LastSent(k, s) == shards_sent[k] \cup {s} = Copiers

(* Every part has succeeded: with no destination on this node the buffer is *)
(* freed, by the last shard when there are several.                         *)
Gathered(k, s) ==
  /\ send[<<k, s>>] = "sending" /\ \A o \in PartsOf(k, s) : out[o] = "ok"
  /\ \/ /\ IntraDsts[k] # {}
        /\ send' = [send EXCEPT ![<<k, s>>] = "ok"]
        /\ UNCHANGED <<occupancy, ledger, shards_sent>>
     \/ /\ IntraDsts[k] = {} /\ ~LastSent(k, s)
        /\ shards_sent' = [shards_sent EXCEPT ![k] = @ \cup {s}]
        /\ send' = [send EXCEPT ![<<k, s>>] = "ok"]
        /\ UNCHANGED <<occupancy, ledger>>
     \/ /\ IntraDsts[k] = {} /\ LastSent(k, s)
        /\ shards_sent' = [shards_sent EXCEPT ![k] = @ \cup {s}]
        /\ ledger' = ledger \ {k}
        /\ occupancy' = occupancy \ slots[k]
        /\ NotifyMemory(<<k, s>>, "ok")
  /\ UNCHANGED <<slots, malloc_events, done_events, ready, saved_buffers, ref_counts, first,
                 concurrent_copy, out, unlink>>

(* gather raises with the first part that does; the others go on.           *)
GatherRaises(k, s) ==
  /\ send[<<k, s>>] = "sending" /\ \E o \in PartsOf(k, s) : out[o] = "aborted"
  /\ send' = [send EXCEPT ![<<k, s>>] = "failed"]
  /\ UNCHANGED <<memVars, bookVars, ready, out, unlink>>

(* A receiver of this node that was told of the buffer is done with it.     *)
Told(k, d) == out[<<k, 0, d>>] \in {"handled", "ok"}

Unlink(k, d) ==
  /\ Told(k, d) /\ unlink[<<k, d>>] = "no"
  /\ \/ /\ k \notin saved_buffers \/ ref_counts[k] = 0
        /\ unlink' = [unlink EXCEPT ![<<k, d>>] = "refused"]
        /\ UNCHANGED <<occupancy, saved_buffers, ref_counts, send>>
     \/ /\ k \in saved_buffers /\ ref_counts[k] > 0
        /\ unlink' = [unlink EXCEPT ![<<k, d>>] = "done"]
        /\ ref_counts' = [ref_counts EXCEPT ![k] = @ - 1]
        /\ IF ref_counts[k] = 1
             THEN /\ saved_buffers' = saved_buffers \ {k}
                  /\ occupancy' = occupancy \ slots[k]
                  /\ NotifyMemory(<<k, 0>>, send[<<k, 0>>])
             ELSE UNCHANGED <<occupancy, saved_buffers, send>>
  /\ UNCHANGED <<slots, malloc_events, done_events, ledger, ready, shards_sent, first,
                 concurrent_copy, out>>

-----------------------------------------------------------------------------
SendCalls == \E k \in Chunks, s \in Shards :
  SendFirst(k, s) \/ SendLater(k, s) \/ SendIgnored(k, s)

Resumptions == \E k \in Chunks, s \in Shards :
  RetryAllocate(k, s) \/ ResumeLater(k, s) \/ Gathered(k, s) \/ GatherRaises(k, s)

Completions ==
  \/ \E k \in Chunks, s \in Shards : Copied(k, s)
  \/ \E o \in Outs : AllCopied(o) \/ Handled(o) \/ Answered(o) \/ Transferred(o)

Receivers == \E u \in IntraPairs : Unlink(u[1], u[2])

(* Every Send of a chunk that fits the slab has returned, or a call to a    *)
(* receiver was aborted, whose buffer nobody frees, so that others may wait *)
(* for its memory.                                                          *)
Returned ==
  \/ \A k \in Chunks, s \in Shards : Oversize(Size[k]) \/ send[<<k, s>>] \in {"ok", "failed"}
  \/ \E o \in Outs : out[o] = "aborted"
Stop == Returned /\ UNCHANGED vars

Next == SendCalls \/ Resumptions \/ Completions \/ Receivers \/ (\E o \in Outs : Abort(o)) \/ Stop

Spec == Init /\ [][Next]_vars

(* The event loop, the copies, the network and the receivers go on; every   *)
(* call takes a bounded number of steps, so that fairness of the groups is  *)
(* enough.  Nothing has to abort.                                           *)
Fairness ==
  WF_vars(SendCalls) /\ WF_vars(Resumptions) /\ WF_vars(Completions) /\ WF_vars(Receivers)

FairSpec == Spec /\ Fairness

-----------------------------------------------------------------------------
TypeOK ==
  /\ concurrent_copy \in BOOLEAN
  /\ occupancy \subseteq Slots
  /\ slots \in [Chunks -> SUBSET Slots]
  /\ malloc_events \in [Chunks -> {"none", "clear", "set"}]
  /\ done_events \subseteq Chunks
  /\ ledger \subseteq Chunks
  /\ ready \in [Chunks -> SUBSET Shards]
  /\ shards_sent \in [Chunks -> SUBSET Shards]
  /\ saved_buffers \subseteq Chunks
  /\ ref_counts \in [Chunks -> Nat]
  /\ first \subseteq Chunks \X Shards
  /\ send \in [Chunks \X Shards -> SendStates]
  /\ out \in [Outs -> OutStates]
  /\ unlink \in [IntraPairs -> {"no", "done", "refused"}]

(* Somebody reads or writes the buffer: a copy into it is under way, UCX is *)
(* sending from it or has yet to, or a receiver of this node was or will be *)
(* told of it and has not given it back.                                    *)
InUse(k) ==
  \/ \E s \in Shards : send[<<k, s>>] = "copying"
  \/ \E s \in Shards, d \in Dsts(k) : out[<<k, s, d>>] \in {"waitdone", "preparing", "transfer"}
  \/ \E s \in Shards, d \in InterDsts[k] : out[<<k, s, d>>] = "handled"
  \/ \E d \in IntraDsts[k] : Told(k, d) /\ unlink[<<k, d>>] = "no"

(* A buffer in use is neither freed nor given to another chunk, in whatever *)
(* order copies, transfers, answers and Unlinks complete and whichever of   *)
(* them fail (send:230-233: whenever intra-node forward is involved, there  *)
(* is a reference count, "initialized as the number of dst_ranks").         *)
UsedBuffersAreHeld ==
  /\ TypeOK
  /\ \A k \in Chunks : InUse(k) =>
       /\ slots[k] # {} /\ slots[k] \subseteq occupancy
       /\ \A l \in Chunks \ {k} : InUse(l) => slots[k] \cap slots[l] = {}

(* A receiver of this node is told of a buffer only with every shard in it  *)
(* (send:222-224) and with the tracker its Unlink needs, whichever worker's *)
(* call came first, so that no Unlink is refused (unlink:190-192); off the  *)
(* node a buffer is sent shard by shard, each after its copy.               *)
ToldOfWholeBuffers ==
  /\ \A u \in IntraPairs : unlink[u] # "refused"
  /\ \A k \in Chunks, s \in Shards :
      /\ \A d \in IntraDsts[k] : Told(k, d) => ready[k] = Copiers
      /\ \A d \in InterDsts[k] : out[<<k, s, d>>] \in {"handled", "transfer", "ok"} => s \in ready[k]

(* Every Send of the chunk has succeeded and every receiver of this node    *)
(* has given it back.                                                       *)
Over(k) ==
  /\ \A s \in Shards : send[<<k, s>>] = "ok"
  /\ \A d \in IntraDsts[k] : unlink[<<k, d>>] # "no"

(* A chunk that is over leaves nothing behind: its slots were freed, by the *)
(* last shard sent or by the last Unlink, whatever else failed meanwhile.   *)
NothingLeft ==
  /\ occupancy \subseteq UNION { slots[k] : k \in { l \in Chunks : ~Over(l) } }
  /\ \A k \in saved_buffers : ~Over(k)

(* Every Send of a chunk that fits the slab returns, also when it has to    *)
(* wait for the memory of chunks that are given back, as long as no call to *)
(* a receiver is aborted.                                                   *)
EverySendReturns == <>Returned

=============================================================================
