# Cornserve in TLA+

Cornserve serves multimodal models on a cluster of GPUs. An application is a
graph of *unit tasks*; every unit task has a pool of *task executors* (Eric for
encoders, Geri for generators, vLLM for language models), and the executors
hand each other tensors through *Sidecars*, one server per GPU, which own slabs
of shared memory. This directory models the parts of it in which the order of
events decides whether it works, checks them with TLC, and proves some of the
results with TLAPS for all sizes. Source paths are relative to the repository;
`sidecar/` below means `src/python/cornserve/services/sidecar/`.

## The system

| Component | State | Operations | Talks to | Hard behaviour |
|---|---|---|---|---|
| Sidecar receiver (`sidecar/receiver.py`) | ledger of requests and chunks, malloc events, slab | PrepareReceive, CloseStream, Receive, MarkDone, receive tasks | senders of all nodes by gRPC and UCX, its own clients | shards and chunks in any order; one event for all readers of a request; waiting for memory |
| Sidecar sender (`sidecar/sender.py`) | ledger, malloc and done events, sent shards, trackers with reference counts, slab | Send (concurrent or single copy), CloseStream, Unlink | clients, receivers by gRPC, UCX | several workers fill one buffer; who frees it and when; aborted calls |
| Shared memory (`sidecar/shm_manager.py`) | occupancy of the slots | allocate, free, create_shards | the two above | boundaries of the scan; no check in free |
| Sidecar server and client (`sidecar/server.py`, `src/python/cornserve/sidecar/api.py`) | rank, group, the two halves; a thread pool | Register, Send, Recv, MarkDone | executors | `mark_done_sync` through a pool of threads; Register while in use |
| Eric message queue (`task_executors/eric/distributed/shm_broadcast.py`) | a ring of chunks with a written flag and one read flag per reader, an overflow socket | enqueue, dequeue | engine process and worker processes | no lock: flags only |
| Resource Manager (`services/resource_manager/`) | task manager states, owners of GPUs | Deploy, Teardown, Scale, Healthcheck | gateway, task managers, dispatchers, Kubernetes | failures at every step, calls side by side, two levels of locks |
| Task Manager (`services/task_manager/`) | its GPUs, its executors and their pods, a round-robin counter | RegisterTask, UpdateResources, GetRoute, Shutdown | Resource Manager, dispatcher, Kubernetes | executors that do not come up or cannot be killed; routing while scaling |
| Gateway (`services/gateway/`) | applications, sessions, tasks with usage counts, invocations | register and unregister, declare_used, declare_not_used, invoke | Resource Manager, dispatchers | rollback, usage counts of concurrent users, cancellation |
| Task Dispatcher (`services/task_dispatcher/`) | table of deployed tasks | notify, invoke | Resource Manager, task managers, executors | teardown under a running invocation; a graph whose pieces must find each other |
| Task registry (`services/task_registry/`) | classes, descriptors and instances from custom resources | watchers, sync, purge | Kubernetes, the command line | reconnects, ordering of watch events |
| Task programming model (`task/base.py`, `src/tasklib/`) | a recording of unit task invocations | record, dispatch, replay | dispatcher, descriptors | forwards popped, connected and zipped in three orders |
| Eric engine (`task_executors/eric/engine/`, `executor/`) | futures, a queue of data, a batch, workers | embed, schedule, execute, mark done | router, workers, Sidecar | a request over several batches; a worker that dies |
| Eric models (`task_executors/eric/models/`) | none | forward | the worker's ranks | unbatching after permutations; shards of fused weights |
| Geri engine (`task_executors/geri/`) | queues, streams, a batch | generate, stream, disconnect | router, Sidecar | chunked decoding of padded batches; streams of unequal length |

What makes each of them correct:

- *Receiver*: readers get whole tensors, are told the end of a stream only when
  it is one, never sleep with nothing left to wake them; slots belong to one chunk and come back.
- *Sender*: nobody is told of a buffer before it is full and tracked; a buffer
  in use is not given away; every Send returns and every buffer comes back.
- *Message queue*: every reader obtains all objects in order, whole.
- *Resource Manager and Task Manager*: no GPU is used by two; none is lost;
  what is reported as given back has no pod; every call returns.
- *Gateway*: a task is ready exactly while somebody uses it.
- *Dispatcher*: an invocation gets to the instance that runs, and ends, also
  when its task goes; what an executor awaits is what another is told to send.
- *Registry*: after a sync a service knows what had been deployed before it.
- *Engines*: every request is answered once, with its own data and all of it.

## The modules

| Module | Models |
|---|---|
| `ShmManager` | `SharedMemoryManager.allocate` as the first window of free slots, with `FirstFit` chosen from `Fits`; used by both halves of the Sidecar |
| `ShmFirstFit` | the loop of `allocate`, one iteration per step, against `ShmManager` |
| `SidecarReceiver` | the receiver server and what its callers may do |
| `ChunkStore` | what a receiver promises its clients; `SidecarReceiver` implements it |
| `SidecarSender` | Send of tensors and Unlink |
| `ShmBroadcast` | the ring of `shm_broadcast.py`, one step per load or store of a flag |
| `Broadcast` | a queue that every reader reads to the end; `ShmBroadcast` implements it |
| `ClusterGPUs` | `Resource.allocate`, the loop over batch sizes of a scale-up, the grouping of GPUs into executors |
| `ResourceManager` | Deploy, Teardown and Scale of the Resource Manager and what task managers do with the GPUs |
| `TaskManager` | one task manager: pods that are spawned and killed one call of Kubernetes at a time, and routes |
| `TaskDispatcher` | extends `TaskManager` with the deployments of its task, the replicas of the dispatcher and the invocations |
| `TaskGraph` | a composite task from its contents to the requests that the executors get: recording, dispatch, descriptors, replay |
| `Gateway` | declare_used, declare_not_used, rollback, applications, sessions, invocations |
| `TaskLease` | what the gateway promises its users; `Gateway` implements it |
| `Registry` | custom resources, the watchers of every service, loading, purges and the sync |
| `EricEngine` | client, engine loop, executor and workers of Eric |
| `EncoderBatch` | what the workers compute: a batch of data through one of the encoders, on some ranks |
| `VisionBatch`, `AudioBatch`, `TileBatch` | the forward passes of the Qwen vision encoders, of the Qwen audio encoders, and of InternVL, LLaVA-OneVision and Gemma 3 |
| `TensorParallel` | the sharding of attention and feed-forward layers by all of Eric's models |
| `Tensors` | the operations of torch that those are made of |
| `GeriEngine` | Geri in both modes, with the chunked decoding of audio |
| `MC...` | values of the constants for TLC, and the pairs of modules that are checked in one run |
| `..._proofs` | theorems |

### State and actions

All servers are asyncio event loops. An action is one segment of a handler, from
an await that suspends to the next, so that everything a handler does between
two awaits is one step; a lock around code without an await leaves no trace. A
call of another process is one step when it is handled and one when it is
answered if the code can tell the difference. Tensors and objects are named by
their request and chunk; their bytes are left out.

- **`SidecarReceiver`.** `ledger`, `num_chunks`, `done_event`, `chunk` and `slots`
  are the fields of `RecvRequestState` and its chunks; `malloc_event` is the
  table of malloc events; `prep`, `call` and `mark` say where each
  PrepareReceive, Receive and MarkDone handler is. `PrepareFirst`,
  `RetryAllocate`, `PrepareLater`, `ResumeLater` and `PrepareWhole` are
  `prepare_receive` up to its awaits, `ShardReceived` is `recv_task`;
  `Receive`/`ResumeReceive` are `receive`, whose loop body is `Iterate`;
  `MarkDone`/`Unlinked` are `mark_done` before and after the Unlink call, and
  `UnlinkFails` is its end when that call is refused or raises. What a
  client may call (`MayReceive`, `MayMark`) is what `api.py` and its users do:
  chunks are read in order and marked when every reader has them. `Sequential`
  says that the MarkDone calls of a request are issued one after the other, as
  `mark_done` does and `mark_done_sync` does not.
  `Asking` are the requests whose reader goes on until it is told that there are no
  more chunks (`recv` of a chunk past the end returns None); of the others only the
  chunks that are sent are read.
- **`SidecarSender`.** One Send per chunk and worker, and for each destination a
  part (`out`) that waits for the copies, announces the buffer and, for other
  nodes, transfers the shard. `RefCount`, `LastSent` and `FirstOut` are the
  three decisions that determine who frees the buffer and when.
  `concurrent_copy` is chosen at the start among `CopyModes`.
- **`ShmBroadcast`.** The writer clears the written flag, writes, clears the
  read flags one by one and sets the written flag; a reader loads its own flag
  and the written flag in two steps, copies and sets its flag. Memory is
  sequentially consistent, as the module's own comment on x86 assumes.
- **`ResourceManager`.** `dep`, `td` and `sc` say where each Deploy, Teardown and
  Scale is; `owner` is `GPU.owner`, `resources` the list of a
  `TaskManagerState`, `gpus` and `executors` what its task manager has. The
  gateway's side is an assumption, written as guards: it deploys or tears down
  a task when no other such call for it is under way (`Settled`; the lock of
  `Gateway` is why), tears down after a failed Deploy, and scales tasks that are
  ready (`MayScale`), beside anything else. A gateway that has restarted may
  deploy a running task. `Register` is everything between the creation of the
  pod and the sync of the registry: RegisterTask may fail with executors left
  behind, or succeed and the sync fail after it (`undo`). `Update` is a whole
  `update_resources`: the call may fail without effect, or take effect and its
  answer be lost; executors may not come up and others may not be killed. A
  `Shutdown` may not reach the task manager, and the code frees its GPUs all the
  same. `astray` are the task managers whose executors the Resource Manager has
  thereby lost sight of.
- **`TaskManager`.** An executor is its set of GPUs. `gpus`, `owner`,
  `pod_names`, `deployments` and `rr_counter` are the fields of the class;
  `phase` says where the spawn or kill of each executor is (`update_resources`
  gathers them, so that they interleave), and `pods` what Kubernetes has.
  `Update` runs up to the first kill, `Regroup` from the last kill to the
  spawns, `Finish` to the answer. `trouble` is chosen at the start: none, API
  calls that fail (also after they had their effect), or notifications that do
  not arrive; the invariants say which of them they survive.
- **`TaskDispatcher`.** `rm` says where the Resource Manager is with the task,
  `tables` what each replica knows, `inv`, `found` and `executor` where an
  invocation is. `Lookup` is the scan for an equivalent task; `GetRoute` meets
  whatever the task manager is doing.
- **`TaskGraph`.** One variable, the plan; a step adds a content. The rest is a
  chain of operators in the order of the code: `EncoderCalls` and `Embeddings`
  (`invoke` of the composite task), `Recorded` (the task context), `Connected`
  and `Accepted` (the dispatcher), `Sent` and `Awaited` (the descriptors),
  `Replayed`.
- **`Gateway`.** The three tables of the task manager, the snapshot a rollback
  restores, and for each user where its declaration is. `DeclareUsed` takes the
  lock, counts and lists what to deploy; `Deployed` is one answer,
  `AllDeployed` the end of the gather, with the rollback if there are errors.
  `running` is what the Resource Manager has, so that the tables can be wrong.
  When an instance cannot be created the Deploys that were started for the
  instances before it go on (`flight`) beside the rollback, and one that its
  Teardown has overtaken comes up behind the gateway's back (`DeployedLate`);
  `unsure` are the tasks of which a Teardown has failed or a Deploy was left in
  flight.
- **`Registry`.** `log` is the history that Kubernetes keeps. Each service has
  two watchers, with the version each has reached (`rv`) and the list it
  handles (`listing`); `registry` has the files, classes and descriptors that
  are loaded and those that wait. `promised` records what the syncs have waited
  for, which is what the requests have recorded (`WaitedFor`), and `overtaken` the
  services that a deletion has purged of what was deployed after it. The client is
  `cornserve tasklib deploy` (`cli/main.py:733-787`), which deploys as soon as its
  purge is answered, in requests of which the second brings no descriptor; a
  request may fail half-way, and the client start over.
- **`EricEngine`.** `client` are the futures, `requests` and `responses` the two
  sockets with the queues behind them, `queue` and `done` the request queue of
  the scheduler, `worker` and `response_mq` the workers and their queues.
  `Schedule` builds a batch of `SameKind`, `Execute` is a worker's whole
  `execute_model`, `Respond` marks done and answers.
- **`EncoderBatch` and its parts.** A family of models, a degree of
  parallelism and the batch, to which a step adds a datum; what the encoders
  make of each batch is a constant, computed once. A patch, frame or tile is a label that says what it shows; a layer is
  what it does to the order and the grouping of labels, and attention adds to
  each token the set of those it has seen. The operators are the methods of the
  models, in their order. In `TensorParallel` the label is the row of a weight:
  the shards of every rank are followed through projection, gather, split,
  attention, output projection and all-reduce to a set of terms.
- **`GeriEngine`.** As Eric's, with a queue for each stream. `Slice` is the
  arithmetic with which `generate` cuts context and padding off a decoded
  chunk, in codes, and `Unfinished` which requests of a batch go on.

## The runs

| Run | Question | Bounds |
|---|---|---|
| `ReceiverStream` | do concurrent readers of a stream get whole chunks, the true end, and sleep only while something will wake them; is nothing left; is it a `ChunkStore`? | one stream of an object, a tensor of two shards and a tensor of the node, whose Unlink may fail; two readers |
| `ReceiverAtOnce` | (violated) does no Receive sleep beside its own chunk? | as before |
| `ReceiverPressure` | are slots held by one chunk each, does no allocation sleep in vain, does everything come back? | tensors of two shards: one request of two, one as large as the slab of two slots, one larger; one reader |
| `Sender` | is a buffer in use never given away, also when a part of a Send fails; is only copied data announced; does every Send return and is nothing left? | three tensors, two slots, one too large, two destinations that may abort; both copy modes |
| `SenderMixed` | (violated) is a buffer in use never given away, with destinations on this node and on others? | two tensors, one slot |
| `SharedMemory` | is the ring a broadcast queue, without torn copies, to all readers? And does the scan of `allocate` return the first fit, and None only when nothing fits? | three readers, two chunks, objects below, at and above the size of a chunk; all occupancies of 6 slots, all sizes |
| `ResourceBooks` | which GPUs may be shared or lost, and does every call return? | two tasks, one deployed twice, a scale-up by 3 in two batches and a scale-down by 1, four GPUs on two nodes; five calls (`MaxCalls`) |
| `Gateway` | are uses counted right, is what runs what is known, do invocations have their tasks, does every request end; is it a `TaskLease`? | two applications and a session that share a task, with two invocations; or two applications that are removed before they are ready; an instance that cannot be created after others' Deploys have been started, and Teardowns that fail |
| `Routing` | are pods never on one GPU, is what is answered as free free, is the running instance found, does every call end? And is what is sent what is awaited? | three GPUs, executors of 1 or 2, two deployments, two updates, two replicas, one invocation; all requests of up to three contents of two modalities, for three kinds of composite tasks, and all routes over two ranks |
| `Registry` | has whoever was synced loaded what it was promised, does everything wait for a reason, do the services converge? | two tasks, one of which imports the other, a descriptor, in the two requests of `tasklib deploy`; a control plane service and a task manager; one start over with or without a purge (`MaxRounds`), one fault (`MaxFaults`); task managers start in the first round and before the fault (`ManagersFirst`) |
| `EricEngine` | is what is answered embedded once by each worker, are kinds served in order, does every request end? And does each datum of a batch get its own tokens, and do the ranks compute what one device would? | four requests, two kinds, batches of two, two workers; batches of up to two images or videos (three grids), audios (seven lengths each), tiled images (four sizes), layouts (three), videos (two lengths); 8 heads on 1 to 4 ranks |
| `GeriEngine` | has each client a prefix of its own audio, all of it when told so, and is every request answered? | three requests of 1, 2 and 3 codes, two of which may share a batch, chunks of 1 and 2 codes with a code of context; both modes |

Why these are enough. Every hazard in `PROJECT.json` is between two or three
actors: two readers on one event, an allocation beside two that wait, two
workers on one buffer, two readers and a writer that laps them, a scale beside a
teardown beside a scale, a user that gives back what another declares. Each of
them has an instance in which all the actors occur, the scarce resource (slots,
chunks of the ring, GPUs, places in a batch) is smaller than what is asked for,
and an operation occurs both before and after it is exhausted. The sizes 1, 2
and 3 over two slots include fits, non-fits that may fit later, and non-fits
that never can. In the encoders one datum is affected by another only through
what comes before or after it in the batch, so that two data of every pair of
shapes show it; the shapes include grids that fill their windows and grids that
do not, audios that end with a chunk, one frame after it and in between, tiles
with and without a thumbnail, and layouts with padding on either side. Three
ranks do not divide the 8 heads (InternViT then computes them on every rank), and
shards of four ranks cross the borders of a fused q, k and v.

Three runs check a pair of modules without common state (`MCTaskDispatcher`,
`MCBroadcast`, `MCEricEngine`): in a behaviour only one of the two moves, so that the states
are the sum of both. All constants of a run are in its configuration.

Two runs are violated. `SenderMixed` states what the docstring at
`sidecar/sender.py:230` says of the reference count: with destinations on this
node and on another the buffer is freed while UCX still reads it.
`ReceiverAtOnce` states what the docstrings of `receive` (`sidecar/receiver.py:294`)
and of `recv_sync` (`src/python/cornserve/sidecar/api.py:386`) say, that a chunk
that is there is returned immediately: a reader sleeps beside its own chunk when
another has cleared the event that both share. What does hold is
`NoneSleepsForGood` of `ReceiverStream`.

### Fairness

Safety is checked without fairness where the run has no liveness property.
Liveness assumes weak fairness of groups of actions: of the server's resumptions
(the event loop runs what is ready), of the peers that have been called
(network, copies, Kubernetes, task managers answer), and, where a property needs
it, of the consumers that have promised to go on (readers receive and mark what
they have). No run assumes fairness of a failure, an abort, a signal or of any
single interleaving, and none assumes strong fairness. Requests, calls of users,
purges and starts of task managers are never fair: nobody need call anything. In
each module the number of calls is finite and every step takes a call further,
so that weak fairness of a group is as good as that of its members. Only in
`TaskDispatcher`, where routing goes on while executors are spawned, the work
for each executor and the end of each pod that is deleted are fair on their own;
pods need not come up.

## What is proved

TLAPS checks the following for all values of the constants that meet the named
assumptions (`ReceiverAssumption`, `NumSlotsAssumption` and the like, which TLC
evaluates in every run).

- `SidecarReceiver_proofs` begins with the slab. `AllocateIsFree` says that an
  allocation of `ShmManager` is inside the slab, free and of the size asked for;
  the receiver's theorems rest on it, and the sender's on a copy of its two lemmas.
  Of the loop of `ShmFirstFit`: its invariant (the run that is counted consists of
  free slots up to the current one and begins at the slab's start or after a used
  slot, and no window that ends before the current slot is free) is inductive; from
  it `NoneIsHonest` and `FirstFitTaken`. Of the receiver, by four inductive
  invariants, each the one before with what the next property needs:
  - `RecvInv` relates the state of a chunk's buffer to where the PrepareReceive
    handlers of its shards are (a tensor is untouched, being allocated, being
    filled or filled, and each phase fixes the malloc event, the slots and the
    arrived shards), says that a reader that has a tensor has it whole, and that
    sleeping allocations do not fit. `TypeOK` is not inductive alone because
    the slots of a chunk are those that `Allocate` returned. From it follow
    `TypeCorrect`, `WholeTensors` and `MemoryWaitsEnd`.
  - `HeldInv` adds the order of MarkDone calls and that two held chunks share no
    slot. Two MarkDone calls for one chunk that overlap break it, so that the
    theorem `HeldOnce` assumes `Sequential`, which the runs have too.
  - `EndInv` adds that a length that is known is the true one and that calls
    past the end are the leader's; from it `EndIsTrue`.
  - `StreamInv` adds what a reader that sleeps waits for: the handler that will
    set the event of its request is still to come or the event is set, the
    chunks that a request has are those of its ledger, and an entry is there
    exactly until the last of them is marked done, which a failed Unlink of that
    one prevents. It needs `Sequential` too. From it `SleepersAreWoken`, which is
    what the docstring of `receive` (297-303) argues about its clear and set: not
    that a reader is woken for its own chunk, but that none sleeps for good and
    that it sleeps beside its chunk only for the sake of another sleeper
    (`Sleepers`, `Cleared`); `EverythingForgotten`, which excepts a request whose
    last Unlink has failed; and the refinement
    `ReceiverIsAStore`: every step is one of the five steps of `ChunkStore` or
    moves nothing that it sees.

- `Gateway_proofs`: `GatewayInv` says that a call inside task_lock is the one
  that has it and is in one of the two methods only, that what is ready while a
  declare_used is under way was ready in its snapshot, and that what is torn
  down is marked. Without the second a rollback could take a task from an
  invocation that was dispatched before, without the third the end of a teardown
  could; with them `InvocationsHaveTheirTasks` is inductive. Nothing is assumed
  of the users there: they may be hasty, give back twice and share whatever they
  like. `LeaseInv` adds that the counter of a task that only trusted users share
  is the number of their declarations that are not given back, and that what the
  Resource Manager runs is in the tables or in the hands of a call under way,
  unless a Teardown of it has failed or a Deploy of it was left in flight
  (`Known`, `Doubted`);
  from it `UsesAreCounted`, `NothingRunsUnknown` and the refinement
  `TasksAreLeased`. The attempt to prove it showed that it is not enough that
  a user is careful and shares its tasks with careful users: let a session u use
  `<<P, P, X>>`, a session v `<<P, Q, Q>>` and a hasty application `<<Q>>`, which
  gives a use of Q back that is not its own. The assertion of `declare_not_used`
  then stops every destruction of v halfway, each takes another use of P, and the
  destruction of u stops at P too, so that X, which only u has, is never given
  back. A user is trusted when
  some set of careful users that has it shares no task with the rest.

- `Senders_proofs`, of the Sidecar's sender: `SendInv` says when a buffer is held (allocated, and
  neither sent by the last shard nor given back by the last receiver), that held
  buffers are in use and share no slot (`HeldApart`), who needs a buffer has one
  (`Buffered`), one call of a chunk is its first and it alone makes the tracker
  (`OneFirst`, `Tracked`), the tracker counts the destinations that have yet to
  give the buffer back, and what each part of a shard says of the copies
  (`CopiesDone`, `PartsCopied`). A freed buffer says something of a late
  transfer only through all of these. `BuffersAreHeld` assumes `OneKind`, that no
  tensor has destinations both on this node and on others, since the run
  `SenderMixed` refutes it otherwise; `WholeBuffers` assumes `NoEmptyShard`, that
  there are elements for every worker, since a first worker without any returns
  before it makes the tracker. `LeftInv` adds that the slots in use are those of
  the held buffers and that the shards sent are counted, from which
  `NothingIsLeft`. It assumes `NoEmptyShard` as well, which TLC shows to be
  needed: with two workers and one element the empty shard (sender.py:431-436) is
  never counted as sent, and a buffer for other nodes only, which the last shard
  should free, stays.

- `Senders_proofs`, of Geri: `WholeAnswers` speaks of what a client has, which
  has been through the line of responses and the queue of its stream, so the
  invariant says what such a line is. `Orderly(line, r, base, sent)`: whoever has
  the first `base` codes of `r` and takes the line gets, piece by piece, the next
  ones without a gap or an overlap up to `sent`, and is told that the stream has
  ended only after the last. `StreamIs` chains the two lines from what the client
  has (`GotIs`) to what the engine has sent, which is `start` or the request's
  length (`SentIs`). Taking the head of a line keeps it orderly (`OrderlyTail`),
  and so do the answers of a turn, of which a request has at most one and the
  right one (`OrderlyConcat`, `IsAnswered`). `SliceIs` is the arithmetic: what is
  cut from the padded wave, with its context, is the request's next piece.
  Batches need that a request is in one place, once (`OnePlace`), and that a batch
  has one set of parameters (`Alike`), since the chunk size is the first
  member's. From `GeriInv`, `AnswersAreWhole`, with no assumption but the types
  of the constants.

- `ClusterGPUs_proofs`: lemmas on what the algorithms of the cluster compute,
  for any GPUs, nodes and sizes. `SortedIs`: sorting a finite set of naturals
  gives each member once, the least first, and so the sizes of `Descending` come
  largest first. `BestIsFreest`: the head of the heap of nodes has the most free
  GPUs, whatever the owner, so that an allocation that cannot be colocated there
  could be nowhere. `ScaleUpIs`: the loop over the sizes takes free GPUs for the
  owner, each once, and leaves all others as they were, also when it ends by an
  error.
  `GroupsDivide`: the groups of `Groups` are disjoint sets of the GPUs that it is
  given, each of one node and of a size of the profile.

- `ResourceManager_proofs`: the books of the Resource Manager, for any cluster,
  tasks and calls. That a GPU is used by its owner alone is not inductive: what
  frees a GPU is not its use but a list in somebody's hands (the resources of a
  state, the batch of a scale-up that is being undone), so `Books` says that
  every such list has only GPUs of its own task manager, each once, and that no
  two lists share any. `HeldIsRecorded` says that what a task manager has is in
  one of those lists, and `Answers` what a Scale knows from the answer of
  UpdateResources: without it a scale-down could free GPUs that the task manager
  still uses. `LocksHeld` keeps the teardown out from under a Scale: both hold
  the lock of the state, and the state that a Scale found before it got the lock
  may be gone by then (`Found`, `Listed`). From these `NoneIsSharedOut` and
  `GivenBackOnce`, which is an action property: `GPU.free` (resource.py:59-62)
  raises at a GPU that is free already, and the theorem says that no list that is
  given back would make it raise, nor free a GPU of someone else. The model's
  `Free` has no such check, and the theorem is why it needs none.
  Task managers that a failure has left astray are excepted from what is said of
  use (`HeldIsRecorded`, `Answers`), not from what is said of the lists: `Books`
  and `GivenBackOnce` hold of all. That no GPU is lost is the converse of `Books`
  (`AllRecorded`), kept by every step on top of it: whatever owns a GPU has it in
  a list, or has dropped it in a scale-up that raised after an earlier batch of
  its loop had succeeded (manager.py:343-348). `NoneIsLost` has no hypothesis on
  profiles or amounts.

- `TaskDispatcher_proofs`, on `GroupsDivide`. Then `PodsInv`: an executor has a
  pod, or a spawn or kill under way, only with GPUs of the manager that no other
  such executor has, and the phase of each says whether it is routed to, whether
  its pod name is known and what its pod may be (`PhaseOK`). That no GPU is in
  two pods is not inductive without the spawns that have no pod yet and without
  the owners of GPUs, by which a regrouping takes only GPUs that no executor
  has. From it `NoGPUInTwoPods` and `FreedGPUsAreFree`. The second needs that a
  registration brings the GPUs of one executor only, as the Resource Manager
  allocates them (resource_manager/manager.py:713-720); with two, the failure of
  one would leave the pod of the other under a manager that is gone. The model
  assumes it in `TaskManagerAssumption`. `FoundInv` says what the table of every
  replica is at each stage of a deployment; from it `RunningInstanceIsFound`,
  which holds whatever the Kubernetes API does.

- `Eric_proofs` begins with the engine: `IInv` says that a request is in one
  place and there once (on its way, in the queue, or responded to), which
  embeddings have been sent of those in each place, that an unfinished request
  with data has data that waits, that a batch is a front of what waits, and what
  each worker has sent of the batch according to its response.
  `AnsweredAreEmbedded` is not inductive alone: that nothing is sent twice rests
  on what waits being unsent and on a batch that ends only when the last worker
  has responded. `InOrderOfArrival` rests on the batch being a front: whoever is
  finished by it has all that came before finished too.

- `Eric_proofs` ends with the ring without a lock. `RingInv` says where every
  process is in the ring by how many objects it has put in or taken out
  (`widx` and `ridx` are these numbers modulo the size of the ring), that the
  readers are behind the writer by no more than the ring holds, that the chunks
  of the objects that some reader may not have taken are written and flagged by
  exactly those who have, and that the socket has the large objects that a
  reader has not received. `NoRace` is not inductive alone: that the writer
  finds a chunk writable says something of the readers only through the objects
  that the flags stand for. Every step keeps `RingInv` and is a step of
  `Broadcast`, which gives `RingIsRaceFree` and the refinement
  `QueueIsBroadcast`.

- `Registry_proofs`. That whatever waits has a reason to is inductive with the
  types and with the directory having the file of every task that waits
  (`Base`); the work is in the lemmas on `Load`, which hold for any imports,
  since a task becomes importable only by files that come. From it
  `WaitingHasAReason`. `PromisedAreLoaded` speaks of one service at one moment
  but rests on the whole history: `SyncInv` says where the client is in its
  requests (`Phases`), that what is deployed came before the recorded version of
  its kind, where there is one (`Logged`, `Newest`), that whatever came before the
  version that a watcher has reached is in the registry, loaded or waiting, unless
  a deletion has overtaken the service (`Watched`), and that what a sync hopes for
  came before the version it waits for (`Hopes`). When both watchers have reached
  it, all that is hoped for has come, and by `WaitingHasAReason` nothing of it can
  still wait, because it is closed under imports. This gives `PromisesAreKept`.
  Of the client it assumes only that it deploys nothing before what it imports
  (`SelfContained`); it may deploy at once after a purge and send requests without
  descriptors, as the command line does. What that costs is in the property: the
  exception of `overtaken`, and that a sync waits for what is recorded.

Each proof has a step per action of `Next`, and lemmas for what an allocation
does, for what a wake-up changes, for the removal of an entry, for the indices
of the ring, for the lines of Geri and for the steps that move no counter.

The induction theorems of the library take an operator as an argument, which the
provers cannot instantiate. What `ClusterGPUs_proofs` says of sequences, of the
loop over the sizes and of the division by any list of them is proved by least
counterexamples instead: a nonempty set of naturals has a least element
(`LeastExists`), and a recursion over the naturals has a function
(`RecursionHolds`, for a step that is itself a function). `TrySize`, `ScaleUpBy`
and `Left` of `ClusterGPUs`, `Without` of `EricEngine` and of `GeriEngine` and
`LoadAll` of `Registry` are recursive functions rather than folds for this reason.

Only model-checked: liveness (out of the prover's reach with fairness, as is
ENABLED), and these invariants.

- `EachItsOwn` and `EveryHeadOnce` of the encoders and `SentIsAwaited` of the task
  graphs say what nested loops and folds over the data of a batch or a request
  compute; proving them is an induction over data.

No module that is proved about uses a RECURSIVE operator.

## What the models leave open

These follow from the code as it is; the models have them, and the properties
say where they except them.

- Sender: destinations of both kinds (`SenderMixed`). A tensor with fewer
  elements than workers has empty shards (`sidecar/sender.py:431`).
- Receiver: a tensor larger than the slab leaves the other shards of its chunk
  asleep (`sidecar/receiver.py:178`), and a request larger than the slab stops
  (102); `EverythingReleased` is about the others. A Receive may sleep beside its
  own chunk when a reader of a later one has cleared the event (`ReceiverAtOnce`);
  the next chunk or the end wakes it. Chunks marked out of order leak slots
  (`Sequential`). A failed Unlink of the last chunk leaves the entry (405-407).
- Resource Manager: a scale-up in batches that runs out of GPUs loses those of
  its earlier batches, because only `CannotColocateError` is caught
  (`manager.py:343-348`). A Teardown under another instance name leaves the task
  manager behind (572). `NoGPULost` excepts these two and says that nothing else
  loses a GPU. GPUs are freed though the task manager may go on using them, when
  Shutdown does not reach it (83-84), a failed scale-up is not taken back from it
  (396-409) or an executor cannot be killed
  (`services/task_manager/manager.py:141-154`): `UsedAreOwned` excepts the task
  managers that are `astray` after such a failure, and says that no other
  interleaving or failure shares a GPU.
- Dispatcher: a replica that misses a notification keeps a dead instance, which
  its lookup finds first (`dispatcher.py:179`); `FoundWhenTold` excepts lost
  notifications. `get_route` raises while a task manager has no executor. A
  forward that no invocation takes fails an assertion, and two consumers on the
  same ranks are told twice.
- Task Manager: when the API fails to delete a pod the manager waits for its
  end for ever; a kill that raises something else than `ApiException` forgets
  the pod, and a create whose answer is lost leaks it. The properties of
  `TaskManager` and `EveryCallEnds` except these failures (`trouble = "api"`);
  what they do to the Resource Manager's books is in `ResourceManager`.
- Gateway: an application that is unregistered while its deployment is under
  way keeps its tasks counted for ever (`Hasty`), and a session whose Teardown
  failed gives back a second time (`Flaky`, `Loose`): the counters and leases are
  claimed for `Trusted` users, who share no task with such a one. After a failed
  Teardown the gateway takes the task for ready (`task_manager.py:100-104,
  213-216`), and a Deploy that was started before another instance could not be
  created may take effect after its Teardown (140-154), so that the task runs
  and the gateway does not know it: `RunningIsKnown` excepts such tasks
  (`unsure`).
- Registry: a service that learns of a deletion from one watcher after the other
  has brought what was deployed since drops it (`registry.py:452-469`) and never
  catches up, unless it restarts or lists the objects again. `tasklib deploy`
  makes that possible, as it deploys as soon as the gateway has answered its
  purge (`cli/main.py:733-787`). `PromisedAreLoaded` and `Converges` except such a
  service (`overtaken`); TLC refutes both without the exception. The second
  request of the command has no descriptors and resets their recorded version to
  0 (`gateway/router.py:487-494`), so that its sync waits for none: what is
  promised is what the sync waited for.
- Eric: after the signal of a worker the engine kills its workers and waits for
  the response of one of them (`Hung`); `/health` goes on saying OK. A request
  without data ends the engine (`ScheduleFails`).
- Geri: the queue of a stream whose consumer leaves is kept for ever
  (`client.py:262`); an error in the middle of a stream only shortens it, as
  far as the HTTP client can tell; nothing marks chunks of the Sidecar done.
- Encoders: `squeeze` of a batch whose only datum has one merged token or frame,
  audios of Qwen2.5-Omni of two frames and less (`AudioAssumption`), videos of
  LLaVA-OneVision of one frame (`llava_onevision.py:256`), tiles that it scales
  because their ratio exceeds its maximum, and heads of keys fewer than those of
  queries (`layers/linear.py:366` asserts that they are equal, though the
  docstring at 199-209 describes the other case) are outside the assumptions.
  Qwen3-Omni's convolutions over padded chunks are not masked
  (`qwen3_omni_moe.py:657-672`), so that the last token of a chunk shorter than
  the longest of its batch may be made of padding; a token is labelled so, and
  `EachItsOwn` says which ones are.
- Composite tasks: the Omni task without fission of the vocoder is not in
  `TaskGraph`. A decode task is sent the embeddings as the prefill is, though a
  comment says that it needs them only sometimes (`composite/llm.py:314-316`).
- Geri: the branch that sends ERROR after FINISHED (`core.py:619-628`) is left
  out: it cannot be reached, since `generate` of the one streaming model is a
  generator function, which raises only when it is asked for a chunk.

## What is not modelled

`PROJECT.json` lists every component with its reason. In short: HTTP routes that
forward, serialization, tracing, profilers, container command lines, the command
line's output, the download of data and the loading of checkpoints are not,
because they keep no state that several actors share. Inside the modelled parts
these are left out: objects sent by a sender (one message without state), the
thread pool of the client beyond the order of its calls, `Register` of a Sidecar
while it is in use, the launch of sidecar pods, `healthcheck` and `scale` of the
gateway, which read or forward, the numbers in tensors, the image processors of
transformers (external operators give the order of patches and tiles that they
produce), and crashes of servers that keep their state in memory only and so
cannot recover (the registry is the one that does, and its crashes are
modelled).

## Plan

What could come next: a `Register` that replaces both halves of a Sidecar while
calls are under way, sender and receiver of two nodes composed, the orderly
shutdown of the two engines, and theorems for what is still only model-checked,
of which the order of the batches of the encoders (`EachItsOwn`) is the most
useful.
