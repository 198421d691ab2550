------------------------------ MODULE EricEngine ------------------------------
(***************************************************************************)
(* Eric (task_executors/eric), from the HTTP handler to the workers.  The  *)
(* server process keeps a future for each request and sends the request to *)
(* the engine process, whose loop batches waiting data of the same kind    *)
(* (modality and adapter), has all workers execute the batch and answers   *)
(* the requests that are complete.  A worker that fails answers with its   *)
(* exception, sends a signal to the engine and ends.                       *)
(*                                                                         *)
(* The socket and the queue behind it are one FIFO (`requests`), and so is *)
(* the way back (`responses`).  The ring between the executor and the      *)
(* workers is the one of ShmBroadcast: a batch is enqueued when all        *)
(* workers wait for one, so that each of them gets it.                     *)
(***************************************************************************)
EXTENDS Naturals, Sequences, FiniteSets, Functions

CONSTANTS
  Requests,  (* the embedding requests, named by their id                  *)
  Kinds,     (* the pairs of a modality and an adapter                     *)
  Data,      (* [Requests -> the kinds of their data, in order]            *)
  MaxBatch,  (* max_batch_size                                             *)
  NumWorkers (* the degree of tensor parallelism                           *)

ASSUME EngineAssumption ==
  /\ NumWorkers \in Nat \ {0} /\ MaxBatch \in Nat \ {0}
  /\ Data \in [Requests -> Seq(Kinds)]

Workers == 1 .. NumWorkers
ItemsOf(r) == { <<r, i>> : i \in DOMAIN Data[r] }
Items == UNION { ItemsOf(r) : r \in Requests }
KindOf(x) == Data[x[1]][x[2]]

VARIABLES
  client,      (* [Requests -> what has become of the HTTP request]        *)
  server,      (* "up" or "killed": the server process                     *)
  requests,    (* the requests on their way to the engine                  *)
  responses,   (* the lists of request ids on their way to the listener    *)
  queue,       (* request_id_to_request: ids in the order of insertion     *)
  done,        (* the data of waiting requests that is done                *)
  engine,      (* where the engine's loop is                               *)
  batch,       (* the data of the batch in execution, in the queue's order *)
  collected,   (* how many workers' responses run_workers has              *)
  error,       (* whether one of them is an exception                      *)
  shutdown,    (* shutdown_called of the executor                          *)
  worker,      (* [Workers -> what the worker does]                        *)
  response_mq, (* [Workers -> the response in its queue]                   *)
  sent         (* [Workers -> [Items -> times its embedding was sent]]     *)

clientVars == <<client, server>>
queueVars == <<queue, done>>
engineVars == <<engine, batch, collected, error, shutdown>>
workerVars == <<worker, response_mq, sent>>
vars == <<clientVars, requests, responses, queueVars, engineVars, workerVars>>

Init ==
  /\ client = [r \in Requests |-> "idle"] /\ server = "up"
  /\ requests = <<>> /\ responses = <<>>
  /\ queue = <<>> /\ done = {}
  /\ engine = "loop" /\ batch = {} /\ collected = 0 /\ error = FALSE /\ shutdown = FALSE
  /\ worker = [w \in Workers |-> "idle"]
  /\ response_mq = [w \in Workers |-> "none"]
  /\ sent = [w \in Workers |-> [x \in Items |-> 0]]

-----------------------------------------------------------------------------
(* EngineClient.embed, after the data has been processed. *)
Embed(r) ==
  /\ server = "up" /\ client[r] = "idle"
  /\ client' = [client EXCEPT ![r] = "waiting"]
  /\ requests' = Append(requests, r)
  /\ UNCHANGED <<server, responses, queueVars, engineVars, workerVars>>

(* _response_listener resolves the futures of all requests of a response,   *)
(* and not the one of the first only.                                       *)
FirstOf(ids) == IF ids = {} THEN {} ELSE { CHOOSE r \in ids : TRUE }
Resolved(ids) == ids \cap { r \in Requests : client[r] = "waiting" }
Listen ==
  /\ server = "up" /\ responses # <<>>
  /\ client' = [r \in Requests |-> IF r \in Resolved(Head(responses)) THEN "answered" ELSE client[r]]
  /\ responses' = Tail(responses)
  /\ UNCHANGED <<server, requests, queueVars, engineVars, workerVars>>

-----------------------------------------------------------------------------
(* Engine.run: new requests are enqueued before a step, but for those that  *)
(* the receiving thread still has.                                          *)
Enqueue ==
  /\ engine = "loop" /\ requests # <<>>
  /\ queue' = Append(queue, Head(requests))
  /\ requests' = Tail(requests)
  /\ UNCHANGED <<clientVars, responses, done, engineVars, workerVars>>

(* RequestQueue.iter_waiting: the data of the queue that is not done, the   *)
(* requests from the front and the data of each in order.                   *)
Waiting == { x \in Items : x[1] \in Range(queue) } \ done

Before(x, y) ==
  \E m, n \in DOMAIN queue :
    /\ queue[m] = x[1] /\ queue[n] = y[1]
    /\ m < n \/ (m = n /\ x[2] < y[2])
Ahead(S, x) == { y \in S : Before(y, x) }

(* Data of another kind is passed over. *)
SameKindAnywhere(S) ==
  { x \in S : \A y \in S : Ahead(S, y) = {} => KindOf(y) = KindOf(x) }

(* The data up to the first of another kind, and the maximum of it. *)
SameKind(S) == { x \in S : \A y \in Ahead(S, x) : KindOf(y) = KindOf(x) }
AtMost(n, S) == { x \in S : Cardinality(Ahead(S, x)) < n }

(* Engine.step, up to the workers' responses: the scheduler looks for the   *)
(* first data of the request at the head, which has some.                   *)
Schedule ==
  /\ engine = "loop" /\ queue # <<>> /\ Data[Head(queue)] # <<>>
  /\ batch' = AtMost(MaxBatch, SameKind(Waiting))
  /\ engine' = "collect" /\ collected' = 0 /\ error' = FALSE
  /\ worker' = [w \in Workers |-> "busy"]
  /\ UNCHANGED <<clientVars, requests, responses, queueVars, shutdown, response_mq, sent>>

(* An exception ends the engine, which kills its workers and, with a signal *)
(* nobody there handles, the server.                                        *)
EngineEnds ==
  /\ engine' = "ended" /\ shutdown' = TRUE /\ server' = "killed"
  /\ worker' = [w \in Workers |-> "dead"]
  /\ client' = [r \in Requests |-> IF client[r] = "waiting" THEN "lost" ELSE client[r]]

(* The assertion that the request at the head has data fails. *)
ScheduleFails ==
  /\ engine = "loop" /\ queue # <<>> /\ Data[Head(queue)] = <<>>
  /\ EngineEnds
  /\ UNCHANGED <<requests, responses, queueVars, batch, collected, error, response_mq, sent>>

(* run_workers takes the responses in the order of the workers; the queues  *)
(* of the others are gone after a shutdown of the executor.                 *)
Collect ==
  /\ engine = "collect" /\ collected < NumWorkers
  /\ response_mq[collected + 1] # "none"
  /\ response_mq' = [response_mq EXCEPT ![collected + 1] = "none"]
  /\ IF shutdown
     THEN EngineEnds /\ UNCHANGED <<collected, error>>
     ELSE /\ collected' = collected + 1
          /\ error' = (error \/ response_mq[collected + 1] = "error")
          /\ UNCHANGED <<clientVars, engine, shutdown, worker>>
  /\ UNCHANGED <<requests, responses, queueVars, batch, sent>>

WorkersFailed ==
  /\ engine = "collect" /\ collected = NumWorkers /\ error
  /\ EngineEnds
  /\ UNCHANGED <<requests, responses, queueVars, batch, collected, error, response_mq, sent>>

(* RequestQueue.mark_done: requests whose data is all done leave the queue. *)
SomeDone(r, d) == ItemsOf(r) \cap d # {}
AllDone(r, d) == ItemsOf(r) \subseteq d

(* The others keep their order. *)
Without(q, ids) ==
  LET kept[n \in 0 .. Len(q)] ==
        IF n = 0 THEN <<>>
        ELSE IF q[n] \in ids THEN kept[n - 1] ELSE Append(kept[n - 1], q[n])
  IN kept[Len(q)]

Respond ==
  /\ engine = "collect" /\ collected = NumWorkers /\ ~error
  /\ LET now == done \cup batch
         done_ids == { r \in { x[1] : x \in batch } : AllDone(r, now) }
     IN /\ queue' = Without(queue, done_ids)
        /\ done' = { x \in now : x[1] \notin done_ids }
        /\ responses' = Append(responses, done_ids)
  /\ engine' = "loop" /\ batch' = {}
  /\ UNCHANGED <<clientVars, requests, collected, error, shutdown, workerVars>>

-----------------------------------------------------------------------------
(* Worker.run and execute_model: the embeddings of the batch go to the      *)
(* sidecar, then the response to the executor.                              *)
Send(w, part) ==
  sent' = [sent EXCEPT ![w] = [x \in Items |-> IF x \in part THEN @[x] + 1 ELSE @[x]]]

Execute(w) ==
  /\ worker[w] = "busy"
  /\ Send(w, batch)
  /\ response_mq' = [response_mq EXCEPT ![w] = "ok"]
  /\ worker' = [worker EXCEPT ![w] = "idle"]
  /\ UNCHANGED <<clientVars, requests, responses, queueVars, engineVars>>

ExecuteFails(w) ==
  /\ worker[w] = "busy"
  /\ \E x \in batch : Send(w, Ahead(batch, x))
  /\ response_mq' = [response_mq EXCEPT ![w] = "error"]
  /\ worker' = [worker EXCEPT ![w] = "failed"]
  /\ UNCHANGED <<clientVars, requests, responses, queueVars, engineVars>>

(* The worker's signal reaches the engine while it waits for a response:    *)
(* the handler shuts the executor down, and the engine goes on waiting,     *)
(* unless it was just about to look for the next queue.  Its parent, which  *)
(* is not called eric_engine, is not told.                                  *)
Signal(w) ==
  /\ worker[w] = "failed" /\ engine = "collect" /\ collected < NumWorkers
  /\ \/ /\ shutdown' = TRUE
        /\ worker' = [v \in Workers |-> "dead"]
        /\ UNCHANGED <<clientVars, engine>>
     \/ EngineEnds
  /\ UNCHANGED <<requests, responses, queueVars, batch, collected, error, response_mq, sent>>

-----------------------------------------------------------------------------
(* The engine waits for the response of a worker it has killed.             *)
Hung ==
  /\ engine = "collect" /\ shutdown
  /\ collected < NumWorkers /\ response_mq[collected + 1] = "none"

Quiet == \A r \in Requests : client[r] # "waiting"
Rest == (Quiet \/ Hung) /\ UNCHANGED vars

Progress ==
  \/ Listen \/ Enqueue \/ Schedule \/ ScheduleFails \/ Collect \/ WorkersFailed \/ Respond
  \/ \E w \in Workers : Execute(w) \/ ExecuteFails(w)

Next ==
  \/ Progress \/ Rest
  \/ \E r \in Requests : Embed(r)
  \/ \E w \in Workers : Signal(w)

Spec == Init /\ [][Next]_vars

(* The engine's loop, the workers and the listener go on; nobody has to     *)
(* send a request, and a signal may come late.                              *)
Fairness == WF_vars(Progress)
FairSpec == Spec /\ Fairness

-----------------------------------------------------------------------------
TypeOK ==
  /\ client \in [Requests -> {"idle", "waiting", "answered", "lost"}]
  /\ server \in {"up", "killed"}
  /\ requests \in Seq(Requests) /\ responses \in Seq(SUBSET Requests)
  /\ queue \in Seq(Requests) /\ done \subseteq Items
  /\ engine \in {"loop", "collect", "ended"} /\ batch \subseteq Items
  /\ collected \in 0 .. NumWorkers /\ error \in BOOLEAN /\ shutdown \in BOOLEAN
  /\ worker \in [Workers -> {"idle", "busy", "failed", "dead"}]
  /\ response_mq \in [Workers -> {"none", "ok", "error"}]
  /\ sent \in [Workers -> [Items -> Nat]]

(* A request is answered only when every worker has sent its shard of every *)
(* embedding, and no embedding is sent twice, although the data of one      *)
(* request is spread over batches and batches span requests, and whichever  *)
(* worker fails (mark_done, scheduler.py:46-65).                            *)
AnsweredAreEmbedded ==
  /\ TypeOK
  /\ \A w \in Workers, x \in Items :
       /\ sent[w][x] <= 1
       /\ client[x[1]] = "answered" => sent[w][x] = 1

(* Requests with data leave the queue in the order in which they came:      *)
(* waiting data of another kind is never overtaken, so that no kind starves *)
(* another (iter_waiting, scheduler.py:97-123).                             *)
FirstComeFirstServed ==
  [][\A m \in DOMAIN queue : queue[m] \notin Range(queue') =>
       \A n \in 1 .. m : Data[queue[n]] # <<>> => queue[n] \notin Range(queue')]_vars

(* Every request is answered, or its connection is lost with the server,    *)
(* unless the engine hangs.                                                 *)
EveryRequestEnds ==
  \A r \in Requests : client[r] = "waiting" ~> client[r] # "waiting" \/ Hung

=============================================================================
