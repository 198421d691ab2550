------------------------------ MODULE GeriEngine ------------------------------
(***************************************************************************)
(* Geri (task_executors/geri), from the HTTP handler to the model.  A      *)
(* handler waits until the sidecar has the whole embedding of its request  *)
(* and sends the request to the engine process, whose loop executes the    *)
(* longest run of compatible requests at the front of its queue.  A model  *)
(* of images answers them together; a model of audio pads their codes to   *)
(* one length, decodes them chunk by chunk and streams what belongs to     *)
(* each request, the ends of the shorter ones included.                    *)
(*                                                                         *)
(* The sockets and the queues behind them are FIFOs: `requests` to the     *)
(* engine and `responses` back to the client's listener.                   *)
(***************************************************************************)
EXTENDS Naturals, Sequences, SequencesExt

CONSTANTS
  Requests, (* the generation requests, named by their id                  *)
  Length,   (* [Requests -> the number of codes of the embedding]          *)
  Params,   (* [Requests -> the generation parameters]                     *)
  MaxBatch  (* max_batch_size                                              *)

ASSUME GeriAssumption ==
  /\ MaxBatch \in Nat \ {0}
  /\ Length \in [Requests -> Nat \ {0}]
  /\ Params \in [Requests -> [chunk_size : Nat \ {0}, left_context_size : Nat]]

VARIABLES
  geri_mode, (* "batch" or "streaming", by the model                       *)
  client,    (* [Requests -> where the handler of the request is]          *)
  pending,   (* the keys of pending_requests or pending_streams            *)
  stream,    (* [Requests -> what its response_queue holds]                *)
  got,       (* [Requests -> the pieces its HTTP client has, in order]     *)
  requests,  (* the requests on their way to the engine                    *)
  responses, (* the responses on their way to the listener                 *)
  queue,     (* the scheduler's queue                                      *)
  batch,     (* the batch in execution                                     *)
  start,     (* start_index of the model's generator                       *)
  finished   (* the requests of the batch for which request_is_done        *)

clientVars == <<client, pending, stream, got>>
engineVars == <<queue, batch, start, finished>>
geriVars == <<geri_mode, clientVars, requests, responses, engineVars>>

GeriInit ==
  /\ geri_mode \in {"batch", "streaming"}
  /\ client = [r \in Requests |-> "idle"] /\ pending = {}
  /\ stream = [r \in Requests |-> <<>>] /\ got = [r \in Requests |-> <<>>]
  /\ requests = <<>> /\ responses = <<>>
  /\ queue = <<>> /\ batch = <<>> /\ start = 0 /\ finished = {}

Response(r, s, p) == [id |-> r, status |-> s, piece |-> p]
Codes(r) == [i \in 1 .. Length[r] |-> <<r, i>>]

-----------------------------------------------------------------------------
(* generate_batch and generate_streaming: once the sidecar has the whole    *)
(* embedding the engine hears of the request.                               *)
Generate(r) ==
  /\ client[r] = "idle"
  /\ client' = [client EXCEPT ![r] = "waiting"]
  /\ pending' = pending \cup {r}
  /\ requests' = Append(requests, r)
  /\ UNCHANGED <<geri_mode, stream, got, responses, engineVars>>

(* _batch_response_listener resolves the future, which is forgotten. *)
ListenBatch ==
  /\ geri_mode = "batch" /\ responses # <<>>
  /\ LET resp == Head(responses)
         served == { r \in pending : r = resp.id /\ resp.status = "success" }
         refused == { r \in pending : r = resp.id /\ resp.status = "error" }
     IN /\ client' = [r \in Requests |-> CASE r \in served -> "finished"
                                        [] r \in refused -> "failed" [] OTHER -> client[r]]
        /\ got' = [r \in Requests |-> IF r \in served THEN Append(got[r], resp.piece) ELSE got[r]]
        /\ pending' = pending \ {resp.id}
  /\ responses' = Tail(responses)
  /\ UNCHANGED <<geri_mode, stream, requests, engineVars>>

(* _stream_response_listener drops what is for an unknown request. *)
ListenStream ==
  /\ geri_mode = "streaming" /\ responses # <<>>
  /\ LET resp == Head(responses) IN
       stream' = [stream EXCEPT ![resp.id] =
         IF resp.id \in pending THEN Append(@, resp) ELSE @]
  /\ responses' = Tail(responses)
  /\ UNCHANGED <<geri_mode, client, pending, got, requests, engineVars>>

(* generate_streaming after its await: a chunk is yielded; the stream ends, *)
(* for the HTTP client alike, at FINISHED and at ERROR.                     *)
Consume(r) ==
  /\ client[r] = "waiting" /\ stream[r] # <<>>
  /\ LET resp == Head(stream[r]) IN
       IF resp.status = "success"
       THEN /\ got' = [got EXCEPT ![r] = Append(@, resp.piece)]
            /\ stream' = [stream EXCEPT ![r] = Tail(@)]
            /\ UNCHANGED <<client, pending>>
       ELSE /\ client' = [client EXCEPT ![r] =
                 IF resp.status = "finished" THEN "finished" ELSE "failed"]
            /\ pending' = pending \ {r}
            /\ stream' = [stream EXCEPT ![r] = <<>>]
            /\ UNCHANGED got
  /\ UNCHANGED <<geri_mode, requests, responses, engineVars>>

(* The HTTP client of a stream leaves: the handler ends where it awaits or  *)
(* yields, and its queue stays in pending_streams.                          *)
Disconnect(r) ==
  /\ geri_mode = "streaming" /\ client[r] = "waiting"
  /\ client' = [client EXCEPT ![r] = "gone"]
  /\ UNCHANGED <<geri_mode, pending, stream, got, requests, responses, engineVars>>

-----------------------------------------------------------------------------
(* Engine.run: requests that have come are enqueued before the next step. *)
Enqueue ==
  /\ batch = <<>> /\ requests # <<>>
  /\ queue' = Append(queue, Head(requests))
  /\ requests' = Tail(requests)
  /\ UNCHANGED <<geri_mode, clientVars, responses, batch, start, finished>>

(* requests_compatible, which tells requests by their parameters. *)
Compatible(q, r) == Params[q] = Params[r]

(* pop_batch: the longest run of compatible requests at the front. *)
FrontBatch(s) ==
  LET alike == { n \in 1 .. Len(s) : \A i \in 1 .. n : Compatible(s[1], s[i]) }
  IN SubSeq(s, 1, Min({Max(alike), MaxBatch}))

Schedule ==
  /\ batch = <<>> /\ queue # <<>>
  /\ batch' = FrontBatch(queue)
  /\ queue' = SubSeq(queue, Len(batch') + 1, Len(queue))
  /\ start' = 0 /\ finished' = {}
  /\ UNCHANGED <<geri_mode, clientVars, requests, responses>>

EndBatch == batch' = <<>> /\ start' = 0 /\ finished' = {}

(* handle_batch_error: every request of the batch is told, those whose      *)
(* stream has ended too.  The batch may fail when its embeddings are        *)
(* collected (an empty one makes it) and whenever the model runs.           *)
MaxSeqLen == Max({ Length[r] : r \in Range(batch) })
BatchFails ==
  /\ batch # <<>> /\ start < MaxSeqLen
  /\ responses' = responses \o [i \in DOMAIN batch |-> Response(batch[i], "error", <<>>)]
  /\ EndBatch
  /\ UNCHANGED <<geri_mode, clientVars, requests, queue>>

(* BatchGeriEngine._execute_batch *)
ExecuteBatch ==
  /\ geri_mode = "batch" /\ batch # <<>>
  /\ responses' = responses \o
       [i \in DOMAIN batch |-> Response(batch[i], "success", Codes(batch[i]))]
  /\ EndBatch
  /\ UNCHANGED <<geri_mode, clientVars, requests, queue>>

(* Qwen3-Omni's generate: a chunk of the padded codes is decoded with the   *)
(* codes before it as context, which the wave of a request then leaves out. *)
ChunkSize == Params[batch[1]].chunk_size
EndIndex == Min({start + ChunkSize, MaxSeqLen})
LeftContext == Params[batch[1]].left_context_size
ContextSize == IF start > LeftContext THEN LeftContext ELSE start
Padded(r) == [i \in 1 .. MaxSeqLen |-> IF i <= Length[r] THEN <<r, i>> ELSE <<r, 0>>]
WavChunk(r) == SubSeq(Padded(r), start - ContextSize + 1, EndIndex)
SliceWithContext(r) == SubSeq(WavChunk(r), 1, Min({EndIndex, Length[r]}) - start)
Slice(r) ==
  SubSeq(WavChunk(r), ContextSize + 1, ContextSize + Min({EndIndex, Length[r]}) - start)

(* What a loop over q keeps that passes over ids. *)
Without(q, ids) ==
  LET kept[n \in 0 .. Len(q)] ==
        IF n = 0 THEN <<>>
        ELSE IF q[n] \in ids THEN kept[n - 1] ELSE Append(kept[n - 1], q[n])
  IN kept[Len(q)]

(* StreamGeriEngine._execute_batch: one turn of its loop.  Who has no code  *)
(* left is told once that its stream has ended.                             *)
Addressed == Without(batch, { r \in finished : start >= Length[r] })
StreamChunk ==
  /\ geri_mode = "streaming" /\ batch # <<>> /\ start < MaxSeqLen
  /\ responses' = responses \o [i \in DOMAIN Addressed |->
       IF start < Length[Addressed[i]] THEN Response(Addressed[i], "success", Slice(Addressed[i]))
       ELSE Response(Addressed[i], "finished", <<>>)]
  /\ finished' = { r \in Range(batch) : start >= Length[r] }
  /\ start' = EndIndex
  /\ UNCHANGED <<geri_mode, clientVars, requests, queue, batch>>

(* The generator is exhausted: the streams that have not ended end. *)
NobodyLeft == <<>>
Unfinished == Without(batch, finished)
StreamEnds ==
  /\ geri_mode = "streaming" /\ batch # <<>> /\ start = MaxSeqLen
  /\ responses' = responses \o
       [i \in DOMAIN Unfinished |-> Response(Unfinished[i], "finished", <<>>)]
  /\ EndBatch
  /\ UNCHANGED <<geri_mode, clientVars, requests, queue>>

-----------------------------------------------------------------------------
Quiet ==
  /\ requests = <<>> /\ responses = <<>> /\ queue = <<>> /\ batch = <<>>
  /\ \A r \in Requests : client[r] # "waiting"
Rest == Quiet /\ UNCHANGED geriVars

Progress ==
  \/ Enqueue \/ Schedule \/ BatchFails \/ ExecuteBatch \/ StreamChunk \/ StreamEnds
  \/ ListenBatch \/ ListenStream
  \/ \E r \in Requests : Consume(r)

GeriNext ==
  \/ Progress \/ Rest
  \/ \E r \in Requests : Generate(r) \/ Disconnect(r)

GeriSpec == GeriInit /\ [][GeriNext]_geriVars

(* The engine's loop, the listener and the handlers go on; nobody has to    *)
(* send a request or to leave.                                              *)
FairGeriSpec == GeriSpec /\ WF_geriVars(Progress)

-----------------------------------------------------------------------------
ResponseType ==
  [id : Requests, status : {"success", "finished", "error"},
   piece : Seq(Requests \X Nat)]

GeriTypeOK ==
  /\ geri_mode \in {"batch", "streaming"}
  /\ client \in [Requests -> {"idle", "waiting", "finished", "failed", "gone"}]
  /\ pending \subseteq Requests
  /\ stream \in [Requests -> Seq(ResponseType)]
  /\ got \in [Requests -> Seq(Seq(Requests \X Nat))]
  /\ requests \in Seq(Requests) /\ responses \in Seq(ResponseType)
  /\ queue \in Seq(Requests) /\ batch \in Seq(Requests)
  /\ start \in Nat /\ finished \subseteq Requests

(* What a client has is the beginning of its own audio, nothing of a        *)
(* neighbour, of the padding or of the context and nothing twice, cut as    *)
(* its own parameters say; and all of it when the stream has ended well,    *)
(* although requests of other lengths are decoded in the same batch         *)
(* (_execute_batch, core.py:600-665; generate, qwen3_omni_moe.py:132-177).  *)
WholeAnswers ==
  /\ GeriTypeOK
  /\ \A r \in Requests :
       /\ IsPrefix(FlattenSeq(got[r]), Codes(r))
       /\ geri_mode = "streaming" => \A i \in DOMAIN got[r] :
            /\ got[r][i] # <<>> /\ Len(got[r][i]) <= Params[r].chunk_size
            /\ i < Len(got[r]) => Len(got[r][i]) = Params[r].chunk_size
       /\ client[r] = "finished" => FlattenSeq(got[r]) = Codes(r)

(* Every request is answered, whatever fails and whoever leaves, in the     *)
(* batch of its neighbours, however early its own stream ended.             *)
EveryRequestEnds ==
  \A r \in Requests : client[r] = "waiting" ~> client[r] # "waiting"

=============================================================================
