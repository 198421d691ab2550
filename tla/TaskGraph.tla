------------------------------ MODULE TaskGraph ------------------------------
(***************************************************************************)
(* What a composite task becomes on its way to the executors: `invoke` is  *)
(* run once to record the invocations of unit tasks (task/base.py and the  *)
(* composite tasks of the tasklib), the Task Dispatcher connects the       *)
(* forwards of one invocation to the invocations that take them            *)
(* (dispatcher.py), the descriptors turn each into a request, and `invoke` *)
(* is run again over the outputs.                                          *)
(*                                                                         *)
(* The plan is what a request asks for: the multimodal contents of its     *)
(* messages, by modality, and the composite task that they are for.  It    *)
(* grows by a content a step, and all else is a function of it.  A datum   *)
(* is the position of its content.  The forward made j-th by the k-th      *)
(* invocation has the id <<k, j>>.                                         *)
(***************************************************************************)
EXTENDS Naturals, Sequences, SequencesExt

CONSTANTS
  Modalities,   (* in the order of the encoders, a sequence                *)
  MaxContents,  (* bound on the contents of a request                      *)
  Routes        (* sidecar ranks that an executor may have                 *)

ASSUME TaskGraphAssumption == MaxContents \in Nat /\ IsInjective(Modalities)

Shapes == {"mllm", "disaggregated", "omni"}

VARIABLE plan

PlanInit ==
  plan \in [contents : {<<>>}, coalesce : BOOLEAN, fission : BOOLEAN, shape : Shapes]

PlanNext ==
  \/ /\ Len(plan.contents) < MaxContents
     /\ \E m \in ToSet(Modalities) : plan' = [plan EXCEPT !.contents = Append(@, m)]
  \/ Len(plan.contents) = MaxContents /\ UNCHANGED plan

-----------------------------------------------------------------------------
(* invoke of the composite tasks, while it records. *)
Places(m) == SelectSeq([i \in DOMAIN plan.contents |-> i], LAMBDA i : plan.contents[i] = m)

(* The invocations of encoders: one for each modality that is there, with  *)
(* all its data, or one for each datum.                                    *)
EncoderCalls ==
  CASE ~plan.fission -> <<>>
    [] plan.fission /\ plan.coalesce ->
         LET called == SelectSeq(Modalities, LAMBDA m : m \in ToSet(plan.contents))
         IN  [k \in DOMAIN called |-> [task |-> called[k], data |-> Places(called[k])]]
    [] plan.fission /\ ~plan.coalesce ->
         [k \in DOMAIN plan.contents |-> [task |-> plan.contents[k], data |-> <<k>>]]

(* make_record_output: as many forwards as there are data. *)
Outs(call, k) == [j \in DOMAIN call.data |-> <<k, j>>]

(* The next forward of an encoder that was invoked once for all its data is *)
(* popped from the output, which the record of the invocation has a copy of. *)
LastOf(left, m) == left[m][Len(left[m])]
NextOf(left, m) == Head(left[m])
Popped(made, contents) ==
  FoldLeft(LAMBDA s, m : [left |-> [s.left EXCEPT ![m] = Tail(@)],
                          got |-> Append(s.got, NextOf(s.left, m))],
           [left |-> made, got |-> <<>>], contents).got

(* cornserve_embeddings, in the order of the contents. *)
Embeddings ==
  LET calls == EncoderCalls
      made == [m \in { calls[k].task : k \in DOMAIN calls } |->
                LET k == CHOOSE k \in DOMAIN calls : calls[k].task = m IN Outs(calls[k], k)]
  IN  CASE ~plan.fission -> <<>>
        [] plan.fission /\ plan.coalesce -> Popped(made, plan.contents)
        [] plan.fission /\ ~plan.coalesce -> [i \in DOMAIN plan.contents |-> <<i, 1>>]

Invocation(task, data, ins, outs) == [task |-> task, data |-> data, ins |-> ins, outs |-> outs]

(* The invocations after those of the encoders, the k-th being the first.  *)
MLLM(emb, k) == << Invocation("llm", <<>>, emb, <<>>) >>

(* The input of the decoder is a copy of that of the prefill, embeddings   *)
(* included. *)
Disaggregated(emb, k) ==
  << Invocation("prefill", <<"kv">>, emb, << <<k, 1>> >>),
     Invocation("decode", <<>>, Append(emb, <<k, 1>>), <<>>) >>

(* The input of the talker is made from the messages alone. *)
Omni(emb, k) ==
  << Invocation("thinker", <<"hidden">>, emb, << <<k, 1>> >>),
     Invocation("talker", <<"codes">>, << <<k, 1>> >>, << <<k + 1, 1>> >>),
     Invocation("vocoder", <<>>, << <<k + 1, 1>> >>, <<>>) >>

ConsumerCalls(k) ==
  CASE plan.shape = "mllm" -> MLLM(Embeddings, k)
    [] plan.shape = "disaggregated" -> Disaggregated(Embeddings, k)
    [] plan.shape = "omni" -> Omni(Embeddings, k)

(* record_invocation, in the order of the calls. *)
Recorded ==
  LET calls == EncoderCalls
  IN  [k \in DOMAIN calls |-> Invocation(calls[k].task, calls[k].data, <<>>, Outs(calls[k], k))]
        \o ConsumerCalls(Len(calls) + 1)

-----------------------------------------------------------------------------
(* invoke of the dispatcher: a forward of an input must be known from an   *)
(* output before it, and gets the executor as one more destination.  The   *)
(* list is shared by all copies of the forward.  A forward that nobody     *)
(* takes fails an assertion.                                               *)
Destined(known, x, ranks) == [known EXCEPT ![x].dst = Append(@, ranks)]
Taken(known, ins, ranks) ==
  FoldLeft(LAMBDA f, x : Destined(f, x, ranks), known, ins)

WithOuts(known, outs, ranks) ==
  [x \in DOMAIN known \cup ToSet(outs) |->
     IF x \in ToSet(outs) THEN [src |-> ranks, dst |-> <<>>] ELSE known[x]]

Connected(invocations, route) ==
  FoldLeft(LAMBDA s, k :
             LET v == invocations[k] IN
             IF s.error \/ ~(ToSet(v.ins) \subseteq DOMAIN s.known)
             THEN [s EXCEPT !.error = TRUE]
             ELSE [s EXCEPT !.known = WithOuts(Taken(@, v.ins, route[k]), v.outs, route[k])],
           [error |-> FALSE, known |-> <<>>], [k \in DOMAIN invocations |-> k])

(* The dispatch is refused unless only the last invocation streams. *)
Streams(v) == v.outs = <<>>
Accepted(invocations, connected) ==
  /\ invocations # <<>>
  /\ \A k \in 1 .. Len(invocations) - 1 : ~Streams(invocations[k])
  /\ ~connected.error
  /\ \A x \in DOMAIN connected.known : connected.known[x].dst # <<>>

(* to_request of the producers: each forward goes with the datum it is for *)
(* and the ranks it is sent to. *)
Sent(v, known) ==
  [j \in DOMAIN v.outs |-> [id |-> v.outs[j], what |-> v.data[j], to |-> known[v.outs[j]].dst]]

(* to_request of the consumers: the embeddings are zipped with the contents *)
(* of the messages; a key-value cache, hidden states or codes have a field *)
(* of their own. *)
Zipped(ids) ==
  IF plan.fission THEN { [id |-> ids[i], what |-> i] : i \in DOMAIN plan.contents } ELSE {}

Own(ids, what) == {[id |-> ids[Len(ids)], what |-> what]}

Awaited(v) ==
  CASE v.task \in {"llm", "prefill", "thinker"} -> Zipped(v.ins)
    [] v.task = "decode" -> Zipped(v.ins) \cup Own(v.ins, "kv")
    [] v.task = "talker" -> Own(v.ins, "hidden")
    [] v.task = "vocoder" -> Own(v.ins, "codes")
    [] OTHER -> {}

-----------------------------------------------------------------------------
(* dispatch_tasks_and_wait keeps the outputs by task, in the order of the  *)
(* invocations, and replay_invocation pops the first of the task.          *)
Outputs(invocations, t) == SelectSeq([k \in DOMAIN invocations |-> k], LAMBDA k : invocations[k].task = t)

Replayed(invocations) ==
  FoldLeft(LAMBDA s, v : [left |-> [s.left EXCEPT ![v.task] = Tail(@)],
                          got |-> Append(s.got, Head(s.left[v.task]))],
           [left |-> [t \in { invocations[k].task : k \in DOMAIN invocations } |->
                        Outputs(invocations, t)],
            got |-> <<>>],
           invocations).got

-----------------------------------------------------------------------------
RoutesOf(invocations) == [DOMAIN invocations -> Routes]

(* Every composite task is dispatched as a graph in which what is sent is  *)
(* what is awaited: an executor is told to await a datum in the place of   *)
(* its content in the messages if and only if the encoder that was given   *)
(* that very content, or the one invocation that makes it, is told to send *)
(* it there, under the same id and exactly once; so nothing is awaited for *)
(* ever and nothing stays behind at a receiver.  And the second run of     *)
(* `invoke` sees each invocation's own output.                             *)
(* (task/base.py, tasklib composite/llm.py and omni.py, dispatcher.py)     *)
SentIsAwaited ==
  LET invocations == Recorded IN
  /\ Replayed(invocations) = [k \in DOMAIN invocations |-> k]
  /\ \A route \in RoutesOf(invocations) :
       LET connected == Connected(invocations, route)
           sent == FlattenSeq([k \in DOMAIN invocations |-> Sent(invocations[k], connected.known)])
           awaited == UNION { { [id |-> w.id, what |-> w.what, by |-> k] :
                                w \in Awaited(invocations[k]) } : k \in DOMAIN invocations }
       IN  /\ Accepted(invocations, connected)
           /\ \A w \in awaited :
                \E s \in ToSet(sent) :
                  s.id = w.id /\ s.what = w.what /\ route[w.by] \in ToSet(s.to)
           /\ \A s \in ToSet(sent) :
                Len(s.to) = Len(SelectSeq([k \in DOMAIN invocations |-> k],
                  LAMBDA k : [id |-> s.id, what |-> s.what, by |-> k] \in awaited))
           /\ IsInjective([i \in DOMAIN sent |-> sent[i].id])
=============================================================================
