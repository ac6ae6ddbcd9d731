----------------------------- MODULE ServerTasks -----------------------------
(***************************************************************************)
(* The request path of the llama server (examples/server/server.cpp):      *)
(* HTTP handler threads post tasks into server_queue and block in          *)
(* server_response::recv; one main thread runs server_queue::start_loop,   *)
(* which hands tasks to process_single_task and then calls update_slots,   *)
(* and update_slots pushes results back through server_response::send.     *)
(*                                                                         *)
(* The two mutexes (mutex_tasks, mutex_results) make every critical        *)
(* section one step; between two critical sections any other thread may    *)
(* run.  The main thread owns the slots and the deferred queue: its private *)
(* work, and the calls to release() and send() it makes for one slot, are  *)
(* one step, because the handlers' steps commute with the one or the other. *)
(***************************************************************************)
EXTENDS Integers, Sequences, FiniteSets, SequencesExt

CONSTANTS
  Clients,          \* HTTP worker threads
  NSlots,           \* params.n_parallel
  Requests,         \* the requests the clients may make (see Request)
  NoData,           \* the data of a task that no request made
  MaxTasks,         \* bound: task ids handed out to requests
  MaxDecoded,       \* bound: n_predict, tokens generated for one completion
  DecodeMayFail,    \* llama_decode may return an error that is not retried
  ClientsMayLeave   \* a streaming peer may close its connection

NoTask  == -1       \* server_task::id and server_slot::id_task before assignment
AnySlot == -1       \* "id_slot" is absent from the request
Slots   == 0 .. NSlots - 1
TaskIds == 0 .. MaxTasks - 1

Kinds == {"completion", "metrics", "slot_action", "set_lora", "cancel"}

\* n prompts of one completion; slot is "id_slot" and may name no slot at all.
\* defect: launch_slot_with_task rejects the data, update_slots rejects the prompt
\* (too large, malformed), the prompt has no tokens, or what it generates may fill the context
\* of the slot, which must not be shifted (context shift is off).
Request == [kind: Kinds, n: Nat \ {0}, stream: BOOLEAN, embd: BOOLEAN, rerank: BOOLEAN,
            slot: Int, defect: {"none", "launch", "prompt", "empty", "context"}, system_prompt: BOOLEAN]

ASSUME ServerAssumption ==
  /\ NSlots \in Nat \ {0} /\ MaxTasks \in Nat /\ MaxDecoded \in Nat \ {0}
  /\ DecodeMayFail \in BOOLEAN /\ ClientsMayLeave \in BOOLEAN
  /\ Requests \subseteq Request
  /\ \A r \in Requests : r.kind # "completion" => r.n = 1
  /\ IsFiniteSet(Clients)
  /\ NoData \notin Requests

VARIABLES
  queue_tasks,           \* server_queue::queue_tasks
  queue_tasks_deferred,  \* server_queue::queue_tasks_deferred
  next_id,               \* server_queue::id
  running,               \* server_queue::running
  waiting_task_ids,      \* server_response::waiting_task_ids
  queue_results,         \* server_response::queue_results
  state,                 \* server_slot::state
  id_task,               \* server_slot::id_task, stale once the slot is idle
  data,                  \* server_slot::params and cmpl_type: the launched request
  n_decoded,             \* server_slot::n_decoded
  loop,                  \* where the main thread is
  todo,                  \* the slots its current loop over the slots has not visited
  pc,                    \* where each HTTP thread is
  req,                   \* the request it serves
  first_id,              \* the first of its req.n consecutive task ids, or NoTask
  n_finished,            \* results it has counted as final
  to_cancel, cancels,    \* cancel_tasks(): ids left to cancel; ids to post
  budget,                \* task ids the clients may still ask for
  answers                \* history: answers accepted for each id

taskVars == <<queue_tasks, queue_tasks_deferred, next_id, running>>
respVars == <<waiting_task_ids, queue_results, answers>>
slotVars == <<state, id_task, data, n_decoded>>
loopVars == <<loop, todo>>
httpVars == <<pc, req, first_id, n_finished, to_cancel, cancels, budget>>
vars     == <<taskVars, respVars, slotVars, loopVars, httpVars>>

-----------------------------------------------------------------------------
(* Tasks, slots and results                                                *)

SlotStates == {"idle", "processing_prompt", "done_prompt", "generating"}
Processing == {s \in Slots : state[s] # "idle"}
Idle       == Slots \ Processing

Task(type, id, target, d) == [type |-> type, id |-> id, id_target |-> target, data |-> d]
NextResponse              == Task("next_response", NoTask, NoTask, NoData)
CancelTask(id)            == Task("cancel", NoTask, id, NoData)

\* The results that end a task; "cancelled" is the handler's own note of a cancellation.
Answer == {"final", "error"}

\* pop_deferred_task(), n times over: the oldest deferred tasks go back in the queue.
Popped(n) ==
  SubSeq(queue_tasks_deferred, 1,
         IF n < Len(queue_tasks_deferred) THEN n ELSE Len(queue_tasks_deferred))

\* Mutant of Remaining: the deferred task is copied to the queue and not removed.
RemainingAll(n) == queue_tasks_deferred
Remaining(n)    == SubSeq(queue_tasks_deferred, n + 1, Len(queue_tasks_deferred))

\* Mutant of Send: the result is queued whether or not somebody waits for it.
SendAlways(id, kind) ==
  /\ queue_results' = Append(queue_results, [id |-> id, kind |-> kind])
  /\ answers' = IF kind \in Answer /\ id \in TaskIds
                  THEN [answers EXCEPT ![id] = @ + 1] ELSE answers
  /\ UNCHANGED waiting_task_ids

\* send(): a result for an id that nobody waits for is dropped.
Send(id, kind) ==
  /\ IF id \in waiting_task_ids
       THEN /\ queue_results' = Append(queue_results, [id |-> id, kind |-> kind])
            /\ answers' = IF kind \in Answer
                            THEN [answers EXCEPT ![id] = @ + 1] ELSE answers
       ELSE UNCHANGED <<queue_results, answers>>
  /\ UNCHANGED waiting_task_ids

\* Mutant of Release: no deferred task is popped.
ReleaseOnly(s) ==
  /\ state' = [state EXCEPT ![s] = "idle"]
  /\ UNCHANGED <<queue_tasks, queue_tasks_deferred>>

\* release(): an idle slot is left alone; releasing a busy one calls pop_deferred_task().
Release(s) ==
  LET n == IF state[s] # "idle" THEN 1 ELSE 0
  IN  /\ state' = [state EXCEPT ![s] = "idle"]
      /\ queue_tasks' = queue_tasks \o Popped(n)
      /\ queue_tasks_deferred' = Remaining(n)

-----------------------------------------------------------------------------
(* HTTP handler threads                                                    *)

ids(c) == IF first_id[c] = NoTask THEN {} ELSE first_id[c] .. first_id[c] + req[c].n - 1

\* Slot actions and LoRA changes let post() assign their id, and start to wait after it.
PostsFirst(r) == r.kind \in {"slot_action", "set_lora"}

\* A handler starts.  Completions (create_tasks_cmpl) and metrics draw their ids
\* with get_new_id; /v1/cancel names an id that some request was given.
BeginRequest(c, r) ==
  /\ pc[c] = "idle"
  /\ r.n <= budget
  /\ budget' = budget - r.n
  /\ req' = [req EXCEPT ![c] = r]
  /\ \/ /\ r.kind \in {"completion", "metrics"}
        /\ first_id' = [first_id EXCEPT ![c] = next_id]
        /\ next_id' = next_id + r.n
        /\ pc' = [pc EXCEPT ![c] = "add_waiting"]
        /\ UNCHANGED <<to_cancel, cancels>>
     \/ /\ PostsFirst(r)
        /\ pc' = [pc EXCEPT ![c] = "post"]
        /\ UNCHANGED <<first_id, next_id, to_cancel, cancels>>
     \/ /\ r.kind = "cancel"
        /\ \E id \in 0 .. next_id - 1 : to_cancel' = [to_cancel EXCEPT ![c] = {id}]
        /\ cancels' = [cancels EXCEPT ![c] = <<>>]
        /\ pc' = [pc EXCEPT ![c] = "cancel"]
        /\ UNCHANGED <<first_id, next_id>>
  /\ UNCHANGED <<queue_tasks, queue_tasks_deferred, running, n_finished,
                 respVars, slotVars, loopVars>>

\* add_waiting_tasks() / add_waiting_task_id().
AddWaiting(c) ==
  /\ pc[c] = "add_waiting"
  /\ waiting_task_ids' = waiting_task_ids \cup ids(c)
  /\ pc' = [pc EXCEPT ![c] = IF PostsFirst(req[c]) THEN "recv" ELSE "post"]
  /\ UNCHANGED <<queue_results, answers, req, first_id, n_finished, to_cancel, cancels,
                 budget, taskVars, slotVars, loopVars>>

\* server_queue::post() of the request's tasks: metrics at the front, the rest at the back.
Post(c) ==
  /\ pc[c] = "post"
  /\ \/ /\ PostsFirst(req[c])
        /\ queue_tasks' = Append(queue_tasks, Task(req[c].kind, next_id, NoTask, req[c]))
        /\ next_id' = next_id + 1
        /\ first_id' = [first_id EXCEPT ![c] = next_id]
        /\ pc' = [pc EXCEPT ![c] = "add_waiting"]
     \/ /\ ~PostsFirst(req[c])
        /\ LET tasks == [k \in 1 .. req[c].n |->
                           Task(req[c].kind, first_id[c] + k - 1, NoTask, req[c])]
           IN  queue_tasks' = IF req[c].kind = "metrics" THEN tasks \o queue_tasks
                                                         ELSE queue_tasks \o tasks
        /\ pc' = [pc EXCEPT ![c] = "recv"]
        /\ UNCHANGED <<next_id, first_id>>
  /\ UNCHANGED <<queue_tasks_deferred, running, req, n_finished, to_cancel, cancels, budget,
                 respVars, slotVars, loopVars>>

\* The handler is over; the HTTP thread serves another request.
Finish(c) ==
  /\ pc' = [pc EXCEPT ![c] = "idle"]
  /\ req' = [req EXCEPT ![c] = NoData]
  /\ first_id' = [first_id EXCEPT ![c] = NoTask]
  /\ n_finished' = [n_finished EXCEPT ![c] = 0]

\* cancel_tasks(id_tasks) is entered with all the ids of the request.
StartCancel(c) ==
  /\ pc' = [pc EXCEPT ![c] = "cancel"]
  /\ to_cancel' = [to_cancel EXCEPT ![c] = ids(c)]
  /\ cancels' = [cancels EXCEPT ![c] = <<>>]
  /\ UNCHANGED <<req, first_id, n_finished>>

\* Mutant of CountFinished: the last but one result is taken for the last one.
CountTooMany(c) ==
  IF n_finished[c] + 2 < req[c].n
    THEN /\ n_finished' = [n_finished EXCEPT ![c] = @ + 1]
         /\ UNCHANGED <<pc, req, first_id, to_cancel, cancels>>
    ELSE /\ pc' = [pc EXCEPT ![c] = "remove"]
         /\ UNCHANGED <<req, first_id, n_finished, to_cancel, cancels>>

\* A result that ends one of the request's tasks; after the last one the handler
\* goes on to remove_waiting_task_ids, which handle_rerank does not call.
CountFinished(c) ==
  IF n_finished[c] + 1 < req[c].n
    THEN /\ n_finished' = [n_finished EXCEPT ![c] = @ + 1]
         /\ UNCHANGED <<pc, req, first_id, to_cancel, cancels>>
    ELSE IF req[c].rerank
      THEN Finish(c) /\ UNCHANGED <<to_cancel, cancels>>
      ELSE /\ pc' = [pc EXCEPT ![c] = "remove"]
           /\ UNCHANGED <<req, first_id, n_finished, to_cancel, cancels>>

\* receive_cmpl_results: a cancellation carries no "index", reading it throws, and
\* the handler is left without remove_waiting_task_ids.
ReceivePlain(c, kind) ==
  CASE kind = "error"     -> StartCancel(c)
    [] kind = "cancelled" -> Finish(c) /\ UNCHANGED <<to_cancel, cancels>>
    [] OTHER              -> CountFinished(c)

\* receive_cmpl_results_stream: result_handler writes to the peer and may find it gone.
ReceiveStream(c, kind) ==
  \/ ClientsMayLeave /\ StartCancel(c)
  \/ /\ kind = "error"
     /\ StartCancel(c)
  \/ /\ kind \in {"final", "cancelled"}
     /\ CountFinished(c)
  \/ /\ kind = "partial"
     /\ UNCHANGED <<pc, req, first_id, n_finished, to_cancel, cancels>>

\* recv(): the first queued result for one of the thread's ids.
Recv(c) ==
  /\ pc[c] = "recv"
  /\ \E i \in DOMAIN queue_results :
       /\ queue_results[i].id \in ids(c)
       /\ \A j \in 1 .. i - 1 : queue_results[j].id \notin ids(c)
       /\ queue_results' = RemoveAt(queue_results, i)
       /\ IF req[c].kind = "completion"
            THEN IF req[c].stream THEN ReceiveStream(c, queue_results[i].kind)
                                  ELSE ReceivePlain(c, queue_results[i].kind)
            ELSE /\ pc' = [pc EXCEPT ![c] = "remove"]
                 /\ UNCHANGED <<req, first_id, n_finished, to_cancel, cancels>>
  /\ UNCHANGED <<waiting_task_ids, answers, budget, taskVars, slotVars, loopVars>>

\* cancel_tasks(), for one id: first send() the cancellation ...
CancelSend(c) ==
  /\ pc[c] = "cancel"
  /\ \E id \in to_cancel[c] :
       /\ Send(id, "cancelled")
       /\ to_cancel' = [to_cancel EXCEPT ![c] = @ \ {id}]
       /\ cancels' = [cancels EXCEPT ![c] = Append(@, id)]
  /\ pc' = [pc EXCEPT ![c] = "cancel_remove"]
  /\ UNCHANGED <<req, first_id, n_finished, budget, taskVars, slotVars, loopVars>>

\* ... then remove_waiting_task_id() ...
CancelRemove(c) ==
  /\ pc[c] = "cancel_remove"
  /\ waiting_task_ids' = waiting_task_ids \ {Last(cancels[c])}
  /\ pc' = [pc EXCEPT ![c] = IF to_cancel[c] = {} THEN "post_cancel" ELSE "cancel"]
  /\ UNCHANGED <<queue_results, answers, req, first_id, n_finished, to_cancel, cancels, budget,
                 taskVars, slotVars, loopVars>>

\* ... and post one CANCEL task for each id, each at the front of the queue.
PostCancel(c) ==
  /\ pc[c] = "post_cancel"
  /\ queue_tasks' = [i \in 1 .. Len(cancels[c]) |-> CancelTask(Reverse(cancels[c])[i])]
                      \o queue_tasks
  /\ cancels' = [cancels EXCEPT ![c] = <<>>]
  /\ IF req[c].kind = "cancel" \/ req[c].rerank
       THEN Finish(c)
       ELSE /\ pc' = [pc EXCEPT ![c] = "remove"]
            /\ UNCHANGED <<req, first_id, n_finished>>
  /\ UNCHANGED <<queue_tasks_deferred, next_id, running, to_cancel, budget,
                 respVars, slotVars, loopVars>>

\* remove_waiting_task_ids(), by the handler or by on_complete of the stream.
RemoveWaiting(c) ==
  /\ pc[c] = "remove"
  /\ waiting_task_ids' = waiting_task_ids \ ids(c)
  /\ Finish(c)
  /\ UNCHANGED <<queue_results, answers, to_cancel, cancels, budget,
                 taskVars, slotVars, loopVars>>

Client(c) ==
  \/ \E r \in Requests : BeginRequest(c, r)
  \/ AddWaiting(c) \/ Post(c) \/ Recv(c)
  \/ CancelSend(c) \/ CancelRemove(c) \/ PostCancel(c) \/ RemoveWaiting(c)

-----------------------------------------------------------------------------
(* The main thread: process_single_task                                    *)

\* The slots a completion may take: the one it names, or any idle one
\* (get_available_slot picks by prompt similarity or by age).
Available(r) == IF r.slot = AnySlot THEN Idle ELSE Idle \cap {r.slot}

\* defer(): no slot is free, or the named one is busy or does not exist.
DeferTask(task) ==
  /\ queue_tasks' = Tail(queue_tasks)
  /\ queue_tasks_deferred' = Append(queue_tasks_deferred, task)
  /\ UNCHANGED <<slotVars, respVars>>

\* A completion takes an idle slot.  A new system prompt first releases every slot.
\* Data that launch_slot_with_task rejects leaves the slot idle, with the id it was given.
LaunchTask(task, s) ==
  LET r == task.data
      released == IF r.system_prompt THEN Processing ELSE {}
      n == Cardinality(released)
  IN  /\ queue_tasks' = Tail(queue_tasks) \o Popped(n)
      /\ queue_tasks_deferred' = Remaining(n)
      /\ state' = [t \in Slots |-> IF t = s /\ r.defect # "launch" THEN "processing_prompt"
                                   ELSE IF t \in released THEN "idle" ELSE state[t]]
      /\ id_task' = [id_task EXCEPT ![s] = task.id]
      /\ data' = [data EXCEPT ![s] = r]
      /\ IF r.defect = "launch" THEN Send(task.id, "error") ELSE UNCHANGED respVars
      /\ UNCHANGED n_decoded

ProcessCompletion(task) ==
  /\ task.type = "completion"
  /\ \/ Available(task.data) = {} /\ DeferTask(task)
     \/ \E s \in Available(task.data) : LaunchTask(task, s)

\* CANCEL releases the first slot that has the target's id; a target that is still
\* queued or deferred stays there.
ProcessCancel(task) ==
  /\ task.type = "cancel"
  /\ LET first    == {s \in Slots : /\ id_task[s] = task.id_target
                                    /\ \A t \in 0 .. s - 1 : id_task[t] # task.id_target}
         released == first \cap Processing
         n        == Cardinality(released)
     IN  /\ queue_tasks' = Tail(queue_tasks) \o Popped(n)
         /\ queue_tasks_deferred' = Remaining(n)
         /\ state' = [s \in Slots |-> IF s \in released THEN "idle" ELSE state[s]]
  /\ UNCHANGED <<id_task, data, n_decoded, respVars>>

\* SLOT_SAVE, SLOT_RESTORE and SLOT_ERASE wait for a busy slot; a restore may fail.
ProcessSlotAction(task) ==
  /\ task.type = "slot_action"
  /\ \/ task.data.slot \in Processing /\ DeferTask(task)
     \/ /\ task.data.slot \notin Processing
        /\ queue_tasks' = Tail(queue_tasks)
        /\ \/ task.data.slot \in Slots /\ Send(task.id, "final")
           \/ Send(task.id, "error")
        /\ UNCHANGED <<queue_tasks_deferred, slotVars>>

\* METRICS and SET_LORA are answered at once; NEXT_RESPONSE only woke the loop.
ProcessOther(task) ==
  /\ queue_tasks' = Tail(queue_tasks)
  /\ \/ task.type \in {"metrics", "set_lora"} /\ Send(task.id, "final")
     \/ task.type = "next_response" /\ UNCHANGED respVars
  /\ UNCHANGED <<queue_tasks_deferred, slotVars>>

\* One turn of the inner loop of start_loop.
ProcessTask ==
  /\ loop = "tasks"
  /\ queue_tasks # <<>>
  /\ LET task == Head(queue_tasks)
     IN  \/ ProcessCompletion(task) \/ ProcessCancel(task)
         \/ ProcessSlotAction(task) \/ ProcessOther(task)
  /\ UNCHANGED <<next_id, running, loopVars, httpVars>>

-----------------------------------------------------------------------------
(* The main thread: update_slots, one slot at a time                       *)

\* Mutant of UpdateSlots: no NEXT_RESPONSE task is posted.
UpdateSlotsOnce ==
  /\ loop = "tasks"
  /\ queue_tasks = <<>>
  /\ IF Processing = {} THEN loop' = "check" /\ UNCHANGED todo
                        ELSE loop' = "batch" /\ todo' = Slots
  /\ UNCHANGED <<taskVars, respVars, slotVars, httpVars>>

\* All idle: nothing to do.  Otherwise NEXT_RESPONSE keeps the loop running.
UpdateSlots ==
  /\ loop = "tasks"
  /\ queue_tasks = <<>>
  /\ IF Processing = {}
       THEN loop' = "check" /\ UNCHANGED <<queue_tasks, todo>>
       ELSE /\ queue_tasks' = Append(queue_tasks, NextResponse)
            /\ loop' = "batch"
            /\ todo' = Slots
  /\ UNCHANGED <<queue_tasks_deferred, next_id, running, respVars, slotVars, httpVars>>

\* Slot s of the current loop is done; after the last one come the next loop's slots.
\* The loops are left open in their order: the results follow the slots' places in the
\* batch, and a batch decoded in parts serves a generating slot before a longer prompt.
Visit(s, after, then) ==
  /\ s \in todo
  /\ todo' = IF todo = {s} THEN then ELSE todo \ {s}
  /\ loop' = IF todo = {s} THEN after ELSE loop

\* Mutant of BatchPrompt: a slot is known by its id_task, which is stale once it is idle.
BatchPromptById(s) ==
  /\ id_task[s] # NoTask
  /\ data[s].defect \in {"none", "context"}
  /\ state' = [state EXCEPT ![s] = "done_prompt"]
  /\ n_decoded' = [n_decoded EXCEPT ![s] = 0]
  /\ UNCHANGED <<queue_tasks, queue_tasks_deferred, respVars>>

\* Filling the batch: a prompt is rejected, found empty, added in part or not at all
\* (the batch is full), or added to its end.
BatchPrompt(s) ==
  /\ state[s] = "processing_prompt"
  /\ \/ /\ data[s].defect \in {"prompt", "empty"}
        /\ Release(s)
        /\ Send(id_task[s], IF data[s].defect = "prompt" THEN "error" ELSE "final")
        /\ UNCHANGED n_decoded
     \/ UNCHANGED <<state, n_decoded, queue_tasks, queue_tasks_deferred, respVars>>
     \/ /\ data[s].defect \in {"none", "context"}
        /\ state' = [state EXCEPT ![s] = "done_prompt"]
        /\ n_decoded' = [n_decoded EXCEPT ![s] = 0]
        /\ UNCHANGED <<queue_tasks, queue_tasks_deferred, respVars>>

\* A slot that generates finds its context full, which must not be shifted: it is released
\* and its task fails.
ContextFull(s) ==
  /\ state[s] = "generating"
  /\ data[s].defect = "context"
  /\ Release(s)
  /\ Send(id_task[s], "error")
  /\ UNCHANGED n_decoded

BatchSlot ==
  /\ loop = "batch"
  /\ \E s \in todo :
       /\ \/ BatchPrompt(s)
          \/ ContextFull(s)
          \/ /\ state[s] # "processing_prompt"
             /\ UNCHANGED <<state, n_decoded, queue_tasks, queue_tasks_deferred, respVars>>
       /\ Visit(s, "decode", Slots)
  /\ UNCHANGED <<next_id, running, id_task, data, httpVars>>

\* Mutant of ProcessToken: n_predict does not stop the generation.
ProcessTokenUnbounded(s, partial, stop) ==
  /\ n_decoded[s] <= MaxDecoded
  /\ partial => data[s].stream /\ ~stop
  /\ n_decoded' = [n_decoded EXCEPT ![s] = @ + 1]
  /\ IF stop
       THEN Release(s) /\ Send(id_task[s], "final")
       ELSE /\ state' = [state EXCEPT ![s] = "generating"]
            /\ UNCHANGED <<queue_tasks, queue_tasks_deferred>>
            /\ IF partial THEN Send(id_task[s], "partial") ELSE UNCHANGED respVars

\* Mutant of ProcessToken: the slot is not released after its final response.
ProcessTokenNoRelease(s, partial, stop) ==
  /\ partial => data[s].stream /\ ~stop
  /\ n_decoded' = [n_decoded EXCEPT ![s] = @ + 1]
  /\ state' = [state EXCEPT ![s] = "generating"]
  /\ UNCHANGED <<queue_tasks, queue_tasks_deferred>>
  /\ IF stop THEN Send(id_task[s], "final")
       ELSE IF partial THEN Send(id_task[s], "partial") ELSE UNCHANGED respVars

\* process_token: a streamed task may get a partial result; the budget, the context or
\* an end token stops the generation, and then the slot is released.  A token that
\* both sends text and stops, and a run of accepted draft tokens, are several passes here.
ProcessToken(s, partial, stop) ==
  /\ n_decoded[s] + 1 >= MaxDecoded => stop
  /\ partial => data[s].stream /\ ~stop
  /\ n_decoded' = [n_decoded EXCEPT ![s] = @ + 1]
  /\ IF stop
       THEN Release(s) /\ Send(id_task[s], "final")
       ELSE /\ state' = [state EXCEPT ![s] = "generating"]
            /\ UNCHANGED <<queue_tasks, queue_tasks_deferred>>
            /\ IF partial THEN Send(id_task[s], "partial") ELSE UNCHANGED respVars

\* The batch was decoded: each slot in it gets its embedding, its score or a token.
DecodeSlot ==
  /\ loop = "decode"
  /\ \E s \in todo :
       /\ \/ /\ state[s] = "done_prompt" /\ data[s].embd
             /\ Release(s) /\ Send(id_task[s], "final") /\ UNCHANGED n_decoded
          \/ /\ state[s] \in {"done_prompt", "generating"}
             /\ state[s] = "done_prompt" => ~data[s].embd
             /\ \E partial, stop \in BOOLEAN : ProcessToken(s, partial, stop)
          \/ /\ state[s] \in {"idle", "processing_prompt"}
             /\ UNCHANGED <<state, n_decoded, queue_tasks, queue_tasks_deferred, respVars>>
       /\ Visit(s, "check", {})
  /\ UNCHANGED <<next_id, running, id_task, data, httpVars>>

\* llama_decode fails on some part of the batch: every slot is released and told so,
\* the idle ones under the id they last had.
DecodeFail ==
  /\ loop = "decode"
  /\ DecodeMayFail
  /\ Processing # {}
  /\ loop' = "fail"
  /\ todo' = Slots
  /\ UNCHANGED <<taskVars, respVars, slotVars, httpVars>>

FailSlot ==
  /\ loop = "fail"
  /\ \E s \in todo :
       /\ Release(s)
       /\ Send(id_task[s], "error")
       /\ Visit(s, "check", {})
  /\ UNCHANGED <<next_id, running, id_task, data, n_decoded, httpVars>>

-----------------------------------------------------------------------------
(* The main thread: the outer loop of start_loop, and SIGINT               *)

StartLoop ==
  /\ loop = "ready"
  /\ running' = TRUE
  /\ loop' = "tasks"
  /\ UNCHANGED <<queue_tasks, queue_tasks_deferred, next_id, todo, respVars, slotVars, httpVars>>

\* With an empty queue the thread ends when terminate() was called, or waits.
CheckQueue ==
  /\ loop = "check"
  /\ loop' = IF queue_tasks # <<>> THEN "tasks" ELSE IF running THEN "wait" ELSE "stopped"
  /\ UNCHANGED <<taskVars, todo, respVars, slotVars, httpVars>>

\* Mutant of Wake: the predicate of the wait is about the queue alone.
WakeForTask ==
  /\ loop = "wait"
  /\ queue_tasks # <<>>
  /\ loop' = "tasks"
  /\ UNCHANGED <<taskVars, todo, respVars, slotVars, httpVars>>

\* condition_tasks.wait returns.
Wake ==
  /\ loop = "wait"
  /\ queue_tasks # <<>> \/ ~running
  /\ loop' = "tasks"
  /\ UNCHANGED <<taskVars, todo, respVars, slotVars, httpVars>>

MainThread ==
  \/ StartLoop \/ ProcessTask \/ UpdateSlots \/ BatchSlot
  \/ DecodeSlot \/ DecodeFail \/ FailSlot \/ CheckQueue \/ Wake

\* The shutdown handler runs terminate(), at any time after it is installed.
Terminate ==
  /\ running
  /\ running' = FALSE
  /\ UNCHANGED <<queue_tasks, queue_tasks_deferred, next_id, respVars, slotVars, loopVars, httpVars>>

-----------------------------------------------------------------------------

Init ==
  /\ queue_tasks = <<>> /\ queue_tasks_deferred = <<>>
  /\ next_id = 0
  /\ running \in BOOLEAN                       \* server_queue leaves it uninitialised
  /\ waiting_task_ids = {} /\ queue_results = <<>>
  /\ answers = [id \in TaskIds |-> 0]
  /\ state = [s \in Slots |-> "idle"]
  /\ id_task = [s \in Slots |-> NoTask]
  /\ data = [s \in Slots |-> NoData]
  /\ n_decoded = [s \in Slots |-> 0]
  /\ loop = "ready" /\ todo = {}
  /\ pc = [c \in Clients |-> "idle"]
  /\ req = [c \in Clients |-> NoData]
  /\ first_id = [c \in Clients |-> NoTask]
  /\ n_finished = [c \in Clients |-> 0]
  /\ to_cancel = [c \in Clients |-> {}]
  /\ cancels = [c \in Clients |-> <<>>]
  /\ budget = MaxTasks

Next == MainThread \/ Terminate \/ \E c \in Clients : Client(c)

Spec == Init /\ [][Next]_vars

\* The main thread keeps running, and so does each handler; a prompt does not lose the
\* competition for the batch for ever.  Peers need not ask anything.
PromptEnds(s) == BatchSlot /\ state[s] = "processing_prompt" /\ state'[s] # "processing_prompt"
Handler(c) ==
  \/ AddWaiting(c) \/ Post(c) \/ Recv(c)
  \/ CancelSend(c) \/ CancelRemove(c) \/ PostCancel(c) \/ RemoveWaiting(c)

FairSpec ==
  /\ Spec
  /\ WF_vars(MainThread)
  /\ \A s \in Slots : SF_vars(PromptEnds(s))
  /\ \A c \in Clients : WF_vars(Handler(c))

-----------------------------------------------------------------------------
(* Properties                                                              *)

TaskSet == [type: Kinds \cup {"next_response"}, id: TaskIds \cup {NoTask},
            id_target: TaskIds \cup {NoTask}, data: Requests \cup {NoData}]
Loops   == {"ready", "tasks", "batch", "decode", "fail", "check", "wait", "stopped"}
Pcs     == {"idle", "add_waiting", "post", "recv", "cancel", "cancel_remove",
            "post_cancel", "remove"}

ServerTypes ==
  /\ queue_tasks \in Seq(TaskSet) /\ queue_tasks_deferred \in Seq(TaskSet)
  /\ running \in BOOLEAN
  /\ waiting_task_ids \subseteq TaskIds
  /\ queue_results \in Seq([id: TaskIds, kind: {"partial", "final", "error", "cancelled"}])
  /\ answers \in [TaskIds -> Nat]
  /\ state \in [Slots -> SlotStates] /\ id_task \in [Slots -> TaskIds \cup {NoTask}]
  /\ data \in [Slots -> Requests \cup {NoData}] /\ n_decoded \in [Slots -> 0 .. MaxDecoded]
  /\ loop \in Loops /\ todo \subseteq Slots

HandlerTypes ==
  /\ next_id \in 0 .. MaxTasks /\ budget \in 0 .. MaxTasks
  /\ pc \in [Clients -> Pcs] /\ req \in [Clients -> Requests \cup {NoData}]
  /\ first_id \in [Clients -> TaskIds \cup {NoTask}] /\ n_finished \in [Clients -> Nat]
  /\ to_cancel \in [Clients -> SUBSET TaskIds] /\ cancels \in [Clients -> Seq(TaskIds)]

\* Every variable keeps to the type its declaration in server.cpp gives it.
TypeOK == ServerTypes /\ HandlerTypes

\* A request's task is never in two places: it is queued once, deferred once or on one
\* busy slot, however often it was deferred, popped and deferred again.
TaskInOnePlace ==
  /\ \A i, j \in DOMAIN queue_tasks :
       queue_tasks[i].id = queue_tasks[j].id => i = j \/ queue_tasks[i].id = NoTask
  /\ \A i, j \in DOMAIN queue_tasks_deferred :
       queue_tasks_deferred[i].id = queue_tasks_deferred[j].id => i = j
  /\ \A s, t \in Processing : id_task[s] = id_task[t] => s = t
  /\ \A i \in DOMAIN queue_tasks, j \in DOMAIN queue_tasks_deferred :
       queue_tasks[i].id # queue_tasks_deferred[j].id
  /\ \A s \in Processing :
       /\ \A i \in DOMAIN queue_tasks : queue_tasks[i].id # id_task[s]
       /\ \A j \in DOMAIN queue_tasks_deferred : queue_tasks_deferred[j].id # id_task[s]

\* The ids of the tasks the server holds.
Held == {t.id : t \in Range(queue_tasks) \cup Range(queue_tasks_deferred)}
          \cup {id_task[s] : s \in Processing}

\* A task enters the server by post() and never again: what was answered, cancelled or
\* released is not taken up a second time.
EntersByPostOnly ==
  [][\A id \in Held' \ Held : id = NoTask \/ \E c \in Clients : pc[c] = "post" /\ id \in ids(c)']_vars

\* The main thread does not block, and does not stop after SIGINT, while a slot has work:
\* the NEXT_RESPONSE task of update_slots is there to take it round again.
NeverSleepsOnWork ==
  loop \in {"check", "wait", "stopped"} /\ Processing # {} => queue_tasks # <<>>

\* A deferred task is waiting for something: a busy slot whose release will pop it, or a
\* completion that is about to be looked at.
NoStrandedTask ==
  queue_tasks_deferred # <<>> =>
    Processing # {} \/ \E t \in Range(queue_tasks) : t.type = "completion"

\* Behind the answer of a task the result queue has nothing for it but the note of a
\* cancellation: no part of its text and no other answer, whoever takes results out of the
\* middle of the queue.
AnswersInOrder ==
  \A i, j \in DOMAIN queue_results :
    /\ i < j /\ queue_results[i].id = queue_results[j].id
    /\ queue_results[i].kind \in Answer
    => queue_results[j].kind = "cancelled"

\* Every queued result has a handler that is there to take it; recv() blocks on an empty
\* queue only, so a result nobody takes keeps every other handler spinning.
NoOrphanResult ==
  \A i \in DOMAIN queue_results :
    \E c \in Clients : pc[c] = "recv" /\ queue_results[i].id \in ids(c)

\* After SIGINT the main loop finishes the work it has and stops.
StopsAfterSignal == (~running /\ loop # "ready") ~> (loop = "stopped")

-----------------------------------------------------------------------------
(* What the handlers see of it: the abstract broker                        *)

\* The ids that were opened: handed out, and past the add_waiting of their handler.
Opened == (0 .. next_id - 1) \ UNION {ids(c) : c \in {d \in Clients : pc[d] = "add_waiting"}}

Broker == INSTANCE RequestBroker
            WITH Ids <- TaskIds, open <- waiting_task_ids, known <- Opened,
                 answers <- answers, stopped <- loop = "stopped"

\* Ids are opened once, answered at most once and only while they are open, and never
\* after they were closed.
ImplementsBroker == Broker!Spec

\* And, with the fairness of the threads, no id stays open while the server runs.
ImplementsFairBroker == Broker!FairSpec

=============================================================================
