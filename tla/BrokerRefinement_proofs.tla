----------------------- MODULE BrokerRefinement_proofs -----------------------
(***************************************************************************)
(* The request path implements RequestBroker, for every number of handlers, *)
(* slots and tasks and every kind of request, as long as llama_decode does  *)
(* not fail.                                                                *)
(*                                                                          *)
(* An id is answered when its task leaves the server, and OneCopy says that *)
(* the server has no other copy of it: so the ids that are held, about to   *)
(* be posted or not drawn yet have no answer, and their results are never   *)
(* behind one in the queue of results.                                      *)
(***************************************************************************)
EXTENDS ServerTasks_proofs

Opening == {c \in Clients : pc[c] = "add_waiting"}

\* The ids the server has yet to deal with: not drawn, drawn and not posted, or held.
Untouched ==
  {id \in TaskIds : next_id <= id \/ id \in HeldIds \/ \E c \in Unposted : id \in ids(c)}

\* They have no answer; the ids that are about to be opened are not shared; and without
\* failures of llama_decode no slot is told of one.
BrokerInv ==
  /\ \A id \in Untouched : answers[id] = 0
  /\ \A c, d \in Opening : c # d => ids(c) \cap ids(d) = {}
  /\ loop # "fail"

-----------------------------------------------------------------------------
(* Answers                                                                 *)

Told(id, kind) == queue_results' = Append(queue_results, [id |-> id, kind |-> kind])

\* An answer is given to somebody who waits, in the step in which the task leaves the server.
Answered(id) ==
  /\ id \in HeldIds \ HeldIds' /\ id \in waiting_task_ids
  /\ answers' = [answers EXCEPT ![id] = answers[id] + 1]
  /\ \E kind \in Answer : Told(id, kind)
  /\ loop # "stopped" /\ loop' # "stopped"

\* Parts of the text are for a task the server still holds.
ToldPart(id) == id \in HeldIds /\ id \in waiting_task_ids /\ Told(id, "partial") /\ UNCHANGED answers

\* send() answers an id somebody waits for, or does nothing.
LEMMA SendAnswers ==
  ASSUME NEW id, NEW kind \in Answer, Send(id, kind)
  PROVE  /\ UNCHANGED waiting_task_ids
         /\ \/ UNCHANGED <<answers, queue_results>>
            \/ /\ id \in waiting_task_ids /\ Told(id, kind)
               /\ answers' = [answers EXCEPT ![id] = answers[id] + 1]
BY DEF Send, Told

\* A partial result and a cancellation are no answers.
LEMMA OthersDoNotAnswer ==
  ASSUME NEW id, NEW kind \in {"partial", "cancelled"}, Send(id, kind)
  PROVE  /\ UNCHANGED <<waiting_task_ids, answers>>
         /\ UNCHANGED queue_results \/ (id \in waiting_task_ids /\ Told(id, kind))
BY DEF Send, Answer, Told

\* Only ids of tasks are waited for.
LEMMA WaitedForIsTask ==
  ASSUME TypeInv, NEW id \in waiting_task_ids
  PROVE  id \in TaskIds /\ id # NoTask
BY DEF TypeInv, TypeOK, ServerTypes, TaskIds, NoTask

\* process_single_task answers a task it drops, or none.
LEMMA ProcessTaskAnswers ==
  ASSUME TypeInv, OnceInv, ProcessTask
  PROVE  /\ UNCHANGED waiting_task_ids
         /\ UNCHANGED <<answers, queue_results>> \/ \E id \in HeldIds : Answered(id)
<1> DEFINE task == Head(queue_tasks)
<1>1. /\ queue_tasks # <<>> /\ NoHandlerMoves /\ loop = "tasks" /\ loop' = loop
      /\ Tail(queue_tasks) \in Seq(TaskSet)
  BY QueueTypes, HeadTailType DEF ProcessTask, NoHandlerMoves, httpVars, loopVars
<1>2. ASSUME NEW kind \in Answer, Send(task.id, kind), queue_tasks' = Tail(queue_tasks),
             UNCHANGED <<queue_tasks_deferred, slotVars>>
      PROVE  /\ UNCHANGED waiting_task_ids
             /\ UNCHANGED <<answers, queue_results>> \/ \E id \in HeldIds : Answered(id)
  <2>1. queue_tasks' = Tail(queue_tasks) \o Popped(0) /\ queue_tasks_deferred' = Remaining(0)
    BY <1>1, <1>2, PoppedNone
  <2>2. Processing' \subseteq Processing /\ UNCHANGED id_task /\ 0 \in Nat
    BY <1>2 DEF Processing, slotVars
  <2>3. task.id # NoTask => task.id \in HeldIds \ HeldIds'
    BY <1>1, <2>1, <2>2, OnceDropped
  <2>4. \/ UNCHANGED <<answers, queue_results>>
        \/ /\ task.id \in waiting_task_ids /\ Told(task.id, kind)
           /\ answers' = [answers EXCEPT ![task.id] = answers[task.id] + 1]
    BY <1>2, SendAnswers
  <2> HIDE DEF task
  <2>5. UNCHANGED <<answers, queue_results>> \/ Answered(task.id)
    BY <1>1, <2>3, <2>4, WaitedForIsTask DEF Answered
  <2> QED
    BY <1>2, <2>5, SendAnswers DEF Answered
<1>3. CASE ProcessCompletion(task)
  <2>1. CASE DeferTask(task)
    BY <2>1 DEF DeferTask, respVars
  <2>2. ASSUME NEW s \in Idle, LaunchTask(task, s)
        PROVE  /\ UNCHANGED waiting_task_ids
               /\ UNCHANGED <<answers, queue_results>> \/ \E id \in HeldIds : Answered(id)
    <3>1. CASE task.data.defect # "launch"
      BY <2>2, <3>1 DEF LaunchTask, respVars
    <3>2. CASE task.data.defect = "launch"
      <4>1. Send(task.id, "error")
        BY <2>2, <3>2 DEF LaunchTask
      <4>2. Processing' \subseteq Processing
        BY <2>2, <3>2 DEF LaunchTask, Processing
      <4>3. task.id \in HeldIds \ HeldIds'
        BY <1>1, <1>3, <2>2, <4>2, OnceLaunch DEF ProcessCompletion
      <4>4. /\ UNCHANGED waiting_task_ids
            /\ \/ UNCHANGED <<answers, queue_results>>
               \/ /\ task.id \in waiting_task_ids /\ \E kind \in Answer : Told(task.id, kind)
                  /\ answers' = [answers EXCEPT ![task.id] = answers[task.id] + 1]
        BY <4>1, SendAnswers DEF Answer
      <4> HIDE DEF task
      <4>5. UNCHANGED <<answers, queue_results>> \/ Answered(task.id)
        BY <1>1, <4>3, <4>4 DEF Answered
      <4> QED
        BY <4>4, <4>5 DEF Answered
    <3> QED
      BY <3>1, <3>2
  <2> QED
    BY <1>3, <2>1, <2>2 DEF ProcessCompletion, Available
<1>4. CASE ProcessCancel(task)
  BY <1>4 DEF ProcessCancel, respVars
<1>5. CASE ProcessSlotAction(task)
  BY <1>2, <1>5 DEF ProcessSlotAction, DeferTask, respVars, Answer
<1>6. CASE ProcessOther(task)
  BY <1>2, <1>6 DEF ProcessOther, respVars, Answer
<1> QED
  BY <1>3, <1>4, <1>5, <1>6 DEF ProcessTask

\* update_slots answers a task whose slot it releases, or none.
LEMMA SlotLoopsAnswer ==
  ASSUME TypeInv, OnceInv, BatchSlot \/ DecodeSlot
  PROVE  /\ UNCHANGED waiting_task_ids
         /\ \/ UNCHANGED <<answers, queue_results>>
            \/ \E id \in HeldIds : ToldPart(id) \/ Answered(id)
<1>1. /\ UNCHANGED id_task /\ NoHandlerMoves /\ loop # "stopped" /\ loop' # "stopped"
  BY DEF BatchSlot, DecodeSlot, NoHandlerMoves, httpVars, Visit
<1>2. ASSUME NEW s \in Slots, state[s] # "idle", NEW kind \in Answer, Release(s), Send(id_task[s], kind)
      PROVE  /\ UNCHANGED waiting_task_ids
             /\ UNCHANGED <<answers, queue_results>> \/ \E id \in HeldIds : Answered(id)
  <2>1. id_task[s] \in HeldIds \ HeldIds'
    BY <1>1, <1>2, OnceRelease
  <2>2. /\ UNCHANGED waiting_task_ids
        /\ \/ UNCHANGED <<answers, queue_results>>
           \/ /\ id_task[s] \in waiting_task_ids /\ Told(id_task[s], kind)
              /\ answers' = [answers EXCEPT ![id_task[s]] = answers[id_task[s]] + 1]
    BY <1>2, SendAnswers
  <2>3. UNCHANGED <<answers, queue_results>> \/ Answered(id_task[s])
    BY <1>1, <2>1, <2>2 DEF Answered
  <2> QED
    BY <2>2, <2>3 DEF Answered
<1>3. ASSUME NEW s \in Slots, state[s] # "idle", Send(id_task[s], "partial")
      PROVE  /\ UNCHANGED waiting_task_ids
             /\ UNCHANGED <<answers, queue_results>> \/ \E id \in HeldIds : ToldPart(id)
  <2>1. id_task[s] \in HeldIds
    BY <1>3 DEF HeldIds, Processing
  <2>2. /\ UNCHANGED <<waiting_task_ids, answers>>
        /\ UNCHANGED queue_results \/ (id_task[s] \in waiting_task_ids /\ Told(id_task[s], "partial"))
    BY <1>3, OthersDoNotAnswer
  <2> QED
    BY <2>1, <2>2 DEF ToldPart
<1>4. \E s \in Slots :
        \/ UNCHANGED respVars
        \/ state[s] # "idle" /\ Send(id_task[s], "partial")
        \/ state[s] # "idle" /\ Release(s) /\ \E kind \in {"error", "final"} : Send(id_task[s], kind)
  <2>1. \A s \in todo : s \in Slots
    BY DEF TypeInv, TypeOK, ServerTypes
  <2>2. CASE BatchSlot
    BY <2>1, <2>2 DEF BatchSlot, BatchPrompt, ContextFull
  <2>3. CASE DecodeSlot
    BY <2>1, <2>3 DEF DecodeSlot, ProcessToken
  <2> QED
    BY <2>2, <2>3
<1>5. UNCHANGED respVars => UNCHANGED <<waiting_task_ids, answers, queue_results>>
  BY DEF respVars
<1> QED
  BY <1>2, <1>3, <1>4, <1>5 DEF Answer

-----------------------------------------------------------------------------
(* The handlers' moves, as far as the ids go                               *)

OthersStay(c) ==
  \A d \in Clients \ {c} : pc'[d] = pc[d] /\ req'[d] = req[d] /\ ids(d)' = ids(d)

\* The handler is not about to open ids, neither before the step nor after it.
Quiet(c) ==
  /\ UNCHANGED <<next_id, answers, loop>> /\ OthersStay(c)
  /\ pc[c] # "add_waiting" /\ c \notin Opening' /\ c \notin Unposted'
  /\ \E X : waiting_task_ids' = waiting_task_ids \ X

\* The handler draws ids it is going to open.
Draws(c) ==
  /\ UNCHANGED <<waiting_task_ids, answers, loop>> /\ OthersStay(c)
  /\ next_id' \in Nat /\ next_id <= next_id' /\ ids(c)' = next_id .. next_id' - 1
  /\ pc[c] # "add_waiting" /\ pc'[c] = "add_waiting"

\* The handler opens the ids it drew.
Opens(c) ==
  /\ UNCHANGED <<next_id, answers, loop>> /\ OthersStay(c)
  /\ waiting_task_ids' = waiting_task_ids \cup ids(c) /\ ids(c)' = ids(c) /\ ids(c) # {}
  /\ pc[c] = "add_waiting" /\ c \notin Opening' /\ (c \in Unposted' => c \in Unposted)

LEMMA HandlerTypesOf ==
  ASSUME TypeInv
  PROVE  /\ pc \in [Clients -> Pcs] /\ req \in [Clients -> Requests \cup {NoData}]
         /\ first_id \in [Clients -> TaskIds \cup {NoTask}] /\ next_id \in Nat
BY ConstantTypes DEF TypeInv, TypeOK, HandlerTypes

\* A request that starts draws its ids, or will have them drawn, or needs none.
LEMMA BeginRequestMoves ==
  ASSUME TypeInv, NEW c \in Clients, NEW r \in Requests, BeginRequest(c, r)
  PROVE  Quiet(c) \/ Draws(c)
<1>1. /\ req' = [req EXCEPT ![c] = r] /\ pc[c] = "idle"
      /\ UNCHANGED <<waiting_task_ids, answers, loop>>
      /\ waiting_task_ids' = waiting_task_ids \ {}
  BY DEF BeginRequest, respVars, loopVars
<1>2. r.n \in Nat
  BY ConstantTypes
<1>3. CASE /\ first_id' = [first_id EXCEPT ![c] = next_id] /\ next_id' = next_id + r.n
           /\ pc' = [pc EXCEPT ![c] = "add_waiting"]
  <2>1. OthersStay(c)
    BY <1>1, <1>3, HandlerTypesOf DEF OthersStay, ids
  <2>2. first_id'[c] = next_id /\ req'[c] = r /\ next_id # NoTask
    BY <1>1, <1>3, HandlerTypesOf DEF NoTask
  <2>3. ids(c)' = next_id .. next_id' - 1
    BY <1>2, <1>3, <2>2, HandlerTypesOf DEF ids
  <2> QED
    BY <1>1, <1>2, <1>3, <2>1, <2>3, HandlerTypesOf DEF Draws
<1>4. CASE /\ UNCHANGED <<first_id, next_id>>
           /\ pc' = [pc EXCEPT ![c] = "cancel"] \/ (PostsFirst(r) /\ pc' = [pc EXCEPT ![c] = "post"])
  <2>1. OthersStay(c)
    BY <1>1, <1>4, HandlerTypesOf DEF OthersStay, ids
  <2>2. c \notin Opening' /\ c \notin Unposted'
    BY <1>1, <1>4, HandlerTypesOf DEF Opening, Unposted
  <2> QED
    BY <1>1, <1>4, <2>1, <2>2 DEF Quiet
<1> QED
  BY <1>3, <1>4 DEF BeginRequest

\* post() draws the id it gives out itself.
LEMMA PostMoves ==
  ASSUME TypeInv, NEW c \in Clients, Post(c)
  PROVE  Quiet(c) \/ Draws(c)
<1>1. /\ pc[c] = "post" /\ UNCHANGED <<waiting_task_ids, answers, loop, req>>
      /\ waiting_task_ids' = waiting_task_ids \ {}
  BY DEF Post, respVars, loopVars
<1>2. CASE PostsFirst(req[c])
  <2>1. /\ next_id' = next_id + 1 /\ first_id' = [first_id EXCEPT ![c] = next_id]
        /\ pc' = [pc EXCEPT ![c] = "add_waiting"]
    BY <1>2 DEF Post
  <2>2. OthersStay(c)
    BY <1>1, <2>1, HandlerTypesOf DEF OthersStay, ids
  <2>3. req[c] \in Requests /\ req[c].n = 1
    BY <1>1, <1>2, ConstantTypes DEF TypeInv, IdsDrawn
  <2>4. first_id'[c] = next_id /\ req'[c].n = 1 /\ next_id # NoTask
    BY <1>1, <2>1, <2>3, HandlerTypesOf DEF NoTask
  <2>5. ids(c)' = next_id .. next_id' - 1
    BY <2>1, <2>4, HandlerTypesOf DEF ids
  <2> QED
    BY <1>1, <2>1, <2>2, <2>5, HandlerTypesOf DEF Draws
<1>3. CASE ~PostsFirst(req[c])
  <2>1. pc' = [pc EXCEPT ![c] = "recv"] /\ UNCHANGED <<next_id, first_id>>
    BY <1>3 DEF Post
  <2>2. OthersStay(c)
    BY <1>1, <2>1, HandlerTypesOf DEF OthersStay, ids
  <2> QED
    BY <1>1, <2>1, <2>2, HandlerTypesOf DEF Quiet, Opening, Unposted
<1> QED
  BY <1>2, <1>3

\* After add_waiting_tasks() the ids are open.
LEMMA AddWaitingMoves ==
  ASSUME TypeInv, NEW c \in Clients, AddWaiting(c)
  PROVE  Opens(c)
<1>1. /\ pc[c] = "add_waiting" /\ UNCHANGED <<next_id, answers, loop, req, first_id>>
      /\ pc' = [pc EXCEPT ![c] = IF PostsFirst(req[c]) THEN "recv" ELSE "post"]
      /\ waiting_task_ids' = waiting_task_ids \cup ids(c)
  BY DEF AddWaiting, taskVars, loopVars
<1>2. OthersStay(c) /\ ids(c)' = ids(c)
  BY <1>1, HandlerTypesOf DEF OthersStay, ids
<1>3. c \notin Opening' /\ (c \in Unposted' => c \in Unposted)
  BY <1>1, HandlerTypesOf DEF Opening, Unposted
<1>4. ids(c) # {}
  <2>1. first_id[c] # NoTask /\ first_id[c] \in Nat /\ req[c].n \in Nat \ {0}
    BY <1>1, HandlerTypesOf, ConstantTypes DEF TypeInv, IdsDrawn, TaskIds
  <2> QED
    BY <2>1 DEF ids
<1> QED
  BY <1>1, <1>2, <1>3, <1>4 DEF Opens

\* The other steps of a handler may close ids.
LEMMA RestMoves ==
  ASSUME TypeInv, NEW c \in Clients,
         Recv(c) \/ CancelSend(c) \/ CancelRemove(c) \/ PostCancel(c) \/ RemoveWaiting(c)
  PROVE  Quiet(c)
<1>1. /\ UNCHANGED <<next_id, answers, loop>> /\ pc[c] # "add_waiting"
      /\ \E X : waiting_task_ids' = waiting_task_ids \ X
  <2>1. CASE CancelSend(c)
    <3>1. UNCHANGED <<waiting_task_ids, answers>>
      BY <2>1, OthersDoNotAnswer DEF CancelSend
    <3>2. waiting_task_ids' = waiting_task_ids \ {}
      BY <3>1
    <3> QED
      BY <2>1, <3>1, <3>2 DEF CancelSend, taskVars, loopVars
  <2>2. CASE Recv(c) \/ PostCancel(c)
    <3>1. UNCHANGED <<waiting_task_ids, answers, next_id, loop>> /\ pc[c] # "add_waiting"
      BY <2>2 DEF Recv, PostCancel, taskVars, loopVars, respVars
    <3>2. waiting_task_ids' = waiting_task_ids \ {}
      BY <3>1
    <3> QED
      BY <3>1, <3>2
  <2>3. CASE CancelRemove(c)
    BY <2>3 DEF CancelRemove, taskVars, loopVars
  <2>4. CASE RemoveWaiting(c)
    BY <2>4 DEF RemoveWaiting, taskVars, loopVars
  <2> QED
    BY <2>1, <2>2, <2>3, <2>4
<1>2. \/ UNCHANGED <<pc, req, first_id>> /\ pc[c] = "recv"
      \/ \E p \in Pcs \ {"add_waiting", "post"} : pc' = [pc EXCEPT ![c] = p] /\ UNCHANGED <<req, first_id>>
      \/ Finish(c)
  <2>1. CASE Recv(c)
    BY <2>1 DEF Recv, ReceiveStream, ReceivePlain, CountFinished, StartCancel, Pcs
  <2>2. CASE CancelSend(c)
    BY <2>2 DEF CancelSend, Pcs
  <2>3. CASE CancelRemove(c)
    BY <2>3 DEF CancelRemove, Pcs
  <2>4. CASE PostCancel(c)
    BY <2>4 DEF PostCancel, Pcs
  <2>5. CASE RemoveWaiting(c)
    BY <2>5 DEF RemoveWaiting
  <2> QED
    BY <2>1, <2>2, <2>3, <2>4, <2>5
<1>3. OthersStay(c)
  BY <1>2, HandlerTypesOf DEF OthersStay, ids, Finish
<1>4. c \notin Opening' /\ c \notin Unposted'
  BY <1>2, HandlerTypesOf DEF Opening, Unposted, Finish
<1> QED
  BY <1>1, <1>3, <1>4 DEF Quiet

LEMMA HandlerMoves ==
  ASSUME TypeInv, NEW c \in Clients, Client(c)
  PROVE  Quiet(c) \/ Draws(c) \/ Opens(c)
BY BeginRequestMoves, PostMoves, AddWaitingMoves, RestMoves DEF Client

-----------------------------------------------------------------------------
(* The invariant                                                           *)

\* A handler's step makes no id untouched again.
LEMMA HandlerTouches ==
  ASSUME TypeInv, OnceInv, NEW c \in Clients, Client(c)
  PROVE  Untouched' \subseteq Untouched
<1>1. /\ next_id \in Nat /\ next_id' \in Nat /\ next_id <= next_id' /\ OthersStay(c)
      /\ \/ c \notin Unposted'
         \/ c \in Unposted /\ ids(c)' = ids(c)
         \/ ids(c)' = next_id .. next_id' - 1
  BY HandlerMoves, HandlerTypesOf DEF Quiet, Draws, Opens
<1>2. \A d \in Unposted' \ {c} : d \in Unposted /\ ids(d)' = ids(d)
  BY <1>1 DEF OthersStay, Unposted
<1>3. \A id \in TaskIds : (\E d \in Unposted' : id \in ids(d)') => id \in Untouched
  BY <1>1, <1>2 DEF Untouched, TaskIds
<1>4. \A id \in TaskIds : id \in HeldIds' => id \in Untouched
  <2>1. CASE Post(c)
    <3>1. HeldIds' \subseteq HeldIds \cup ids(c)'
      BY <2>1, OncePostDrawn, OncePostDraws
    <3>2. (c \in Unposted /\ ids(c)' = ids(c)) \/ ids(c)' = next_id .. next_id' - 1
      <4>1. CASE PostsFirst(req[c])
        <5>1. pc'[c] = "add_waiting"
          BY <2>1, <4>1, HandlerTypesOf DEF Post
        <5>2. c \in Opening'
          BY <5>1 DEF Opening
        <5> QED
          BY <2>1, <5>2, PostMoves DEF Quiet, Draws
      <4>2. CASE ~PostsFirst(req[c])
        BY <2>1, <4>2 DEF Post, Unposted, ids
      <4> QED
        BY <4>1, <4>2
    <3> QED
      BY <1>1, <3>1, <3>2 DEF Untouched, TaskIds
  <2>2. CASE ~Post(c)
    <3>1. HeldIds' \subseteq HeldIds \cup {NoTask}
      <4>1. CASE \E r \in Requests : BeginRequest(c, r)
        BY <4>1, OnceBeginRequest
      <4>2. CASE PostCancel(c)
        BY <4>2, OncePostCancel
      <4> QED
        BY <2>2, <4>1, <4>2, OnceQuiet DEF Client
    <3> QED
      BY <3>1 DEF Untouched, TaskIds, NoTask
  <2> QED
    BY <2>1, <2>2
<1>5. \A id \in TaskIds : next_id' <= id => id \in Untouched
  BY <1>1 DEF Untouched, TaskIds
<1> QED
  BY <1>3, <1>4, <1>5 DEF Untouched

\* The ids that are about to be opened stay apart.
LEMMA OpeningApart ==
  ASSUME TypeInv, BrokerInv, NEW c \in Clients, Client(c)
  PROVE  \A d, e \in Opening' : d # e => ids(d)' \cap ids(e)' = {}
<1>1. /\ OthersStay(c) /\ next_id \in Nat /\ next_id' \in Nat
      /\ c \notin Opening' \/ ids(c)' = next_id .. next_id' - 1
  BY HandlerMoves, HandlerTypesOf DEF Quiet, Draws, Opens
<1>2. \A d \in Opening' \ {c} : d \in Opening /\ ids(d)' = ids(d)
  BY <1>1 DEF OthersStay, Opening
<1>3. \A d \in Opening : \A id \in ids(d) : id \in Nat /\ id < next_id
  BY HeldInt DEF Opening
<1>4. \A d, e \in Opening' \ {c} : d # e => ids(d)' \cap ids(e)' = {}
  BY <1>2 DEF BrokerInv
<1>5. ASSUME c \in Opening', NEW d \in Opening' \ {c}
      PROVE  ids(d)' \cap ids(c)' = {}
  <2>1. \A id \in ids(c)' : id \in Int /\ next_id <= id
    BY <1>1, <1>5
  <2>2. \A id \in ids(d)' : id \in Int /\ id < next_id
    BY <1>2, <1>3
  <2> QED
    BY <1>1, <2>1, <2>2
<1> QED
  BY <1>4, <1>5

\* The main thread makes no id untouched again, and an answered one is dealt with.
LEMMA MainTouches ==
  ASSUME TypeInv, OnceInv, HeldIds' \subseteq HeldIds \cup {NoTask}, NoHandlerMoves
  PROVE  /\ Untouched' \subseteq Untouched
         /\ \A id \in HeldIds \ HeldIds' : Answered(id) => id \in Untouched \ Untouched'
         /\ Opening' = Opening /\ \A c \in Clients : ids(c)' = ids(c)
<1>1. Unposted' = Unposted /\ Opening' = Opening /\ \A c \in Clients : ids(c)' = ids(c)
  BY DEF NoHandlerMoves, Unposted, Opening, ids
<1>2. Untouched' \subseteq Untouched
  BY <1>1 DEF Untouched, NoHandlerMoves, Unposted, TaskIds, NoTask
<1>3. ASSUME NEW id \in HeldIds \ HeldIds', Answered(id)
      PROVE  id \in Untouched \ Untouched'
  <2>1. id \in TaskIds
    BY <1>3, WaitedForIsTask DEF Answered
  <2>2. id \in Int /\ next_id \in Nat /\ id < next_id /\ UNCHANGED next_id
    BY HeldInt DEF OnceInv, FreshIds, NoHandlerMoves
  <2>3. \A c \in Unposted' : id \notin ids(c)'
    BY <1>1 DEF OnceInv, FreshIds, Unposted
  <2> QED
    BY <2>1, <2>2, <2>3 DEF Untouched
<1> QED
  BY <1>1, <1>2, <1>3

\* What a step that is no handler's does for the broker.
LEMMA MainMoves ==
  ASSUME TypeInv, OnceInv, BrokerInv, ~DecodeMayFail, MainThread \/ Terminate \/ UNCHANGED vars
  PROVE  /\ NoHandlerMoves /\ UNCHANGED waiting_task_ids /\ loop' # "fail"
         /\ HeldIds' \subseteq HeldIds \cup {NoTask}
         /\ \/ UNCHANGED <<answers, queue_results>>
            \/ \E id \in HeldIds : ToldPart(id) \/ Answered(id)
         /\ loop = "stopped" => loop' = "stopped"
<1>1. CASE ProcessTask
  <2>1. NoHandlerMoves /\ loop' = loop /\ loop = "tasks"
    BY <1>1 DEF ProcessTask, NoHandlerMoves, httpVars, loopVars
  <2> QED
    BY <1>1, <2>1, OnceProcessTask, ProcessTaskAnswers
<1>2. CASE BatchSlot \/ DecodeSlot
  <2>1. NoHandlerMoves /\ loop' # "fail" /\ loop # "stopped"
    BY <1>2 DEF BatchSlot, DecodeSlot, NoHandlerMoves, httpVars, Visit
  <2> QED
    BY <1>2, <2>1, OnceSlotLoops, SlotLoopsAnswer
<1>3. CASE UpdateSlots
  <2>1. NoHandlerMoves /\ UNCHANGED <<waiting_task_ids, answers, queue_results>> /\ loop' # "fail" /\ loop # "stopped"
    BY <1>3 DEF UpdateSlots, NoHandlerMoves, httpVars, respVars
  <2> QED
    BY <1>3, <2>1, OnceUpdateSlots
<1>4. CASE StartLoop \/ CheckQueue \/ Wake \/ Terminate \/ UNCHANGED vars
  <2>1. /\ UNCHANGED <<queue_tasks, queue_tasks_deferred, state, id_task>> /\ NoHandlerMoves
        /\ UNCHANGED <<waiting_task_ids, answers, queue_results>>
    BY <1>4 DEF StartLoop, CheckQueue, Wake, Terminate, vars, taskVars, slotVars, respVars,
                httpVars, NoHandlerMoves
  <2>2. loop' # "fail" /\ (loop = "stopped" => loop' = "stopped")
    BY <1>4 DEF StartLoop, CheckQueue, Wake, Terminate, vars, loopVars, BrokerInv
  <2>3. Processing' \subseteq Processing
    BY <2>1 DEF Processing
  <2> QED
    BY <2>1, <2>2, <2>3, OnceGoesOn
<1>5. CASE DecodeFail \/ FailSlot
  BY <1>5 DEF DecodeFail, FailSlot, BrokerInv
<1> QED
  BY <1>1, <1>2, <1>3, <1>4, <1>5 DEF MainThread

\* The server starts without ids.
LEMMA BrokerInit == Init => BrokerInv
<1> SUFFICES ASSUME Init PROVE BrokerInv
  OBVIOUS
<1>1. Opening = {} /\ loop # "fail"
  BY DEF Init, Opening
<1>2. \A id \in Untouched : id \in TaskIds /\ answers[id] = 0
  BY DEF Init, Untouched
<1> QED
  BY <1>1, <1>2 DEF BrokerInv

\* Every step keeps it.
LEMMA BrokerNext ==
  ASSUME TypeInv, OnceInv, BrokerInv, ~DecodeMayFail, [Next]_vars
  PROVE  BrokerInv'
<1>1. ASSUME NEW c \in Clients, Client(c)
      PROVE  BrokerInv'
  <2>1. UNCHANGED <<answers, loop>>
    BY <1>1, HandlerMoves DEF Quiet, Draws, Opens
  <2>2. \A id \in Untouched' : answers'[id] = 0
    BY <1>1, <2>1, HandlerTouches DEF BrokerInv
  <2> QED
    BY <1>1, <2>1, <2>2, OpeningApart DEF BrokerInv
<1>2. CASE MainThread \/ Terminate \/ UNCHANGED vars
  <2>1. /\ NoHandlerMoves /\ loop' # "fail" /\ HeldIds' \subseteq HeldIds \cup {NoTask}
        /\ UNCHANGED answers \/ \E id \in HeldIds : Answered(id)
    BY <1>2, MainMoves DEF ToldPart
  <2>2. /\ Untouched' \subseteq Untouched /\ Opening' = Opening
        /\ \A id \in HeldIds \ HeldIds' : Answered(id) => id \in Untouched \ Untouched'
        /\ \A c \in Clients : ids(c)' = ids(c)
    BY <2>1, MainTouches
  <2>3. \A id \in Untouched' : answers'[id] = answers[id]
    <3>1. CASE UNCHANGED answers
      BY <3>1
    <3>2. ASSUME NEW id \in HeldIds, Answered(id)
          PROVE  \A other \in Untouched' : answers'[other] = answers[other]
      <4>1. id \notin Untouched' /\ answers' = [answers EXCEPT ![id] = answers[id] + 1]
        BY <2>2, <3>2 DEF Answered
      <4> QED
        BY <4>1
    <3> QED
      BY <2>1, <3>1, <3>2
  <2>4. \A d, e \in Opening' : d # e => ids(d)' \cap ids(e)' = {}
    BY <2>2 DEF BrokerInv, Opening
  <2>5. \A id \in Untouched' : answers'[id] = 0
    BY <2>2, <2>3 DEF BrokerInv
  <2> QED
    BY <2>1, <2>4, <2>5 DEF BrokerInv
<1> QED
  BY <1>1, <1>2 DEF Next

-----------------------------------------------------------------------------
(* The refinement                                                          *)

\* Opened ids are those drawn that no handler is about to open.
LEMMA OpenedMoves ==
  ASSUME TypeInv, BrokerInv, NEW c \in Clients, Client(c)
  PROVE  /\ Quiet(c) \/ Draws(c) => Opened' = Opened
         /\ Opens(c) => Opened' = Opened \cup ids(c) /\ ids(c) \cap Opened = {}
<1> DEFINE Taken(id)  == \E d \in Opening : id \in ids(d)
           TakenNext(id) == \E d \in Opening' : id \in ids(d)'
<1>1. /\ \A id : id \in Opened <=> id \in 0 .. next_id - 1 /\ ~Taken(id)
      /\ \A id : id \in Opened' <=> id \in 0 .. next_id' - 1 /\ ~TakenNext(id)
  BY DEF Opened, Opening
<1>2. next_id \in Nat /\ \A id \in ids(c) : id \in Nat /\ id < next_id
  BY HeldInt
<1>3. \A id : Taken(id) => id \in Nat /\ id < next_id
  BY HeldInt DEF Opening
<1>4. ASSUME OthersStay(c)
      PROVE  \A id : TakenNext(id) <=> (\E d \in Opening \ {c} : id \in ids(d))
                                         \/ (c \in Opening' /\ id \in ids(c)')
  BY <1>4 DEF OthersStay, Opening
<1>5. CASE Quiet(c)
  <2>1. \A id : TakenNext(id) <=> Taken(id)
    BY <1>4, <1>5 DEF Quiet, Opening
  <2> HIDE DEF Taken, TakenNext
  <2> QED
    BY <1>1, <1>5, <2>1 DEF Quiet, Opens
<1>6. CASE Draws(c)
  <2>1. /\ c \in Opening' /\ c \notin Opening
        /\ next_id' \in Nat /\ next_id <= next_id' /\ ids(c)' = next_id .. next_id' - 1
    BY <1>6 DEF Draws, Opening
  <2>2. \A id : TakenNext(id) <=> Taken(id) \/ id \in next_id .. next_id' - 1
    BY <1>4, <1>6, <2>1 DEF Draws
  <2> HIDE DEF Taken, TakenNext
  <2>3. \A id : id \in Opened' <=> id \in Opened
    BY <1>1, <1>2, <1>3, <2>1, <2>2
  <2> QED
    BY <1>6, <2>3 DEF Draws, Opens
<1>7. CASE Opens(c)
  <2>1. c \in Opening /\ c \notin Opening' /\ next_id' = next_id
    BY <1>7 DEF Opens, Opening
  <2>2. \A id : Taken(id) <=> TakenNext(id) \/ id \in ids(c)
    BY <1>4, <1>7, <2>1 DEF Opens
  <2>3. \A id : TakenNext(id) => id \notin ids(c)
    BY <1>4, <1>7, <2>1 DEF BrokerInv, Opens
  <2> HIDE DEF Taken, TakenNext
  <2>4. /\ \A id : id \in Opened' <=> id \in Opened \/ id \in ids(c)
        /\ \A id \in ids(c) : id \notin Opened
    BY <1>1, <1>2, <2>1, <2>2, <2>3
  <2>5. Opened' = Opened \cup ids(c) /\ ids(c) \cap Opened = {}
    BY <2>4
  <2> QED
    BY <1>7, <2>5 DEF Opens, Quiet, Draws
<1> QED
  BY <1>5, <1>6, <1>7, HandlerMoves

\* A handler's step opens ids, closes ids or does nothing to the broker.
LEMMA HandlerImplements ==
  ASSUME TypeInv, BrokerInv, NEW c \in Clients, Client(c)
  PROVE  [Broker!Next]_(Broker!brokerVars)
<1>1. UNCHANGED <<answers, loop>>
  BY HandlerMoves DEF Quiet, Draws, Opens
<1>2. waiting_task_ids \subseteq TaskIds /\ ids(c) \subseteq TaskIds
  BY IdsType DEF TypeInv, TypeOK, ServerTypes
<1>3. (loop = "stopped")' = (loop = "stopped")
  BY <1>1
<1>4. CASE Opens(c)
  <2>1. Opened' = Opened \cup ids(c) /\ ids(c) \cap Opened = {}
    BY <1>4, OpenedMoves
  <2>2. Broker!Open(ids(c))
    BY <1>1, <1>3, <1>4, <2>1 DEF Broker!Open, Opens
  <2>3. ids(c) \in SUBSET TaskIds /\ ids(c) # {}
    BY <1>2, <1>4 DEF Opens
  <2> QED
    BY <2>2, <2>3 DEF Broker!Next
<1>5. CASE Quiet(c) \/ Draws(c)
  <2>1. Opened' = Opened
    BY <1>5, OpenedMoves
  <2>2. PICK X : waiting_task_ids' = waiting_task_ids \ X
    <3>1. CASE Draws(c)
      BY <3>1 DEF Draws
    <3> QED
      BY <1>5, <3>1 DEF Quiet
  <2>3. CASE waiting_task_ids \cap X = {}
    <3>1. waiting_task_ids' = waiting_task_ids
      BY <2>2, <2>3
    <3> QED
      BY <1>1, <1>3, <2>1, <3>1 DEF Broker!brokerVars
  <2>4. CASE waiting_task_ids \cap X # {}
    <3> DEFINE S == waiting_task_ids \cap X
    <3>1. /\ S \subseteq waiting_task_ids /\ S \in SUBSET TaskIds /\ S # {}
          /\ waiting_task_ids' = waiting_task_ids \ S
      BY <1>2, <2>2, <2>4
    <3> HIDE DEF S
    <3>2. Broker!Close(S)
      BY <1>1, <1>3, <2>1, <3>1 DEF Broker!Close
    <3> QED
      BY <3>1, <3>2 DEF Broker!Next
  <2> QED
    BY <2>3, <2>4
<1> QED
  BY <1>4, <1>5, HandlerMoves

\* The main thread gives an id its first answer, stops or does nothing to the broker.
LEMMA MainImplements ==
  ASSUME TypeInv, OnceInv, BrokerInv, ~DecodeMayFail, MainThread \/ Terminate \/ UNCHANGED vars
  PROVE  [Broker!Next]_(Broker!brokerVars)
<1>1. /\ NoHandlerMoves /\ UNCHANGED waiting_task_ids
      /\ HeldIds' \subseteq HeldIds \cup {NoTask}
      /\ UNCHANGED answers \/ \E id \in HeldIds : Answered(id)
      /\ loop = "stopped" => loop' = "stopped"
  BY MainMoves DEF ToldPart
<1>2. Opened' = Opened
  BY <1>1 DEF NoHandlerMoves, Opened, ids
<1>3. CASE UNCHANGED answers
  <2>1. CASE loop # "stopped" /\ loop' = "stopped"
    <3>1. Broker!Stop
      BY <1>1, <1>2, <1>3, <2>1 DEF Broker!Stop
    <3> QED
      BY <3>1 DEF Broker!Next
  <2>2. CASE ~(loop # "stopped" /\ loop' = "stopped")
    <3>1. (loop = "stopped")' = (loop = "stopped")
      BY <1>1, <2>2
    <3> QED
      BY <1>1, <1>2, <1>3, <3>1 DEF Broker!brokerVars
  <2> QED
    BY <2>1, <2>2
<1>4. ASSUME NEW id \in HeldIds, Answered(id)
      PROVE  [Broker!Next]_(Broker!brokerVars)
  <2>1. id \in Untouched
    BY <1>1, <1>4, MainTouches DEF Answered
  <2>2. /\ id \in TaskIds /\ answers[id] = 0 /\ id \in waiting_task_ids
        /\ answers' = [answers EXCEPT ![id] = answers[id] + 1]
    BY <1>4, <2>1 DEF BrokerInv, Untouched, Answered
  <2>3. answers' = [answers EXCEPT ![id] = 1]
    BY <2>2
  <2>4. ~(loop = "stopped") /\ (loop = "stopped")' = (loop = "stopped")
    BY <1>4 DEF Answered
  <2>5. Broker!Answer(id)
    BY <1>1, <1>2, <2>2, <2>3, <2>4 DEF Broker!Answer
  <2> QED
    BY <2>2, <2>5 DEF Broker!Next
<1> QED
  BY <1>1, <1>3, <1>4

\* The initial states map to the broker's.
LEMMA InitImplements == Init => Broker!Init
<1> SUFFICES ASSUME Init PROVE Broker!Init
  OBVIOUS
<1>1. Opened = {}
  BY DEF Init, Opened
<1>2. (loop = "stopped") = FALSE
  BY DEF Init
<1> QED
  BY <1>1, <1>2 DEF Init, Broker!Init

-----------------------------------------------------------------------------
(* The theorem                                                             *)

\* What the HTTP side sees of the server is the broker, when llama_decode does not fail:
\* an id is opened once, answered at most once, only while it is open, and never after
\* it was closed.
THEOREM ServerImplementsBroker ==
  ASSUME ~DecodeMayFail
  PROVE  Spec => ImplementsBroker
<1>1. Init => TypeInv /\ OnceInv /\ BrokerInv
  BY TypeInit, OnceInit, BrokerInit
<1>2. TypeInv /\ OnceInv /\ BrokerInv /\ [Next]_vars => (TypeInv /\ OnceInv /\ BrokerInv)'
  BY TypeNext, OnceNext, BrokerNext
<1>3. TypeInv /\ OnceInv /\ BrokerInv /\ [Next]_vars => [Broker!Next]_(Broker!brokerVars)
  <2> SUFFICES ASSUME TypeInv, OnceInv, BrokerInv, [Next]_vars
               PROVE  [Broker!Next]_(Broker!brokerVars)
    OBVIOUS
  <2> QED
    BY HandlerImplements, MainImplements DEF Next
<1>4. Init => Broker!Init
  BY InitImplements
<1> QED
  BY <1>1, <1>2, <1>3, <1>4, PTL DEF Spec, ImplementsBroker, Broker!Spec

-----------------------------------------------------------------------------
(* The order of the results                                                *)

\* An answer in the queue is one of a task that was dealt with.
AnswersLast ==
  /\ AnswersInOrder
  /\ \A i \in DOMAIN queue_results : queue_results[i].kind \in Answer => queue_results[i].id \notin Untouched

\* A result that is sent goes behind those of other tasks only, or notes a cancellation.
LEMMA LastAppended ==
  ASSUME TypeInv, AnswersLast, Untouched' \subseteq Untouched, NEW id, NEW kind, Told(id, kind),
         kind \in Answer => id \notin Untouched', kind # "cancelled" => id \in Untouched
  PROVE  AnswersLast'
<1> DEFINE last == [id |-> id, kind |-> kind]
<1>1. /\ queue_results' = Append(queue_results, last) /\ last.id = id /\ last.kind = kind
      /\ queue_results \in Results
  BY DEF Told, TypeInv, TypeOK, ServerTypes, Results
<1> HIDE DEF last
<1>2. /\ Len(queue_results) \in Nat /\ DOMAIN queue_results = 1 .. Len(queue_results)
      /\ DOMAIN queue_results' = 1 .. Len(queue_results) + 1
      /\ \A i \in 1 .. Len(queue_results) : queue_results'[i] = queue_results[i]
      /\ queue_results'[Len(queue_results) + 1] = last
  BY <1>1 DEF Results
<1>3. \A i \in DOMAIN queue_results' : i \in DOMAIN queue_results \/ i = Len(queue_results) + 1
  BY <1>2
<1>4. \A i \in DOMAIN queue_results' :
        queue_results'[i].kind \in Answer => queue_results'[i].id \notin Untouched'
  BY <1>1, <1>2, <1>3 DEF AnswersLast
<1>5. ASSUME NEW i \in DOMAIN queue_results', NEW j \in DOMAIN queue_results', i < j,
             queue_results'[i].id = queue_results'[j].id, queue_results'[i].kind \in Answer
      PROVE  queue_results'[j].kind = "cancelled"
  <2>1. i \in DOMAIN queue_results /\ queue_results'[i] = queue_results[i]
    BY <1>2, <1>5
  <2>2. CASE j \in DOMAIN queue_results
    BY <1>2, <1>5, <2>1, <2>2 DEF AnswersLast, AnswersInOrder
  <2>3. CASE j = Len(queue_results) + 1
    BY <1>1, <1>2, <1>5, <2>1, <2>3 DEF AnswersLast
  <2> QED
    BY <1>3, <2>2, <2>3
<1> QED
  BY <1>4, <1>5 DEF AnswersLast, AnswersInOrder, Answer

\* What is behind the place that is removed moves up by one.
LEMMA RemoveAtPlaces ==
  ASSUME NEW S, NEW q \in Seq(S), NEW k \in 1 .. Len(q)
  PROVE  /\ DOMAIN RemoveAt(q, k) = 1 .. Len(q) - 1
         /\ \A i \in 1 .. Len(q) - 1 : RemoveAt(q, k)[i] = q[IF i < k THEN i ELSE i + 1]
<1> DEFINE a == SubSeq(q, 1, k - 1)
           b == SubSeq(q, k + 1, Len(q))
<1>1. Len(q) \in Nat
  OBVIOUS
<1>2. /\ a \in Seq(S) /\ Len(a) = k - 1
      /\ \A i \in 1 .. k - 1 : a[i] = q[i]
  OBVIOUS
<1>3. /\ b \in Seq(S) /\ Len(b) = Len(q) - k
      /\ \A i \in 1 .. Len(q) - k : b[i] = q[k + i]
  OBVIOUS
<1> HIDE DEF a, b
<1>4. /\ DOMAIN (a \o b) = 1 .. Len(q) - 1
      /\ \A i \in 1 .. k - 1 : (a \o b)[i] = a[i]
      /\ \A i \in k .. Len(q) - 1 : (a \o b)[i] = b[i - (k - 1)]
  BY <1>1, <1>2, <1>3
<1>5. ASSUME NEW i \in k .. Len(q) - 1
      PROVE  (a \o b)[i] = q[i + 1]
  <2>1. i - (k - 1) \in 1 .. Len(q) - k /\ k + (i - (k - 1)) = i + 1
    BY <1>1
  <2> QED
    BY <1>3, <1>4, <2>1
<1>6. \A i \in 1 .. Len(q) - 1 : (a \o b)[i] = q[IF i < k THEN i ELSE i + 1]
  <2> SUFFICES ASSUME NEW i \in 1 .. Len(q) - 1
               PROVE  (a \o b)[i] = q[IF i < k THEN i ELSE i + 1]
    OBVIOUS
  <2>1. CASE i < k
    BY <1>1, <1>2, <1>4, <2>1
  <2>2. CASE ~(i < k)
    <3>1. i \in k .. Len(q) - 1
      BY <1>1, <2>2
    <3> QED
      BY <1>5, <2>2, <3>1
  <2> QED
    BY <2>1, <2>2
<1> QED
  BY <1>4, <1>6 DEF RemoveAt, a, b

\* recv() takes a result out of the middle; the others stay in their order.
LEMMA LastRemoved ==
  ASSUME TypeInv, AnswersLast, Untouched' \subseteq Untouched, NEW k \in DOMAIN queue_results,
         queue_results' = RemoveAt(queue_results, k)
  PROVE  AnswersLast'
<1> DEFINE old(i) == IF i < k THEN i ELSE i + 1
<1>1. /\ queue_results \in Results /\ Len(queue_results) \in Nat
      /\ DOMAIN queue_results = 1 .. Len(queue_results) /\ k \in 1 .. Len(queue_results)
  BY DEF TypeInv, TypeOK, ServerTypes, Results
<1>2. \A i \in DOMAIN queue_results' :
        old(i) \in DOMAIN queue_results /\ queue_results'[i] = queue_results[old(i)] /\ i \in Int
  <2>1. /\ DOMAIN queue_results' = 1 .. Len(queue_results) - 1
        /\ \A i \in 1 .. Len(queue_results) - 1 :
             queue_results'[i] = queue_results[IF i < k THEN i ELSE i + 1]
    BY <1>1, RemoveAtPlaces DEF Results
  <2> QED
    BY <1>1, <2>1
<1>3. \A i, j \in DOMAIN queue_results' : i < j => old(i) < old(j)
  BY <1>1, <1>2
<1> HIDE DEF old
<1> QED
  BY <1>2, <1>3 DEF AnswersLast, AnswersInOrder

\* Nothing is sent and nothing is taken.
LEMMA LastKept ==
  ASSUME AnswersLast, Untouched' \subseteq Untouched, UNCHANGED queue_results
  PROVE  AnswersLast'
BY DEF AnswersLast, AnswersInOrder, Answer

LEMMA LastNext ==
  ASSUME TypeInv, OnceInv, BrokerInv, AnswersLast, ~DecodeMayFail, [Next]_vars
  PROVE  AnswersLast'
<1>1. ASSUME NEW c \in Clients, Client(c)
      PROVE  AnswersLast'
  <2>1. Untouched' \subseteq Untouched
    BY <1>1, HandlerTouches
  <2>2. CASE Recv(c)
    <3>1. \E k \in DOMAIN queue_results : queue_results' = RemoveAt(queue_results, k)
      BY <2>2 DEF Recv
    <3> QED
      BY <2>1, <3>1, LastRemoved
  <2>3. CASE CancelSend(c)
    <3>1. PICK id : Send(id, "cancelled")
      BY <2>3 DEF CancelSend
    <3>2. UNCHANGED queue_results \/ Told(id, "cancelled")
      BY <3>1, OthersDoNotAnswer
    <3> QED
      BY <2>1, <3>2, LastKept, LastAppended DEF Answer
  <2>4. CASE ~Recv(c) /\ ~CancelSend(c)
    <3>1. UNCHANGED queue_results
      BY <1>1, <2>4 DEF Client, BeginRequest, AddWaiting, Post, CancelRemove, PostCancel,
                        RemoveWaiting, respVars
    <3> QED
      BY <2>1, <3>1, LastKept
  <2> QED
    BY <2>2, <2>3, <2>4
<1>2. CASE MainThread \/ Terminate \/ UNCHANGED vars
  <2>1. /\ NoHandlerMoves /\ HeldIds' \subseteq HeldIds \cup {NoTask}
        /\ \/ UNCHANGED queue_results
           \/ \E id \in HeldIds : ToldPart(id) \/ Answered(id)
    BY <1>2, MainMoves
  <2>2. /\ Untouched' \subseteq Untouched
        /\ \A id \in HeldIds \ HeldIds' : Answered(id) => id \in Untouched \ Untouched'
    BY <2>1, MainTouches
  <2>3. ASSUME NEW id \in HeldIds, Answered(id)
        PROVE  AnswersLast'
    <3>1. id \in Untouched \ Untouched' /\ \E kind \in Answer : Told(id, kind)
      BY <2>2, <2>3 DEF Answered
    <3> QED
      BY <2>2, <3>1, LastAppended
  <2>4. ASSUME NEW id \in HeldIds, ToldPart(id)
        PROVE  AnswersLast'
    <3>1. id \in Untouched /\ Told(id, "partial")
      BY <2>4, WaitedForIsTask DEF ToldPart, Untouched
    <3>2. "partial" \notin Answer
      BY DEF Answer
    <3> QED
      BY <2>2, <3>1, <3>2, LastAppended
  <2> QED
    BY <2>1, <2>2, <2>3, <2>4, LastKept
<1> QED
  BY <1>1, <1>2 DEF Next

\* In the shared queue of results the parts of a text come before its end, and a task has one
\* answer, for every interleaving of send(), recv() and the cancellations.
THEOREM AnswersComeLast ==
  ASSUME ~DecodeMayFail
  PROVE  Spec => []AnswersInOrder
<1> DEFINE Inv == TypeInv /\ OnceInv /\ BrokerInv /\ AnswersLast
<1>1. Init => Inv
  <2>1. Init => AnswersLast
    BY DEF Init, AnswersLast, AnswersInOrder
  <2> QED
    BY <2>1, TypeInit, OnceInit, BrokerInit
<1>2. Inv /\ [Next]_vars => Inv'
  BY TypeNext, OnceNext, BrokerNext, LastNext
<1>3. Inv => AnswersInOrder
  BY DEF AnswersLast
<1> HIDE DEF Inv
<1> QED
  BY <1>1, <1>2, <1>3, PTL DEF Spec

-----------------------------------------------------------------------------
(* Every result is awaited                                                 *)

\* Nothing is cancelled: llama_decode does not fail, peers stay, and a completion ends in a
\* result, not in an error.
NothingCancelled ==
  /\ ~DecodeMayFail /\ ~ClientsMayLeave
  /\ \A r \in Requests : r.kind # "cancel" /\ (r.kind = "completion" => r.defect \in {"none", "empty"})

\* The handler has posted the task and waits for its result, or is about to.
Asks(c, id) == id \in ids(c) /\ (pc[c] = "recv" \/ (pc[c] = "add_waiting" /\ PostsFirst(req[c])))

OwnedTask(t) ==
  /\ t.type # "cancel"
  /\ t.id # NoTask => /\ t.data \in Requests /\ t.type = t.data.kind
                      /\ \E c \in Clients : Asks(c, t.id) /\ req[c] = t.data

OwnedSlot(s) ==
  /\ data[s] \in Requests /\ data[s].kind = "completion"
  /\ \E c \in Clients : Asks(c, id_task[s]) /\ req[c] = data[s]

\* What the server holds was posted by a handler that is still there.
Owned == (\A t \in Range(Joined) : OwnedTask(t)) /\ (\A s \in Processing : OwnedSlot(s))

\* Nobody shares ids or cancels; what is waited for or has been answered was opened.
Undisturbed ==
  /\ \A c, d \in Clients : c # d => ids(c) \cap ids(d) = {}
  /\ \A c \in Clients : pc[c] \notin {"cancel", "cancel_remove", "post_cancel"}
  /\ waiting_task_ids \subseteq Opened
  /\ \A id \in TaskIds : answers[id] # 0 => id \in Opened

\* The results a request may get.
Expected(r) ==
  IF r.kind # "completion" THEN Answer ELSE IF r.stream THEN {"partial", "final"} ELSE {"final"}

Awaited ==
  \A i \in DOMAIN queue_results :
    \E c \in Clients : /\ pc[c] = "recv" /\ queue_results[i].id \in ids(c)
                       /\ queue_results[i].kind \in Expected(req[c])

AnswerAt(j, id)   == j \in DOMAIN queue_results /\ queue_results[j].id = id /\ queue_results[j].kind \in Answer
AnswerQueued(id)  == \E j \in DOMAIN queue_results : AnswerAt(j, id)

\* The ids whose answers the handler has taken.
Taken(c) == {id \in ids(c) : answers[id] # 0 /\ ~AnswerQueued(id)}

Counted ==
  \A c \in Clients :
    /\ pc[c] = "recv" => n_finished[c] = Cardinality(Taken(c))
    /\ pc[c] \notin {"recv", "remove"} => n_finished[c] = 0

\* A queued answer is one, and a part of a text lies before its answer.
PartsFirst ==
  \A i \in DOMAIN queue_results :
    IF queue_results[i].kind \in Answer
      THEN answers[queue_results[i].id] # 0
      ELSE \/ answers[queue_results[i].id] = 0
           \/ \E j \in DOMAIN queue_results : i < j /\ AnswerAt(j, queue_results[i].id)

AwaitedInv == Owned /\ Undisturbed /\ Awaited /\ Counted /\ PartsFirst

\* The invariants of the sections before.
ServerInv == TypeInv /\ OnceInv /\ BrokerInv /\ AnswersLast

-----------------------------------------------------------------------------

LEMMA AwaitedInit == Init => AwaitedInv
<1> SUFFICES ASSUME Init PROVE AwaitedInv
  OBVIOUS
<1>1. queue_tasks = <<>> /\ queue_tasks_deferred = <<>> /\ queue_results = <<>>
  BY DEF Init
<1>2. Joined = <<>>
  BY <1>1 DEF Joined
<1>3. Range(Joined) = {} /\ Processing = {} /\ DOMAIN queue_results = {}
  BY <1>1, <1>2 DEF Range, Processing, Init
<1>4. \A c \in Clients : pc[c] = "idle" /\ ids(c) = {} /\ n_finished[c] = 0
  BY DEF Init, ids
<1>5. waiting_task_ids = {} /\ \A id \in TaskIds : answers[id] = 0
  BY DEF Init
<1>6. Owned /\ Undisturbed
  BY <1>3, <1>4, <1>5 DEF Owned, Undisturbed
<1>7. Awaited /\ PartsFirst
  BY <1>3 DEF Awaited, PartsFirst
<1>8. Counted
  BY <1>4 DEF Counted
<1> QED
  BY <1>6, <1>7, <1>8 DEF AwaitedInv

\* The places of the queue of results after something was sent.
LEMMA ToldPlaces ==
  ASSUME TypeInv, NEW id, NEW kind, Told(id, kind)
  PROVE  LET n == Len(queue_results)
         IN  /\ n \in Nat /\ DOMAIN queue_results = 1 .. n /\ DOMAIN queue_results' = 1 .. n + 1
             /\ \A i \in 1 .. n : queue_results'[i] = queue_results[i]
             /\ queue_results'[n + 1].id = id /\ queue_results'[n + 1].kind = kind
<1> DEFINE x == [id |-> id, kind |-> kind]
<1>1. queue_results \in Results
  BY DEF TypeInv, TypeOK, ServerTypes, Results
<1>2. queue_results' = Append(queue_results, x) /\ x.id = id /\ x.kind = kind
  BY DEF Told
<1> HIDE DEF x
<1> QED
  BY <1>1, <1>2 DEF Results

\* A result has the id of a task.
LEMMA ResultTypes ==
  ASSUME TypeInv
  PROVE  \A i \in DOMAIN queue_results : queue_results[i].id \in TaskIds
<1> DEFINE R == [id: TaskIds, kind: {"partial", "final", "error", "cancelled"}]
<1>1. queue_results \in Seq(R)
  BY DEF TypeInv, TypeOK, ServerTypes
<1>2. \A r \in R : r.id \in TaskIds
  OBVIOUS
<1> HIDE DEF R
<1>3. \A i \in DOMAIN queue_results : queue_results[i] \in R
  BY <1>1
<1> QED
  BY <1>2, <1>3

\* What a step sends is sent once.
LEMMA ToldOnce ==
  ASSUME TypeInv, NEW a, NEW k, NEW b, NEW l, Told(a, k), Told(b, l)
  PROVE  a = b /\ k = l
<1>1. /\ queue_results'[Len(queue_results) + 1].id = a
      /\ queue_results'[Len(queue_results) + 1].kind = k
  BY ToldPlaces
<1>2. /\ queue_results'[Len(queue_results) + 1].id = b
      /\ queue_results'[Len(queue_results) + 1].kind = l
  BY ToldPlaces
<1> QED
  BY <1>1, <1>2

\* A held task has a handler that asks for it.
LEMMA HeldIsAsked ==
  ASSUME Owned, NEW id \in HeldIds, id # NoTask
  PROVE  \E c \in Clients : Asks(c, id)
<1>1. CASE id \in IdsOf(Joined)
  BY <1>1 DEF Owned, OwnedTask, IdsOf
<1>2. CASE \E s \in Processing : id = id_task[s]
  BY <1>2 DEF Owned, OwnedSlot
<1> QED
  BY <1>1, <1>2 DEF HeldIds

-----------------------------------------------------------------------------
(* The main thread                                                         *)

\* The slots keep their tasks, or are given one from the queue.
SlotsKeep ==
  \A s \in Processing' :
    \/ s \in Processing /\ id_task'[s] = id_task[s] /\ data'[s] = data[s]
    \/ \E t \in Range(Joined) : t.type = "completion" /\ id_task'[s] = t.id /\ data'[s] = t.data

QueuesKeep == Range(Joined') \subseteq Range(Joined) \cup {NextResponse}

\* release() takes a task from a slot only.
LEMMA ReleaseKeeps ==
  ASSUME TypeInv, NEW s \in Slots, Release(s), UNCHANGED <<id_task, data>>
  PROVE  QueuesKeep /\ SlotsKeep
<1>1. PICK n \in Nat : /\ queue_tasks' = queue_tasks \o Popped(n)
                       /\ queue_tasks_deferred' = Remaining(n)
                       /\ state' = [state EXCEPT ![s] = "idle"]
  BY DEF Release
<1>2. queue_tasks' \o queue_tasks_deferred' = Joined
  BY <1>1, PoppedKeepsOnce, QueueTypes DEF Joined
<1>3. Joined' = Joined
  BY <1>2 DEF Joined
<1>4. Processing' \subseteq Processing
  BY <1>1 DEF Processing, TypeInv, TypeOK, ServerTypes
<1> QED
  BY <1>3, <1>4 DEF QueuesKeep, SlotsKeep

\* What goes on in the queues when the task at the front is dropped, and perhaps others popped.
LEMMA DroppedKeeps ==
  ASSUME TypeInv, OnceInv, queue_tasks # <<>>, NEW n \in Nat,
         queue_tasks' = Tail(queue_tasks) \o Popped(n), queue_tasks_deferred' = Remaining(n)
  PROVE  QueuesKeep /\ Head(queue_tasks) \in Range(Joined)
<1>1. Tail(queue_tasks) \in Seq(TaskSet)
  BY QueueTypes, HeadTailType
<1>2. queue_tasks' \o queue_tasks_deferred' = Tail(queue_tasks) \o queue_tasks_deferred
  BY <1>1, PoppedKeepsOnce
<1>3. Joined' = Tail(Joined) /\ Joined # <<>> /\ Head(Joined) = Head(queue_tasks)
  BY <1>2, QueueTypes, TailOfJoined DEF Joined
<1> QED
  BY <1>3, FrontOfDistinct, QueueTypes DEF QueuesKeep, OnceInv, OneCopy

LEMMA DeferredKeeps ==
  ASSUME TypeInv, OnceInv, queue_tasks # <<>>, DeferTask(Head(queue_tasks))
  PROVE  QueuesKeep /\ SlotsKeep
<1>1. /\ Joined \in Seq(TaskSet) /\ Joined # <<>>
      /\ Tail(queue_tasks) \o Append(queue_tasks_deferred, Head(queue_tasks)) = Append(Tail(Joined), Head(Joined))
  BY QueueTypes, TailOfJoined DEF Joined
<1>2. Joined' = Append(Tail(Joined), Head(Joined))
  BY <1>1 DEF Joined, DeferTask
<1>3. SlotsKeep
  BY DEF DeferTask, slotVars, SlotsKeep, Processing
<1> QED
  BY <1>1, <1>2, <1>3, FrontOfDistinct DEF QueuesKeep, OnceInv, OneCopy

\* process_single_task gives a slot a queued task, or none.
LEMMA ProcessTaskKeeps ==
  ASSUME TypeInv, OnceInv, ProcessTask
  PROVE  QueuesKeep /\ SlotsKeep
<1> DEFINE task == Head(queue_tasks)
<1>1. queue_tasks # <<>>
  BY DEF ProcessTask
<1>2. \A S \in SUBSET Slots : Cardinality(S) \in Nat
  <2>1. IsFiniteSet(Slots)
    BY ConstantTypes, FS_Interval DEF Slots
  <2> QED
    BY <2>1, FS_Subset, FS_CardinalityType
<1>3. state \in [Slots -> SlotStates] /\ id_task \in [Slots -> TaskIds \cup {NoTask}]
      /\ data \in [Slots -> Requests \cup {NoData}]
  BY DEF TypeInv, TypeOK, ServerTypes
<1>4. ASSUME queue_tasks' = Tail(queue_tasks), UNCHANGED <<queue_tasks_deferred, slotVars>>
      PROVE  QueuesKeep /\ SlotsKeep
  <2>1. queue_tasks' = Tail(queue_tasks) \o Popped(0) /\ queue_tasks_deferred' = Remaining(0)
    BY <1>1, <1>4, PoppedNone, QueueTypes, HeadTailType
  <2>2. SlotsKeep
    BY <1>4 DEF slotVars, SlotsKeep, Processing
  <2> QED
    BY <1>1, <2>1, <2>2, DroppedKeeps
<1>5. ASSUME NEW s \in Idle, LaunchTask(task, s), task.type = "completion"
      PROVE  QueuesKeep /\ SlotsKeep
  <2> DEFINE released == IF task.data.system_prompt THEN Processing ELSE {}
             n == Cardinality(released)
  <2>1. n \in Nat
    BY <1>2 DEF Processing
  <2>2. /\ queue_tasks' = Tail(queue_tasks) \o Popped(n) /\ queue_tasks_deferred' = Remaining(n)
        /\ id_task' = [id_task EXCEPT ![s] = task.id] /\ data' = [data EXCEPT ![s] = task.data]
        /\ \A t \in Slots : state'[t] # "idle" => t = s \/ state[t] # "idle"
    BY <1>5 DEF LaunchTask
  <2> HIDE DEF n
  <2>3. QueuesKeep /\ task \in Range(Joined)
    BY <1>1, <2>1, <2>2, DroppedKeeps
  <2> HIDE DEF task
  <2>4. SlotsKeep
    BY <1>3, <1>5, <2>2, <2>3 DEF SlotsKeep, Processing
  <2> QED
    BY <2>3, <2>4
<1>6. CASE ProcessCancel(task)
  <2> DEFINE first    == {s \in Slots : /\ id_task[s] = task.id_target
                                        /\ \A t \in 0 .. s - 1 : id_task[t] # task.id_target}
             released == first \cap Processing
             n        == Cardinality(released)
  <2>1. n \in Nat
    BY <1>2 DEF Processing
  <2>2. /\ queue_tasks' = Tail(queue_tasks) \o Popped(n) /\ queue_tasks_deferred' = Remaining(n)
        /\ state' = [s \in Slots |-> IF s \in released THEN "idle" ELSE state[s]]
        /\ UNCHANGED <<id_task, data>>
    BY <1>6 DEF ProcessCancel
  <2> HIDE DEF n, released
  <2>3. SlotsKeep
    BY <2>2 DEF SlotsKeep, Processing
  <2> QED
    BY <1>1, <2>1, <2>2, <2>3, DroppedKeeps
<1>7. CASE ProcessSlotAction(task)
  BY <1>1, <1>4, <1>7, DeferredKeeps DEF ProcessSlotAction
<1>8. CASE ProcessOther(task)
  BY <1>4, <1>8 DEF ProcessOther
<1>9. CASE ProcessCompletion(task)
  BY <1>1, <1>5, <1>9, DeferredKeeps DEF ProcessCompletion, Available
<1> QED
  BY <1>6, <1>7, <1>8, <1>9 DEF ProcessTask

\* So does every step that is no handler's.
LEMMA MainKeeps ==
  ASSUME TypeInv, OnceInv, BrokerInv, ~DecodeMayFail, MainThread \/ Terminate \/ UNCHANGED vars
  PROVE  QueuesKeep /\ SlotsKeep
<1>1. CASE ProcessTask
  BY <1>1, ProcessTaskKeeps
<1>2. CASE BatchSlot \/ DecodeSlot
  <2>1. UNCHANGED <<id_task, data>> /\ todo \subseteq Slots
    BY <1>2 DEF BatchSlot, DecodeSlot, TypeInv, TypeOK, ServerTypes
  <2>2. \E s \in Slots :
          \/ Release(s)
          \/ /\ UNCHANGED <<queue_tasks, queue_tasks_deferred>>
             /\ state' = state \/ (state[s] # "idle" /\ \E x : state' = [state EXCEPT ![s] = x])
    <3>1. CASE BatchSlot
      BY <2>1, <3>1 DEF BatchSlot, BatchPrompt, ContextFull
    <3>2. CASE DecodeSlot
      BY <2>1, <3>2 DEF DecodeSlot, ProcessToken
    <3> QED
      BY <1>2, <3>1, <3>2
  <2>3. ASSUME NEW s \in Slots, UNCHANGED <<queue_tasks, queue_tasks_deferred>>,
               state' = state \/ (state[s] # "idle" /\ \E x : state' = [state EXCEPT ![s] = x])
        PROVE  QueuesKeep /\ SlotsKeep
    <3>1. Processing' \subseteq Processing
      BY <2>3 DEF Processing, TypeInv, TypeOK, ServerTypes
    <3> QED
      BY <2>1, <2>3, <3>1 DEF QueuesKeep, SlotsKeep, Joined
  <2> QED
    BY <2>1, <2>2, <2>3, ReleaseKeeps
<1>3. CASE UpdateSlots
  <2>1. /\ UNCHANGED <<queue_tasks_deferred, state, id_task, data>>
        /\ queue_tasks' = queue_tasks \/ queue_tasks' = Append(queue_tasks, NextResponse)
    BY <1>3 DEF UpdateSlots, slotVars
  <2>2. SlotsKeep
    BY <2>1 DEF SlotsKeep, Processing
  <2>3. NextResponse \in TaskSet
    BY DEF NextResponse, Task, TaskSet
  <2>4. Range(queue_tasks') \subseteq Range(queue_tasks) \cup {NextResponse} /\ queue_tasks' \in Seq(TaskSet)
    <3> DEFINE b == <<NextResponse>>
    <3>1. Append(queue_tasks, NextResponse) = queue_tasks \o b /\ b \in Seq(TaskSet)
      BY <2>3, QueueTypes
    <3>2. Range(b) = {NextResponse}
      BY DEF Range
    <3> HIDE DEF b
    <3>3. Range(queue_tasks \o b) = Range(queue_tasks) \cup Range(b)
      BY <3>1, QueueTypes, RangeConcatenation
    <3>4. Append(queue_tasks, NextResponse) \in Seq(TaskSet)
      BY <2>3, QueueTypes, AppendType
    <3> QED
      BY <2>1, <3>1, <3>2, <3>3, <3>4, QueueTypes
  <2>5. Range(Joined') = Range(queue_tasks') \cup Range(queue_tasks_deferred)
    BY <2>1, <2>4, QueueTypes, RangeConcatenation DEF Joined
  <2> QED
    BY <2>2, <2>4, <2>5, QueueTypes DEF QueuesKeep
<1>4. CASE StartLoop \/ CheckQueue \/ Wake \/ Terminate \/ UNCHANGED vars
  <2>1. UNCHANGED <<queue_tasks, queue_tasks_deferred, state, id_task, data>>
    BY <1>4 DEF StartLoop, CheckQueue, Wake, Terminate, vars, taskVars, slotVars
  <2> QED
    BY <2>1 DEF QueuesKeep, SlotsKeep, Joined, Processing
<1>5. CASE DecodeFail \/ FailSlot
  BY <1>5 DEF DecodeFail, FailSlot, BrokerInv
<1> QED
  BY <1>1, <1>2, <1>3, <1>4, <1>5 DEF MainThread

\* A part of a text is a slot's, and errors are for slot actions.
LEMMA MainSends ==
  ASSUME NothingCancelled, TypeInv, OnceInv, BrokerInv, Owned, MainThread \/ Terminate \/ UNCHANGED vars
  PROVE  \/ UNCHANGED queue_results
         \/ \E s \in Processing : (Told(id_task[s], "partial") /\ data[s].stream) \/ Told(id_task[s], "final")
         \/ \E t \in Range(Joined) : /\ Told(t.id, "final") \/ Told(t.id, "error")
                                     /\ t.type \in {"slot_action", "metrics", "set_lora"}
<1> DEFINE task == Head(queue_tasks)
           Goal == \/ UNCHANGED queue_results
                   \/ \E s \in Processing : (Told(id_task[s], "partial") /\ data[s].stream) \/ Told(id_task[s], "final")
                   \/ \E t \in Range(Joined) : /\ Told(t.id, "final") \/ Told(t.id, "error")
                                               /\ t.type \in {"slot_action", "metrics", "set_lora"}
<1>1. \A id, kind : Send(id, kind) => UNCHANGED queue_results \/ Told(id, kind)
  BY DEF Send, Told
<1>2. CASE ProcessTask
  <2>1. queue_tasks # <<>> /\ Joined # <<>> /\ task = Head(Joined)
    BY <1>2, QueueTypes, TailOfJoined DEF ProcessTask, Joined
  <2>2. task \in Range(Joined)
    BY <2>1, QueueTypes, FrontOfDistinct DEF OnceInv, OneCopy
  <2>3. task \in TaskSet
    BY <2>1, QueueTypes, HeadTailType
  <2> HIDE DEF task
  <2>4. CASE ProcessCompletion(task)
    <3>1. task.type = "completion" /\ task \in Deferrable
      BY <2>3, <2>4 DEF ProcessCompletion, Deferrable
    <3>2. task.id # NoTask
      BY <2>2, <3>1 DEF OnceInv, OneCopy
    <3>3. task.data.defect # "launch"
      BY <2>2, <3>1, <3>2 DEF Owned, OwnedTask, NothingCancelled
    <3> QED
      BY <2>4, <3>3 DEF ProcessCompletion, DeferTask, LaunchTask, respVars
  <2>5. CASE ProcessSlotAction(task)
    <3>1. task.type = "slot_action"
      BY <2>5 DEF ProcessSlotAction
    <3>2. UNCHANGED queue_results \/ Told(task.id, "final") \/ Told(task.id, "error")
      BY <1>1, <2>5 DEF ProcessSlotAction, DeferTask, respVars
    <3> QED
      BY <2>2, <3>1, <3>2
  <2>6. CASE ProcessOther(task)
    <3>1. UNCHANGED queue_results \/ (task.type \in {"metrics", "set_lora"} /\ Told(task.id, "final"))
      BY <1>1, <2>6 DEF ProcessOther, respVars
    <3> QED
      BY <2>2, <3>1
  <2>7. CASE ProcessCancel(task)
    BY <2>7 DEF ProcessCancel, respVars
  <2> QED
    BY <1>2, <2>4, <2>5, <2>6, <2>7 DEF ProcessTask, task
<1>3. CASE BatchSlot \/ DecodeSlot
  <2>1. \E s \in Slots :
          \/ UNCHANGED queue_results
          \/ state[s] # "idle" /\ ((Send(id_task[s], "partial") /\ data[s].stream) \/ Send(id_task[s], "final"))
    <3>1. \A s \in todo : s \in Slots
      BY DEF TypeInv, TypeOK, ServerTypes
    <3>2. CASE BatchSlot
      <4>1. PICK s \in todo :
              BatchPrompt(s) \/ ContextFull(s) \/ UNCHANGED respVars
        BY <3>2 DEF BatchSlot, respVars
      <4>2. s \in Slots
        BY <3>1
      <4>3. state[s] \in {"processing_prompt", "generating"} => data[s].defect \notin {"prompt", "context"}
        BY <4>2 DEF Owned, OwnedSlot, Processing, NothingCancelled
      <4> QED
        BY <4>1, <4>2, <4>3 DEF BatchPrompt, ContextFull, respVars
    <3>3. CASE DecodeSlot
      BY <3>1, <3>3 DEF DecodeSlot, ProcessToken, respVars
    <3> QED
      BY <1>3, <3>2, <3>3
  <2>2. PICK s \in Slots :
          \/ UNCHANGED queue_results
          \/ s \in Processing /\ ((Send(id_task[s], "partial") /\ data[s].stream) \/ Send(id_task[s], "final"))
    BY <2>1 DEF Processing
  <2> QED
    BY <1>1, <2>2
<1>4. CASE UpdateSlots \/ StartLoop \/ CheckQueue \/ Wake \/ Terminate \/ UNCHANGED vars
  BY <1>4 DEF UpdateSlots, StartLoop, CheckQueue, Wake, Terminate, vars, respVars
<1>5. CASE DecodeFail \/ FailSlot
  BY <1>5 DEF DecodeFail, FailSlot, BrokerInv, NothingCancelled
<1> QED
  BY <1>2, <1>3, <1>4, <1>5 DEF MainThread

\* The handlers being where they are, whoever asks for a held task or a new one still does.
LEMMA MainOwned ==
  ASSUME TypeInv, OnceInv, Owned, NoHandlerMoves, QueuesKeep, SlotsKeep
  PROVE  Owned'
<1>1. \A c \in Clients : req'[c] = req[c] /\ \A id : Asks(c, id)' <=> Asks(c, id)
  BY DEF NoHandlerMoves, Asks, ids, PostsFirst
<1>2. NextResponse.type # "cancel" /\ NextResponse.id = NoTask
  BY DEF NextResponse, Task
<1>3. \A t \in Range(Joined') : OwnedTask(t)'
  <2> SUFFICES ASSUME NEW t \in Range(Joined') PROVE OwnedTask(t)'
    OBVIOUS
  <2>1. t = NextResponse \/ OwnedTask(t)
    BY DEF QueuesKeep, Owned
  <2> QED
    BY <1>1, <1>2, <2>1 DEF OwnedTask
<1>4. \A s \in Processing' : OwnedSlot(s)'
  <2> SUFFICES ASSUME NEW s \in Processing' PROVE OwnedSlot(s)'
    OBVIOUS
  <2>1. CASE s \in Processing /\ id_task'[s] = id_task[s] /\ data'[s] = data[s]
    BY <1>1, <2>1 DEF Owned, OwnedSlot
  <2>2. ASSUME NEW t \in Range(Joined), t.type = "completion", id_task'[s] = t.id, data'[s] = t.data
        PROVE  OwnedSlot(s)'
    <3>1. t.id # NoTask
      BY <2>2, QueueTypes, RangeAtPlaces DEF OnceInv, OneCopy, Deferrable
    <3> QED
      BY <1>1, <2>2, <3>1 DEF Owned, OwnedTask, OwnedSlot
  <2> QED
    BY <2>1, <2>2 DEF SlotsKeep
<1> QED
  BY <1>3, <1>4 DEF Owned

\* What is sent goes to a handler that expects it.
LEMMA ToldAwaited ==
  ASSUME TypeInv, Owned, Undisturbed, Awaited, NoHandlerMoves, NEW id, NEW kind, Told(id, kind),
         id \in waiting_task_ids,
         \E c \in Clients : Asks(c, id) /\ kind \in Expected(req[c])
  PROVE  Awaited'
<1>1. PICK c \in Clients : Asks(c, id) /\ kind \in Expected(req[c])
  OBVIOUS
<1>2. pc[c] = "recv" /\ id \in ids(c)
  <2>1. id \in Opened
    BY DEF Undisturbed
  <2> QED
    BY <1>1, <2>1 DEF Asks, Opened
<1>3. \A d \in Clients : pc'[d] = pc[d] /\ req'[d] = req[d] /\ ids(d)' = ids(d)
  BY DEF NoHandlerMoves, ids
<1> DEFINE n == Len(queue_results)
<1>4. /\ n \in Nat /\ DOMAIN queue_results = 1 .. n /\ DOMAIN queue_results' = 1 .. n + 1
      /\ \A i \in 1 .. n : queue_results'[i] = queue_results[i]
      /\ queue_results'[n + 1].id = id /\ queue_results'[n + 1].kind = kind
  BY ToldPlaces
<1> HIDE DEF n
<1> SUFFICES ASSUME NEW i \in 1 .. n + 1
             PROVE  \E d \in Clients : /\ pc[d] = "recv" /\ queue_results'[i].id \in ids(d)
                                       /\ queue_results'[i].kind \in Expected(req[d])
  BY <1>3, <1>4 DEF Awaited, Expected, Answer
<1>5. CASE i = n + 1
  BY <1>1, <1>2, <1>4, <1>5
<1>6. CASE i \in 1 .. n
  BY <1>4, <1>6 DEF Awaited
<1> QED
  BY <1>4, <1>5, <1>6

\* An answer that is sent is queued, and the id has one; the other ids are as before.
LEMMA AnsweredCounts ==
  ASSUME TypeInv, Undisturbed, Awaited, Counted, PartsFirst, NoHandlerMoves, UNCHANGED n_finished,
         NEW id \in TaskIds, NEW kind \in Answer, Told(id, kind), answers[id] = 0,
         answers' = [answers EXCEPT ![id] = answers[id] + 1]
  PROVE  Counted' /\ PartsFirst'
<1> DEFINE n == Len(queue_results)
<1>1. /\ n \in Nat /\ DOMAIN queue_results = 1 .. n /\ DOMAIN queue_results' = 1 .. n + 1
      /\ \A i \in 1 .. n : queue_results'[i] = queue_results[i]
      /\ queue_results'[n + 1].id = id /\ queue_results'[n + 1].kind = kind
  BY ToldPlaces
<1> HIDE DEF n
<1>2. /\ answers'[id] = 1 /\ \A x \in TaskIds : x # id => answers'[x] = answers[x]
  BY DEF TypeInv, TypeOK, ServerTypes
<1>3. \A x : /\ AnswerQueued(x) => AnswerQueued(x)'
             /\ x # id => (AnswerQueued(x)' <=> AnswerQueued(x))
  BY <1>1 DEF AnswerQueued, AnswerAt, Answer
<1>4. AnswerQueued(id)'
  BY <1>1 DEF AnswerQueued, AnswerAt, Answer
<1>5. \A c \in Clients : /\ ids(c)' = ids(c) /\ ids(c) \subseteq TaskIds
                         /\ pc'[c] = pc[c] /\ n_finished'[c] = n_finished[c]
  BY IdsType DEF NoHandlerMoves, ids
<1>6. \A c \in Clients : Taken(c)' = Taken(c)
  <2> SUFFICES ASSUME NEW c \in Clients, NEW x \in ids(c)
               PROVE  x \in Taken(c)' <=> x \in Taken(c)
    BY <1>5 DEF Taken
  <2>1. CASE x = id
    BY <1>4, <1>5, <2>1 DEF Taken
  <2>2. CASE x # id
    BY <1>2, <1>3, <1>5, <2>2 DEF Taken
  <2> QED
    BY <2>1, <2>2
<1>7. Counted'
  BY <1>5, <1>6 DEF Counted
<1>8. PartsFirst'
  <2> SUFFICES ASSUME NEW i \in 1 .. n + 1
               PROVE  IF queue_results'[i].kind \in Answer
                        THEN answers'[queue_results'[i].id] # 0
                        ELSE \/ answers'[queue_results'[i].id] = 0
                             \/ \E j \in 1 .. n + 1 : /\ i < j /\ queue_results'[j].id = queue_results'[i].id
                                                     /\ queue_results'[j].kind \in Answer
    BY <1>1 DEF PartsFirst, AnswerAt, Answer
  <2>1. CASE i = n + 1
    BY <1>1, <1>2, <2>1
  <2>2. CASE i \in 1 .. n
    <3>1. queue_results'[i] = queue_results[i] /\ queue_results[i].id \in TaskIds
      BY <1>1, <2>2, ResultTypes
    <3>2. CASE queue_results[i].id = id
      <4>1. i < n + 1 /\ n + 1 \in 1 .. n + 1
        BY <1>1, <2>2
      <4> QED
        BY <1>1, <1>2, <3>1, <3>2, <4>1
    <3>3. CASE queue_results[i].id # id
      <4>1. answers'[queue_results[i].id] = answers[queue_results[i].id]
        BY <1>2, <3>1, <3>3
      <4>2. \A j \in 1 .. n : queue_results'[j] = queue_results[j] /\ j \in 1 .. n + 1
        BY <1>1
      <4>3. IF queue_results[i].kind \in Answer
              THEN answers[queue_results[i].id] # 0
              ELSE \/ answers[queue_results[i].id] = 0
                   \/ \E j \in 1 .. n : i < j /\ AnswerAt(j, queue_results[i].id)
        BY <1>1, <2>2 DEF PartsFirst
      <4> QED
        BY <3>1, <4>1, <4>2, <4>3 DEF AnswerAt
    <3> QED
      BY <3>2, <3>3
  <2> QED
    BY <1>1, <2>1, <2>2
<1> QED
  BY <1>7, <1>8

\* A part of a text changes neither.
LEMMA PartCounts ==
  ASSUME TypeInv, Counted, PartsFirst, NoHandlerMoves, UNCHANGED <<n_finished, answers>>,
         NEW id \in TaskIds, Told(id, "partial"), answers[id] = 0
  PROVE  Counted' /\ PartsFirst'
<1> DEFINE n == Len(queue_results)
<1>1. /\ n \in Nat /\ DOMAIN queue_results = 1 .. n /\ DOMAIN queue_results' = 1 .. n + 1
      /\ \A i \in 1 .. n : queue_results'[i] = queue_results[i]
      /\ queue_results'[n + 1].id = id /\ queue_results'[n + 1].kind = "partial"
  BY ToldPlaces
<1> HIDE DEF n
<1>2. \A x : AnswerQueued(x)' <=> AnswerQueued(x)
  BY <1>1 DEF AnswerQueued, AnswerAt, Answer
<1>3. \A c \in Clients : ids(c)' = ids(c) /\ pc'[c] = pc[c] /\ n_finished'[c] = n_finished[c]
  BY DEF NoHandlerMoves, ids
<1>4. \A c \in Clients : Taken(c)' = Taken(c)
  BY <1>2, <1>3 DEF Taken
<1>5. Counted'
  BY <1>3, <1>4 DEF Counted
<1>6. PartsFirst'
  <2> SUFFICES ASSUME NEW i \in 1 .. n + 1
               PROVE  IF queue_results'[i].kind \in Answer
                        THEN answers[queue_results'[i].id] # 0
                        ELSE \/ answers[queue_results'[i].id] = 0
                             \/ \E j \in 1 .. n + 1 : /\ i < j /\ queue_results'[j].id = queue_results'[i].id
                                                     /\ queue_results'[j].kind \in Answer
    BY <1>1 DEF PartsFirst, AnswerAt, Answer
  <2>1. CASE i = n + 1
    BY <1>1, <2>1 DEF Answer
  <2>2. CASE i \in 1 .. n
    <3>1. \A j \in 1 .. n : queue_results'[j] = queue_results[j] /\ j \in 1 .. n + 1
      BY <1>1
    <3>2. IF queue_results[i].kind \in Answer
            THEN answers[queue_results[i].id] # 0
            ELSE \/ answers[queue_results[i].id] = 0
                 \/ \E j \in 1 .. n : i < j /\ AnswerAt(j, queue_results[i].id)
      BY <1>1, <2>2 DEF PartsFirst
    <3> QED
      BY <1>1, <2>2, <3>1, <3>2 DEF AnswerAt
  <2> QED
    BY <1>1, <2>1, <2>2
<1> QED
  BY <1>5, <1>6

\* What the main thread sends is awaited.
LEMMA MainAwaited ==
  ASSUME NothingCancelled, ServerInv, AwaitedInv, MainThread \/ Terminate \/ UNCHANGED vars
  PROVE  AwaitedInv'
<1> USE DEF ServerInv, AwaitedInv
<1>1. /\ NoHandlerMoves /\ UNCHANGED waiting_task_ids
      /\ HeldIds' \subseteq HeldIds \cup {NoTask}
      /\ \/ UNCHANGED <<answers, queue_results>>
         \/ \E id \in HeldIds : ToldPart(id) \/ Answered(id)
  BY MainMoves DEF NothingCancelled
<1>2. UNCHANGED n_finished
  BY DEF MainThread, StartLoop, ProcessTask, UpdateSlots, BatchSlot, DecodeSlot, DecodeFail, FailSlot,
         CheckQueue, Wake, Terminate, vars, httpVars
<1>3. Owned'
  BY <1>1, MainKeeps, MainOwned DEF NothingCancelled
<1>4. /\ \A c \in Clients : ids(c)' = ids(c) /\ pc'[c] = pc[c] /\ req'[c] = req[c] /\ n_finished'[c] = n_finished[c]
      /\ Opened' = Opened
  BY <1>1, <1>2 DEF NoHandlerMoves, ids, Opened
<1>5. Undisturbed'
  <2>1. \A id \in TaskIds : answers'[id] # 0 => answers[id] # 0 \/ id \in waiting_task_ids
    BY <1>1 DEF ToldPart, Answered, TypeInv, TypeOK, ServerTypes
  <2> QED
    BY <1>1, <1>4, <2>1 DEF Undisturbed
<1>6. CASE UNCHANGED <<answers, queue_results>>
  <2>1. Awaited'
    BY <1>4, <1>6 DEF Awaited, Expected, Answer
  <2>2. \A j, id : AnswerAt(j, id)' <=> AnswerAt(j, id)
    BY <1>6 DEF AnswerAt, Answer
  <2>3. \A c \in Clients : Taken(c)' = Taken(c)
    BY <1>4, <1>6, <2>2 DEF Taken, AnswerQueued
  <2>4. Counted'
    BY <1>4, <2>3 DEF Counted
  <2>5. PartsFirst'
    BY <1>6, <2>2 DEF PartsFirst, Answer
  <2> QED
    BY <1>3, <1>5, <2>1, <2>4, <2>5
<1>7. ASSUME NEW id \in HeldIds, ToldPart(id) \/ Answered(id)
      PROVE  AwaitedInv'
  <2>1. id \in TaskIds /\ id # NoTask /\ id \in waiting_task_ids /\ answers[id] = 0
    <3>1. id \in TaskIds /\ id # NoTask /\ id \in waiting_task_ids
      BY <1>7, WaitedForIsTask DEF ToldPart, Answered
    <3> QED
      BY <1>7, <3>1 DEF BrokerInv, Untouched
  <2>2. PICK kind : /\ Told(id, kind)
                    /\ \/ kind = "partial" /\ UNCHANGED answers
                       \/ kind \in Answer /\ answers' = [answers EXCEPT ![id] = answers[id] + 1]
    BY <1>7 DEF ToldPart, Answered
  <2>3. \E c \in Clients : Asks(c, id) /\ kind \in Expected(req[c])
    <3>1. ~ UNCHANGED queue_results
      <4>1. Len(queue_results) \in Nat /\ Len(queue_results) + 1 \in DOMAIN queue_results'
            /\ DOMAIN queue_results = 1 .. Len(queue_results)
        BY <2>2, ToldPlaces
      <4> QED
        BY <4>1
    <3>2. CASE \E s \in Processing : (Told(id_task[s], "partial") /\ data[s].stream) \/ Told(id_task[s], "final")
      <4>1. PICK s \in Processing : (Told(id_task[s], "partial") /\ data[s].stream) \/ Told(id_task[s], "final")
        BY <3>2
      <4>2. id = id_task[s] /\ kind \in IF data[s].stream THEN {"partial", "final"} ELSE {"final"}
        BY <2>2, <4>1, ToldOnce
      <4> QED
        BY <4>2 DEF Owned, OwnedSlot, Expected
    <3>3. CASE \E t \in Range(Joined) : /\ Told(t.id, "final") \/ Told(t.id, "error")
                                        /\ t.type \in {"slot_action", "metrics", "set_lora"}
      <4>1. PICK t \in Range(Joined) : /\ Told(t.id, "final") \/ Told(t.id, "error")
                                       /\ t.type \in {"slot_action", "metrics", "set_lora"}
        BY <3>3
      <4>2. id = t.id /\ kind \in Answer
        BY <2>2, <4>1, ToldOnce DEF Answer
      <4> QED
        BY <2>1, <4>1, <4>2 DEF Owned, OwnedTask, Expected
    <3> QED
      BY <3>1, <3>2, <3>3, MainSends
  <2>4. Awaited'
    BY <1>1, <2>1, <2>2, <2>3, ToldAwaited
  <2>5. Counted' /\ PartsFirst'
    <3>1. CASE kind = "partial" /\ UNCHANGED answers
      BY <1>1, <1>2, <2>1, <2>2, <3>1, PartCounts
    <3>2. CASE kind \in Answer /\ answers' = [answers EXCEPT ![id] = answers[id] + 1]
      BY <1>1, <1>2, <2>1, <2>2, <3>2, AnsweredCounts
    <3> QED
      BY <2>2, <3>1, <3>2
  <2> QED
    BY <1>3, <1>5, <2>4, <2>5
<1> QED
  BY <1>1, <1>6, <1>7

-----------------------------------------------------------------------------
(* The handlers                                                            *)

\* A handler's ids stay, go or are drawn.
LEMMA HandlerIds ==
  ASSUME TypeInv, NEW c \in Clients, Client(c)
  PROVE  ids(c)' \subseteq ids(c) \/ \A id \in ids(c)' : id \in Int /\ next_id <= id
<1>0. Draws(c) => \A id \in ids(c)' : id \in Int /\ next_id <= id
  BY HandlerTypesOf DEF Draws
<1>1. ASSUME NEW r \in Requests, BeginRequest(c, r)
      PROVE  ids(c)' = {} \/ Draws(c)
  <2>1. CASE Draws(c)
    BY <2>1
  <2>2. CASE pc'[c] # "add_waiting"
    <3>1. first_id'[c] = NoTask
      BY <1>1, <2>2, HandlerTypesOf DEF BeginRequest, TypeInv, IdsDrawn
    <3> QED
      BY <3>1 DEF ids
  <2>3. CASE Quiet(c)
    BY <2>2, <2>3 DEF Quiet, Opening
  <2> QED
    BY <1>1, <2>1, <2>3, BeginRequestMoves
<1>2. CASE Post(c)
  <2>1. CASE ~PostsFirst(req[c])
    BY <1>2, <2>1 DEF Post, ids
  <2>2. CASE PostsFirst(req[c])
    <3>1. c \in Opening'
      BY <1>2, <2>2, HandlerTypesOf DEF Post, Opening
    <3>2. Draws(c)
      BY <1>2, <3>1, PostMoves DEF Quiet
    <3> QED
      BY <1>0, <3>2
  <2> QED
    BY <1>0, <2>1, <2>2
<1>3. CASE AddWaiting(c) \/ CancelSend(c) \/ CancelRemove(c)
  BY <1>3 DEF AddWaiting, CancelSend, CancelRemove, ids
<1>4. ASSUME Finish(c) \/ UNCHANGED <<req, first_id>>
      PROVE  ids(c)' \subseteq ids(c)
  <2>1. Finish(c) => first_id'[c] = NoTask
    BY HandlerTypesOf DEF Finish
  <2> QED
    BY <1>4, <2>1 DEF ids
<1>5. CASE Recv(c) \/ PostCancel(c) \/ RemoveWaiting(c)
  BY <1>4, <1>5 DEF Recv, PostCancel, RemoveWaiting, ReceiveStream, ReceivePlain, CountFinished, StartCancel
<1>6. CASE \E r \in Requests : BeginRequest(c, r)
  BY <1>0, <1>1, <1>6
<1> QED
  BY <1>2, <1>3, <1>5, <1>6 DEF Client

\* Ids stay apart, and only what is opened is waited for.
LEMMA UndisturbedKept ==
  ASSUME TypeInv, BrokerInv, Undisturbed, NEW c \in Clients, Client(c),
         pc'[c] \notin {"cancel", "cancel_remove", "post_cancel"}
  PROVE  Undisturbed'
<1>1. /\ OthersStay(c) /\ UNCHANGED answers
      /\ \/ /\ Opened' = Opened /\ \E X : waiting_task_ids' = waiting_task_ids \ X
         \/ /\ Opened' = Opened \cup ids(c) /\ waiting_task_ids' = waiting_task_ids \cup ids(c)
  <2>1. CASE Quiet(c)
    BY <2>1, OpenedMoves DEF Quiet
  <2>2. CASE Draws(c)
    <3>1. waiting_task_ids' = waiting_task_ids \ {}
      BY <2>2 DEF Draws
    <3> QED
      BY <2>2, <3>1, OpenedMoves DEF Draws
  <2>3. CASE Opens(c)
    BY <2>3, OpenedMoves DEF Opens
  <2> QED
    BY <2>1, <2>2, <2>3, HandlerMoves
<1>2. \A d \in Clients : \A id \in ids(d) : id \in Nat /\ id < next_id
  BY HeldInt
<1>3. \A d, e \in Clients : d # e => ids(d)' \cap ids(e)' = {}
  <2>1. \A d \in Clients \ {c} : ids(d)' \cap ids(c)' = {}
    <3>1. next_id \in Nat
      BY HeldInt
    <3> QED
      BY <1>1, <1>2, <3>1, HandlerIds DEF OthersStay, Undisturbed
  <2> QED
    BY <1>1, <2>1 DEF OthersStay, Undisturbed
<1>4. \A d \in Clients : pc'[d] \notin {"cancel", "cancel_remove", "post_cancel"}
  BY <1>1 DEF OthersStay, Undisturbed
<1>5. /\ waiting_task_ids' \subseteq Opened'
      /\ \A id \in TaskIds : answers'[id] # 0 => id \in Opened'
  BY <1>1 DEF Undisturbed
<1> QED
  BY <1>3, <1>4, <1>5 DEF Undisturbed

\* A handler that was not waiting for results leaves the results of the others alone; one that
\* starts to wait has not got any.
LEMMA OthersAwait ==
  ASSUME Awaited, Counted, PartsFirst, NEW c \in Clients, OthersStay(c), pc[c] # "recv",
         UNCHANGED <<queue_results, answers>>, \A d \in Clients \ {c} : n_finished'[d] = n_finished[d],
         pc'[c] # "remove" => n_finished'[c] = 0,
         pc'[c] = "recv" => \A id \in ids(c)' : answers[id] = 0
  PROVE  Awaited' /\ Counted' /\ PartsFirst'
<1>1. Awaited'
  BY DEF Awaited, OthersStay, Expected, Answer
<1>2. PartsFirst'
  BY DEF PartsFirst, AnswerAt, Answer
<1>3. \A id : AnswerQueued(id)' <=> AnswerQueued(id)
  BY DEF AnswerQueued, AnswerAt, Answer
<1>4. \A d \in Clients \ {c} : Taken(d)' = Taken(d)
  BY <1>3 DEF Taken, OthersStay
<1>5. pc'[c] = "recv" => Taken(c)' = {}
  BY DEF Taken
<1>6. Counted'
  BY <1>4, <1>5, FS_EmptySet DEF Counted, OthersStay
<1> QED
  BY <1>1, <1>2, <1>6

\* Tasks that are added have an owner, and owners of tasks stay.
LEMMA OwnersStay ==
  ASSUME Owned, NEW c \in Clients, OthersStay(c), UNCHANGED <<state, id_task, data>>,
         \A t \in Range(Joined') : t \in Range(Joined) \/ OwnedTask(t)',
         \A id \in HeldIds : Asks(c, id) => Asks(c, id)' /\ req'[c] = req[c]
  PROVE  Owned'
<1>1. \A d \in Clients, id \in HeldIds : Asks(d, id) => Asks(d, id)' /\ req'[d] = req[d]
  BY DEF OthersStay, Asks, PostsFirst
<1>2. \A t \in Range(Joined) : t.id \in HeldIds
  BY DEF HeldIds, IdsOf
<1>3. \A t \in Range(Joined) : OwnedTask(t)'
  BY <1>1, <1>2 DEF Owned, OwnedTask
<1>4. Processing' = Processing /\ \A s \in Processing : id_task[s] \in HeldIds
  BY DEF Processing, HeldIds
<1>5. \A s \in Processing : OwnedSlot(s)'
  <2> SUFFICES ASSUME NEW s \in Processing PROVE OwnedSlot(s)'
    OBVIOUS
  <2>1. PICK d \in Clients : Asks(d, id_task[s]) /\ req[d] = data[s]
    BY DEF Owned, OwnedSlot
  <2>2. Asks(d, id_task[s])' /\ req'[d] = data'[s]
    BY <1>1, <1>4, <2>1 DEF Asks, ids, PostsFirst
  <2> QED
    BY <2>2 DEF Owned, OwnedSlot
<1> QED
  BY <1>3, <1>4, <1>5 DEF Owned

\* post() puts tasks in the queue.
LEMMA PostPuts ==
  ASSUME TypeInv, NEW c \in Clients, Post(c)
  PROVE  \A t \in Range(Joined') : \/ t \in Range(Joined)
                                   \/ /\ t.type = req[c].kind /\ t.data = req[c] /\ req[c] \in Requests
                                      /\ t.id # NoTask => t.id \in ids(c)'
<1> DEFINE New(t) == /\ t.type = req[c].kind /\ t.data = req[c] /\ req[c] \in Requests
                     /\ t.id # NoTask => t.id \in ids(c)'
<1>1. /\ req[c] \in Requests /\ req[c].n \in Nat \ {0} /\ req[c].kind \in Kinds
      /\ UNCHANGED <<queue_tasks_deferred, req>>
  BY HandlerTypesOf, ConstantTypes DEF Post, TypeInv, IdsDrawn
<1>2. ASSUME NEW b \in Seq(TaskSet), queue_tasks' = queue_tasks \o b \/ queue_tasks' = b \o queue_tasks,
             \A i \in 1 .. Len(b) : New(b[i])
      PROVE  \A t \in Range(Joined') : t \in Range(Joined) \/ New(t)
  <2>1. /\ queue_tasks' \in Seq(TaskSet) /\ Range(queue_tasks') = Range(queue_tasks) \cup Range(b)
    <3>1. queue_tasks \in Seq(TaskSet)
      BY QueueTypes
    <3>2. CASE queue_tasks' = queue_tasks \o b
      BY <1>2, <3>1, <3>2, RangeConcatenation, ConcatType
    <3>3. CASE queue_tasks' = b \o queue_tasks
      <4>1. queue_tasks' \in Seq(TaskSet)
        BY <1>2, <3>1, <3>3, ConcatType
      <4>2. Range(queue_tasks') = Range(b) \cup Range(queue_tasks)
        BY <1>2, <3>1, <3>3, RangeConcatenation
      <4> QED
        BY <4>1, <4>2
    <3> QED
      BY <1>2, <3>2, <3>3
  <2>2. Range(Joined') = Range(queue_tasks') \cup Range(queue_tasks_deferred)
    BY <1>1, <2>1, QueueTypes, RangeConcatenation DEF Joined
  <2>3. \A t \in Range(b) : New(t)
    BY <1>2, RangeAtPlaces
  <2> QED
    BY <2>1, <2>2, <2>3, QueueTypes
<1>3. CASE PostsFirst(req[c])
  <2> DEFINE t == Task(req[c].kind, next_id, NoTask, req[c])
             b == <<t>>
  <2>1. /\ queue_tasks' = Append(queue_tasks, t) /\ pc[c] = "post"
        /\ first_id' = [first_id EXCEPT ![c] = next_id]
    BY <1>3 DEF Post
  <2>2. next_id \in TaskIds
    <3>1. c \in PendingPosts
      BY <1>3, <2>1 DEF PendingPosts
    <3>2. IsFiniteSet(PendingPosts) /\ Cardinality(PendingPosts) \in Nat
      BY ServerAssumption, FS_Subset, FS_CardinalityType DEF PendingPosts
    <3>3. Cardinality(PendingPosts) # 0
      BY <3>1, <3>2, FS_EmptySet
    <3> QED
      BY <3>2, <3>3, ConstantTypes DEF TypeInv, TypeOK, HandlerTypes, IdsDrawn, TaskIds
  <2>3. first_id'[c] = next_id /\ next_id # NoTask /\ req'[c] = req[c]
    BY <1>1, <2>1, <2>2, HandlerTypesOf DEF NoTask
  <2>4. next_id \in ids(c)'
    BY <1>1, <2>2, <2>3 DEF ids, TaskIds
  <2>5. t \in TaskSet /\ t.type = req[c].kind /\ t.data = req[c] /\ t.id = next_id
    BY <1>1, <2>2 DEF Task, TaskSet
  <2> HIDE DEF t
  <2>6. New(t)
    BY <1>1, <2>4, <2>5
  <2>7. b \in Seq(TaskSet) /\ queue_tasks' = queue_tasks \o b /\ \A i \in 1 .. Len(b) : b[i] = t
    BY <2>1, <2>5, QueueTypes
  <2> HIDE DEF b, New
  <2>8. \A i \in 1 .. Len(b) : New(b[i])
    BY <2>6, <2>7
  <2> QED
    BY <1>2, <2>7, <2>8 DEF New
<1>4. CASE ~PostsFirst(req[c])
  <2> DEFINE n == req[c].n
             f == first_id[c]
             b == [k \in 1 .. n |-> Task(req[c].kind, f + k - 1, NoTask, req[c])]
  <2>1. /\ queue_tasks' = queue_tasks \o b \/ queue_tasks' = b \o queue_tasks
        /\ pc[c] = "post" /\ UNCHANGED first_id
    BY <1>4 DEF Post
  <2>2. f # NoTask /\ f \in TaskIds
    BY <1>4, <2>1, HandlerTypesOf DEF TypeInv, IdsDrawn
  <2>3. \A k \in 1 .. n : f + k - 1 \in TaskIds /\ f + k - 1 \in ids(c)
    BY <1>1, <2>2, IdsType DEF ids, TaskIds
  <2>4. \A k \in 1 .. n : LET t == Task(req[c].kind, f + k - 1, NoTask, req[c])
                          IN  /\ t \in TaskSet /\ t.type = req[c].kind /\ t.data = req[c]
                              /\ t.id \in ids(c)
    BY <1>1, <2>3 DEF Task, TaskSet
  <2>5. ids(c)' = ids(c)
    BY <1>1, <2>1 DEF ids
  <2>6. b \in Seq(TaskSet) /\ Len(b) = n
    BY <1>1, <2>4
  <2>7. \A k \in 1 .. Len(b) : New(b[k])
    BY <1>1, <2>4, <2>5, <2>6
  <2> HIDE DEF b, New
  <2> QED
    BY <1>2, <2>1, <2>6, <2>7 DEF New
<1> QED
  BY <1>3, <1>4

\* A request begins, opens ids, posts tasks or ends: nobody's results change.
LEMMA QuietAwaited ==
  ASSUME NothingCancelled, ServerInv, AwaitedInv, NEW c \in Clients,
         (\E r \in Requests : BeginRequest(c, r)) \/ AddWaiting(c) \/ Post(c) \/ RemoveWaiting(c)
  PROVE  AwaitedInv'
<1> USE DEF ServerInv, AwaitedInv
<1>1. Client(c) /\ OthersStay(c)
  BY HandlerMoves DEF Client, Quiet, Draws, Opens
<1>2. /\ UNCHANGED <<queue_results, answers, state, id_task, data>> /\ pc[c] \notin {"recv", "cancel"}
      /\ pc'[c] \notin {"cancel", "cancel_remove", "post_cancel"}
  BY HandlerTypesOf DEF BeginRequest, AddWaiting, Post, RemoveWaiting, Finish, slotVars, respVars, NothingCancelled
<1>3. /\ \A d \in Clients \ {c} : n_finished'[d] = n_finished[d]
      /\ pc'[c] # "remove" => n_finished'[c] = 0
  <2>1. n_finished \in [Clients -> Nat]
    BY DEF TypeInv, TypeOK, HandlerTypes
  <2>2. CASE RemoveWaiting(c)
    BY <2>1, <2>2 DEF RemoveWaiting, Finish
  <2>3. CASE ~RemoveWaiting(c)
    <3>1. pc[c] # "remove" /\ UNCHANGED n_finished
      BY <2>3 DEF BeginRequest, AddWaiting, Post
    <3> QED
      BY <1>2, <3>1 DEF Counted
  <2> QED
    BY <2>2, <2>3
<1>4. pc'[c] = "recv" => \A id \in ids(c)' : answers[id] = 0
  <2>1. CASE AddWaiting(c)
    <3>1. ids(c)' = ids(c) /\ ids(c) \subseteq TaskIds /\ \A id \in ids(c) : id \notin Opened
      BY <2>1, IdsType DEF AddWaiting, ids, Opened
    <3> QED
      BY <3>1 DEF Undisturbed
  <2>2. CASE Post(c)
    <3>1. CASE PostsFirst(req[c])
      BY <2>2, <3>1, HandlerTypesOf DEF Post
    <3>2. CASE ~PostsFirst(req[c])
      <4>1. c \in Unposted /\ ids(c)' = ids(c) /\ ids(c) \subseteq TaskIds
        BY <2>2, <3>2, IdsType DEF Post, Unposted, ids
      <4> QED
        BY <4>1 DEF BrokerInv, Untouched
    <3> QED
      BY <3>1, <3>2
  <2>3. CASE RemoveWaiting(c) \/ \E r \in Requests : BeginRequest(c, r)
    BY <2>3, HandlerTypesOf DEF BeginRequest, RemoveWaiting, Finish
  <2> QED
    BY <2>1, <2>2, <2>3
<1>5. Awaited' /\ Counted' /\ PartsFirst'
  BY <1>1, <1>2, <1>3, <1>4, OthersAwait
<1>6. Undisturbed'
  BY <1>1, <1>2, UndisturbedKept
<1>7. \A id : Asks(c, id) => Asks(c, id)' /\ req'[c] = req[c]
  <2>1. CASE AddWaiting(c)
    BY <2>1, HandlerTypesOf DEF AddWaiting, Asks, ids, PostsFirst
  <2>2. CASE ~AddWaiting(c)
    BY <2>2 DEF BeginRequest, Post, RemoveWaiting, Asks
  <2> QED
    BY <2>1, <2>2
<1>8. \A t \in Range(Joined') : t \in Range(Joined) \/ OwnedTask(t)'
  <2>1. CASE Post(c)
    <3> SUFFICES ASSUME NEW t \in Range(Joined'), t \notin Range(Joined)
                 PROVE  OwnedTask(t)'
      OBVIOUS
    <3>1. /\ t.type = req[c].kind /\ t.data = req[c] /\ req[c] \in Requests
          /\ t.id # NoTask => t.id \in ids(c)'
      BY <2>1, PostPuts
    <3>2. UNCHANGED req /\ (pc'[c] = "recv" \/ (pc'[c] = "add_waiting" /\ PostsFirst(req[c])))
      BY <2>1, HandlerTypesOf DEF Post
    <3>3. t.type # "cancel"
      BY <3>1 DEF NothingCancelled
    <3>4. t.id # NoTask => Asks(c, t.id)' /\ req'[c] = t.data
      BY <3>1, <3>2 DEF Asks, PostsFirst
    <3> QED
      BY <3>1, <3>3, <3>4 DEF OwnedTask
  <2>2. CASE ~Post(c)
    <3>1. UNCHANGED <<queue_tasks, queue_tasks_deferred>>
      BY <2>2 DEF BeginRequest, AddWaiting, RemoveWaiting, taskVars
    <3> QED
      BY <3>1 DEF Joined
  <2> QED
    BY <2>1, <2>2
<1>9. Owned'
  BY <1>1, <1>2, <1>7, <1>8, OwnersStay
<1> QED
  BY <1>5, <1>6, <1>9

-----------------------------------------------------------------------------
(* recv()                                                                  *)

\* The place i is taken out of the queue of results, the first with one of the handler's ids.
Takes(c, i) ==
  /\ i \in DOMAIN queue_results /\ queue_results[i].id \in ids(c)
  /\ \A j \in 1 .. i - 1 : queue_results[j].id \notin ids(c)
  /\ queue_results' = RemoveAt(queue_results, i)

\* The others move up.
OldPlace(i, j) == IF j < i THEN j ELSE j + 1
NewPlace(i, l) == IF l < i THEN l ELSE l - 1

LEMMA TakenPlaces ==
  ASSUME TypeInv, NEW c, NEW i, Takes(c, i)
  PROVE  /\ \A j \in DOMAIN queue_results' :
              /\ OldPlace(i, j) \in DOMAIN queue_results \ {i}
              /\ queue_results'[j] = queue_results[OldPlace(i, j)]
         /\ \A l \in DOMAIN queue_results \ {i} :
              /\ NewPlace(i, l) \in DOMAIN queue_results'
              /\ queue_results'[NewPlace(i, l)] = queue_results[l]
         /\ \A j \in DOMAIN queue_results', l \in DOMAIN queue_results \ {i} :
              OldPlace(i, j) < l => j < NewPlace(i, l)
         /\ \A j \in DOMAIN queue_results : j \in Int /\ (j < i => queue_results[j].id \notin ids(c))
<1>1. /\ queue_results \in Results /\ Len(queue_results) \in Nat
      /\ DOMAIN queue_results = 1 .. Len(queue_results) /\ i \in 1 .. Len(queue_results)
  BY DEF TypeInv, TypeOK, ServerTypes, Results, Takes
<1>2. /\ DOMAIN queue_results' = 1 .. Len(queue_results) - 1
      /\ \A j \in 1 .. Len(queue_results) - 1 : queue_results'[j] = queue_results[IF j < i THEN j ELSE j + 1]
  BY <1>1, RemoveAtPlaces DEF Results, Takes
<1>3. \A j \in DOMAIN queue_results' : /\ OldPlace(i, j) \in DOMAIN queue_results \ {i}
                                       /\ queue_results'[j] = queue_results[OldPlace(i, j)]
  BY <1>1, <1>2 DEF OldPlace
<1>4. \A l \in DOMAIN queue_results \ {i} : /\ NewPlace(i, l) \in DOMAIN queue_results'
                                            /\ queue_results'[NewPlace(i, l)] = queue_results[l]
  <2> SUFFICES ASSUME NEW l \in DOMAIN queue_results \ {i}
               PROVE  /\ NewPlace(i, l) \in DOMAIN queue_results'
                      /\ queue_results'[NewPlace(i, l)] = queue_results[l]
    OBVIOUS
  <2>1. CASE l < i
    BY <1>1, <1>2, <2>1 DEF NewPlace
  <2>2. CASE ~(l < i)
    <3>1. l - 1 \in 1 .. Len(queue_results) - 1 /\ ~(l - 1 < i) /\ (l - 1) + 1 = l
      BY <1>1, <2>2
    <3> QED
      BY <1>2, <2>2, <3>1 DEF NewPlace
  <2> QED
    BY <2>1, <2>2
<1>5. \A j \in DOMAIN queue_results', l \in DOMAIN queue_results \ {i} :
        OldPlace(i, j) < l => j < NewPlace(i, l)
  BY <1>1, <1>2 DEF OldPlace, NewPlace
<1>6. \A j \in DOMAIN queue_results : j \in Int /\ (j < i => queue_results[j].id \notin ids(c))
  BY <1>1 DEF Takes
<1> QED
  BY <1>3, <1>4, <1>5, <1>6

\* The result that is taken is one the handler expects.
LEMMA TakenExpected ==
  ASSUME Undisturbed, Awaited, NEW c \in Clients, NEW i, Takes(c, i)
  PROVE  queue_results[i].kind \in Expected(req[c])
BY DEF Undisturbed, Awaited, Takes

\* A queued answer has no other one, and nothing of its task behind it.
LEMMA OneAnswer ==
  ASSUME TypeInv, AnswersLast, Awaited, NEW i \in DOMAIN queue_results, queue_results[i].kind \in Answer,
         NEW j \in DOMAIN queue_results, i < j
  PROVE  queue_results[j].id # queue_results[i].id
<1>1. queue_results[j].kind \in {"partial"} \cup Answer
  BY DEF Awaited, Expected, Answer
<1> QED
  BY <1>1 DEF AnswersLast, AnswersInOrder, Answer

\* A part that stays keeps its answer, since the one taken is the first of its handler's.
LEMMA PartsRemain ==
  ASSUME TypeInv, PartsFirst, NEW c \in Clients, NEW i, Takes(c, i), UNCHANGED answers
  PROVE  PartsFirst'
<1> SUFFICES ASSUME NEW k \in DOMAIN queue_results'
             PROVE  IF queue_results'[k].kind \in Answer
                      THEN answers[queue_results'[k].id] # 0
                      ELSE \/ answers[queue_results'[k].id] = 0
                           \/ \E j \in DOMAIN queue_results' :
                                /\ k < j /\ queue_results'[j].id = queue_results'[k].id
                                /\ queue_results'[j].kind \in Answer
  BY DEF PartsFirst, AnswerAt, Answer
<1> DEFINE o == OldPlace(i, k)
<1>1. o \in DOMAIN queue_results \ {i} /\ queue_results'[k] = queue_results[o] /\ o \in Int
  BY TakenPlaces
<1> HIDE DEF o
<1>2. IF queue_results[o].kind \in Answer
        THEN answers[queue_results[o].id] # 0
        ELSE \/ answers[queue_results[o].id] = 0
             \/ \E l \in DOMAIN queue_results : o < l /\ AnswerAt(l, queue_results[o].id)
  BY <1>1 DEF PartsFirst
<1>3. ASSUME NEW l \in DOMAIN queue_results, o < l, AnswerAt(l, queue_results[o].id)
      PROVE  \E j \in DOMAIN queue_results' : /\ k < j /\ queue_results'[j].id = queue_results'[k].id
                                              /\ queue_results'[j].kind \in Answer
  <2>1. queue_results[l].id = queue_results[o].id /\ queue_results[l].kind \in Answer
    BY <1>3 DEF AnswerAt
  <2>2. l # i
    BY <1>1, <1>3, <2>1, TakenPlaces DEF Takes
  <2>3. /\ NewPlace(i, l) \in DOMAIN queue_results' /\ queue_results'[NewPlace(i, l)] = queue_results[l]
        /\ k < NewPlace(i, l)
    BY <1>3, <2>2, TakenPlaces DEF o
  <2> QED
    BY <1>1, <2>1, <2>3
<1> QED
  BY <1>1, <1>2, <1>3

\* Taking an answer counts it, taking a part does not; the other handlers are not concerned.
LEMMA TakenCounts ==
  ASSUME TypeInv, AnswersLast, Undisturbed, Awaited, PartsFirst, NEW c \in Clients, NEW i, Takes(c, i),
         UNCHANGED answers, OthersStay(c)
  PROVE  /\ \A d \in Clients \ {c} : Taken(d)' = Taken(d)
         /\ ids(c)' = ids(c) =>
              Taken(c)' = IF queue_results[i].kind \in Answer THEN Taken(c) \cup {queue_results[i].id} ELSE Taken(c)
         /\ queue_results[i].kind \in Answer => queue_results[i].id \in ids(c) \ Taken(c)
<1> DEFINE x == queue_results[i].id
<1>1. i \in DOMAIN queue_results /\ x \in ids(c)
  BY DEF Takes
<1>2. ASSUME NEW y, AnswerQueued(y)'
      PROVE  AnswerQueued(y) /\ (queue_results[i].kind \in Answer => y # x)
  <2>1. PICK j \in DOMAIN queue_results' : queue_results'[j].id = y /\ queue_results'[j].kind \in Answer
    BY <1>2 DEF AnswerQueued, AnswerAt, Answer
  <2> DEFINE o == OldPlace(i, j)
  <2>2. o \in DOMAIN queue_results \ {i} /\ queue_results'[j] = queue_results[o] /\ o \in Int /\ i \in Int
    BY <1>1, TakenPlaces
  <2> HIDE DEF o
  <2>3. queue_results[o].id = y /\ queue_results[o].kind \in Answer
    BY <2>1, <2>2
  <2>4. queue_results[i].kind \in Answer => y # x
    <3>1. CASE o < i
      BY <1>1, <2>2, <2>3, <3>1, TakenPlaces
    <3>2. CASE i < o
      BY <1>1, <2>2, <2>3, <3>2, OneAnswer
    <3> QED
      BY <2>2, <3>1, <3>2
  <2> QED
    BY <2>2, <2>3, <2>4 DEF AnswerQueued, AnswerAt
<1>3. ASSUME NEW y, AnswerQueued(y), y = x => queue_results[i].kind \notin Answer
      PROVE  AnswerQueued(y)'
  <2>1. PICK l \in DOMAIN queue_results : queue_results[l].id = y /\ queue_results[l].kind \in Answer
    BY <1>3 DEF AnswerQueued, AnswerAt
  <2>2. l # i
    BY <1>3, <2>1
  <2>3. NewPlace(i, l) \in DOMAIN queue_results' /\ queue_results'[NewPlace(i, l)] = queue_results[l]
    BY <2>1, <2>2, TakenPlaces
  <2> QED
    BY <2>1, <2>3 DEF AnswerQueued, AnswerAt, Answer
<1>4. queue_results[i].kind \in Answer => AnswerQueued(x) /\ answers[x] # 0
  BY <1>1 DEF AnswerQueued, AnswerAt, PartsFirst
<1>5. \A d \in Clients \ {c} : Taken(d)' = Taken(d)
  <2> SUFFICES ASSUME NEW d \in Clients \ {c}, NEW y \in ids(d)
               PROVE  AnswerQueued(y)' <=> AnswerQueued(y)
    BY DEF Taken, OthersStay
  <2>1. y # x
    BY <1>1 DEF Undisturbed
  <2> QED
    BY <1>2, <1>3, <2>1
<1>6. ASSUME ids(c)' = ids(c)
      PROVE  Taken(c)' = IF queue_results[i].kind \in Answer THEN Taken(c) \cup {x} ELSE Taken(c)
  <2>1. CASE queue_results[i].kind \in Answer
    <3>1. \A y : AnswerQueued(y)' <=> AnswerQueued(y) /\ y # x
      BY <1>2, <1>3, <2>1
    <3> QED
      BY <1>1, <1>4, <1>6, <2>1, <3>1 DEF Taken
  <2>2. CASE queue_results[i].kind \notin Answer
    <3>1. \A y : AnswerQueued(y)' <=> AnswerQueued(y)
      BY <1>2, <1>3, <2>2
    <3> QED
      BY <1>6, <2>2, <3>1 DEF Taken
  <2> QED
    BY <2>1, <2>2
<1> QED
  BY <1>1, <1>4, <1>5, <1>6 DEF Taken

\* A handler that has taken as many answers as it has ids leaves nothing behind.
LEMMA LastTaken ==
  ASSUME TypeInv, AnswersLast, Undisturbed, Awaited, Counted, PartsFirst, NEW c \in Clients, NEW i, Takes(c, i),
         pc[c] = "recv", queue_results[i].kind \in Answer, n_finished[c] + 1 >= req[c].n
  PROVE  /\ \A id \in ids(c) : answers[id] # 0
         /\ \A j \in DOMAIN queue_results \ {i} : queue_results[j].id \notin ids(c)
<1> DEFINE x == queue_results[i].id
<1>1. i \in DOMAIN queue_results /\ x \in ids(c) /\ answers[x] # 0 /\ AnswerQueued(x)
  BY DEF Takes, PartsFirst, AnswerQueued, AnswerAt
<1>2. IsFiniteSet(ids(c)) /\ Cardinality(ids(c)) = req[c].n /\ req[c].n \in Nat
  <2>1. first_id[c] # NoTask
    BY <1>1 DEF ids
  <2>2. first_id[c] \in Int /\ req[c].n \in Nat \ {0}
    BY <2>1, HandlerTypesOf, ConstantTypes DEF TypeInv, IdsDrawn, TaskIds
  <2> DEFINE a == first_id[c]
             b == first_id[c] + req[c].n - 1
  <2>3. ids(c) = a .. b /\ a \in Int /\ b \in Int /\ a <= b /\ b - a + 1 = req[c].n
    BY <2>1, <2>2 DEF ids
  <2> HIDE DEF a, b
  <2>4. IsFiniteSet(a .. b) /\ Cardinality(a .. b) = b - a + 1
    BY <2>3, FS_Interval
  <2> QED
    BY <2>2, <2>3, <2>4
<1>3. Taken(c) \subseteq ids(c) /\ x \notin Taken(c) /\ IsFiniteSet(Taken(c))
  <2>1. Taken(c) \subseteq ids(c) /\ x \notin Taken(c)
    BY <1>1 DEF Taken
  <2> QED
    BY <1>2, <2>1, FS_Subset
<1>4. Taken(c) \cup {x} = ids(c)
  <2>1. IsFiniteSet(Taken(c) \cup {x}) /\ Cardinality(Taken(c) \cup {x}) = Cardinality(Taken(c)) + 1
    BY <1>3, FS_AddElement
  <2>2. Taken(c) \cup {x} \subseteq ids(c)
    BY <1>1, <1>3
  <2>3. Cardinality(Taken(c) \cup {x}) <= Cardinality(ids(c)) /\ Cardinality(Taken(c) \cup {x}) \in Nat
    BY <1>2, <2>1, <2>2, FS_Subset, FS_CardinalityType
  <2>4. Cardinality(Taken(c)) = n_finished[c] /\ Cardinality(Taken(c)) \in Nat
    BY <1>3, FS_CardinalityType DEF Counted
  <2>5. Cardinality(Taken(c) \cup {x}) = Cardinality(ids(c))
    BY <1>2, <2>1, <2>3, <2>4
  <2> QED
    BY <1>2, <2>2, <2>5, FS_Subset
<1>5. \A id \in ids(c) : answers[id] # 0 /\ (id = x \/ ~AnswerQueued(id))
  BY <1>1, <1>4 DEF Taken
<1>6. ASSUME NEW j \in DOMAIN queue_results \ {i}, queue_results[j].id \in ids(c)
      PROVE  FALSE
  <2> DEFINE y == queue_results[j].id
  <2>1. i < j /\ i \in Int /\ j \in Int
    BY <1>1, <1>6, TakenPlaces
  <2>2. y # x
    BY <1>1, <2>1, OneAnswer
  <2>3. ~AnswerQueued(y) /\ answers[y] # 0
    BY <1>5, <1>6, <2>2
  <2>4. queue_results[j].kind \notin Answer
    BY <1>6, <2>3 DEF AnswerQueued, AnswerAt
  <2>5. \E l \in DOMAIN queue_results : AnswerAt(l, y)
    BY <1>6, <2>3, <2>4 DEF PartsFirst
  <2> QED
    BY <2>3, <2>5 DEF AnswerQueued
<1> QED
  BY <1>5, <1>6

\* What a handler does with a result when nothing is cancelled: it goes on, counts, or is done.
LEMMA RecvMoves ==
  ASSUME NothingCancelled, TypeInv, Undisturbed, Awaited, NEW c \in Clients, Recv(c)
  PROVE  /\ pc[c] = "recv" /\ UNCHANGED <<answers, queue_tasks, queue_tasks_deferred, state, id_task, data>>
         /\ \E i : /\ Takes(c, i)
                   /\ \/ /\ queue_results[i].kind \notin Answer
                         /\ UNCHANGED <<pc, req, first_id, n_finished>>
                      \/ /\ queue_results[i].kind \in Answer
                         /\ n_finished' = [n_finished EXCEPT ![c] = @ + 1]
                         /\ UNCHANGED <<pc, req, first_id>>
                      \/ /\ queue_results[i].kind \in Answer /\ n_finished[c] + 1 >= req[c].n
                         /\ \/ pc' = [pc EXCEPT ![c] = "remove"] /\ UNCHANGED <<req, first_id, n_finished>>
                            \/ Finish(c)
<1>1. pc[c] = "recv" /\ UNCHANGED <<answers, queue_tasks, queue_tasks_deferred, state, id_task, data>>
  BY DEF Recv, taskVars, slotVars
<1>2. PICK i : /\ Takes(c, i)
               /\ IF req[c].kind = "completion"
                    THEN IF req[c].stream THEN ReceiveStream(c, queue_results[i].kind)
                                          ELSE ReceivePlain(c, queue_results[i].kind)
                    ELSE /\ pc' = [pc EXCEPT ![c] = "remove"]
                         /\ UNCHANGED <<req, first_id, n_finished, to_cancel, cancels>>
  BY DEF Recv, Takes
<1>3. queue_results[i].kind \in Expected(req[c])
  BY <1>2, TakenExpected
<1>4. n_finished[c] \in Nat /\ req[c] \in Requests /\ req[c].n \in Nat
  BY <1>1, HandlerTypesOf, ConstantTypes DEF TypeInv, TypeOK, HandlerTypes, IdsDrawn
<1>5. CASE req[c].kind # "completion"
  <2>1. req[c].n = 1
    BY <1>4, <1>5, ServerAssumption
  <2>2. n_finished[c] + 1 >= req[c].n
    BY <1>4, <2>1
  <2> QED
    BY <1>1, <1>2, <1>3, <1>5, <2>2 DEF Expected
<1>6. ASSUME CountFinished(c)
      PROVE  \/ /\ n_finished' = [n_finished EXCEPT ![c] = @ + 1] /\ UNCHANGED <<pc, req, first_id>>
             \/ /\ n_finished[c] + 1 >= req[c].n
                /\ \/ pc' = [pc EXCEPT ![c] = "remove"] /\ UNCHANGED <<req, first_id, n_finished>>
                   \/ Finish(c)
  BY <1>4, <1>6 DEF CountFinished
<1>7. CASE req[c].kind = "completion" /\ req[c].stream
  <2>1. queue_results[i].kind = "partial" \/ queue_results[i].kind = "final"
    BY <1>3, <1>7 DEF Expected
  <2>2. CASE queue_results[i].kind = "partial"
    BY <1>1, <1>2, <1>7, <2>2 DEF ReceiveStream, NothingCancelled, Answer
  <2>3. CASE queue_results[i].kind = "final"
    <3>1. CountFinished(c)
      BY <1>2, <1>7, <2>3 DEF ReceiveStream, NothingCancelled
    <3> QED
      BY <1>1, <1>2, <1>6, <2>3, <3>1 DEF Answer
  <2> QED
    BY <2>1, <2>2, <2>3
<1>8. CASE req[c].kind = "completion" /\ ~req[c].stream
  <2>1. queue_results[i].kind = "final"
    BY <1>3, <1>8 DEF Expected
  <2>2. CountFinished(c)
    BY <1>2, <1>8, <2>1 DEF ReceivePlain
  <2> QED
    BY <1>1, <1>2, <1>6, <2>1, <2>2 DEF Answer
<1> QED
  BY <1>5, <1>7, <1>8

\* A handler takes results until it has all its answers, and then nothing is left for it.
LEMMA RecvAwaited ==
  ASSUME NothingCancelled, ServerInv, AwaitedInv, NEW c \in Clients, Recv(c)
  PROVE  AwaitedInv'
<1> USE DEF ServerInv, AwaitedInv
<1>1. OthersStay(c) /\ Client(c)
  BY RestMoves DEF Quiet, Client
<1>2. pc[c] = "recv" /\ UNCHANGED <<answers, queue_tasks, queue_tasks_deferred, state, id_task, data>>
  BY RecvMoves
<1>3. n_finished \in [Clients -> Nat] /\ pc \in [Clients -> Pcs]
  BY HandlerTypesOf DEF TypeInv, TypeOK, HandlerTypes
<1> DEFINE GoesOn(i) == /\ queue_results[i].kind \notin Answer
                        /\ UNCHANGED <<pc, req, first_id, n_finished>>
           Counts(i) == /\ queue_results[i].kind \in Answer
                        /\ n_finished' = [n_finished EXCEPT ![c] = @ + 1]
                        /\ UNCHANGED <<pc, req, first_id>>
           Leaves(i) == /\ queue_results[i].kind \in Answer /\ n_finished[c] + 1 >= req[c].n
                        /\ \/ pc' = [pc EXCEPT ![c] = "remove"] /\ UNCHANGED <<req, first_id, n_finished>>
                           \/ Finish(c)
<1>4. PICK i : Takes(c, i) /\ (GoesOn(i) \/ Counts(i) \/ Leaves(i))
  BY RecvMoves
<1>5. /\ \A d \in Clients \ {c} : n_finished'[d] = n_finished[d]
      /\ pc'[c] \in {"recv", "remove", "idle"}
      /\ pc'[c] = "idle" => n_finished'[c] = 0
  BY <1>2, <1>3, <1>4 DEF Finish
<1>6. Undisturbed' /\ PartsFirst'
  BY <1>1, <1>2, <1>4, <1>5, UndisturbedKept, PartsRemain
<1>7. \A d \in Clients \ {c} : Taken(d)' = Taken(d)
  BY <1>1, <1>2, <1>4, TakenCounts
<1>8. \A t \in Range(Joined') : t \in Range(Joined)
  BY <1>2 DEF Joined
<1>9. CASE GoesOn(i) \/ Counts(i)
  <2>1. pc'[c] = "recv" /\ req'[c] = req[c] /\ ids(c)' = ids(c)
    BY <1>2, <1>9 DEF ids
  <2>2. Awaited'
    <3> SUFFICES ASSUME NEW j \in DOMAIN queue_results'
                 PROVE  \E d \in Clients : /\ pc'[d] = "recv" /\ queue_results'[j].id \in ids(d)'
                                           /\ queue_results'[j].kind \in Expected(req[d])'
      BY DEF Awaited
    <3>1. OldPlace(i, j) \in DOMAIN queue_results /\ queue_results'[j] = queue_results[OldPlace(i, j)]
      BY <1>4, TakenPlaces
    <3>2. PICK d \in Clients : /\ pc[d] = "recv" /\ queue_results'[j].id \in ids(d)
                               /\ queue_results'[j].kind \in Expected(req[d])
      BY <3>1 DEF Awaited
    <3>3. pc'[d] = "recv" /\ ids(d)' = ids(d) /\ req'[d] = req[d]
      BY <1>1, <2>1, <3>2 DEF OthersStay
    <3> QED
      BY <3>2, <3>3 DEF Expected, Answer
  <2>3. n_finished'[c] = Cardinality(Taken(c)')
    <3> DEFINE x == queue_results[i].id
    <3>1. /\ Taken(c)' = IF queue_results[i].kind \in Answer THEN Taken(c) \cup {x} ELSE Taken(c)
          /\ queue_results[i].kind \in Answer => x \in ids(c) \ Taken(c)
      BY <1>1, <1>2, <1>4, <2>1, TakenCounts
    <3>2. n_finished[c] = Cardinality(Taken(c)) /\ IsFiniteSet(Taken(c))
      <4>1. Taken(c) \subseteq TaskIds /\ IsFiniteSet(TaskIds)
        BY IdsType, ConstantTypes, FS_Interval DEF Taken, TaskIds
      <4> QED
        BY <1>2, <4>1, FS_Subset DEF Counted
    <3> HIDE DEF x
    <3>3. CASE GoesOn(i)
      BY <3>1, <3>2, <3>3
    <3>4. CASE Counts(i)
      BY <1>3, <3>1, <3>2, <3>4, FS_AddElement
    <3> QED
      BY <1>9, <3>3, <3>4
  <2>4. Counted'
    BY <1>1, <1>5, <1>7, <2>1, <2>3 DEF Counted, OthersStay
  <2>5. \A id \in HeldIds : Asks(c, id) => Asks(c, id)' /\ req'[c] = req[c]
    BY <2>1 DEF Asks
  <2>6. Owned'
    BY <1>1, <1>2, <1>8, <2>5, OwnersStay
  <2> QED
    BY <1>6, <2>2, <2>4, <2>6
<1>10. CASE Leaves(i)
  <2>1. /\ \A id \in ids(c) : answers[id] # 0
        /\ \A j \in DOMAIN queue_results \ {i} : queue_results[j].id \notin ids(c)
    BY <1>2, <1>4, <1>10, LastTaken
  <2>2. Awaited'
    <3> SUFFICES ASSUME NEW j \in DOMAIN queue_results'
                 PROVE  \E d \in Clients : /\ pc'[d] = "recv" /\ queue_results'[j].id \in ids(d)'
                                           /\ queue_results'[j].kind \in Expected(req[d])'
      BY DEF Awaited
    <3>1. /\ OldPlace(i, j) \in DOMAIN queue_results \ {i}
          /\ queue_results'[j] = queue_results[OldPlace(i, j)]
      BY <1>4, TakenPlaces
    <3>2. PICK d \in Clients : /\ pc[d] = "recv" /\ queue_results'[j].id \in ids(d)
                               /\ queue_results'[j].kind \in Expected(req[d])
      BY <3>1 DEF Awaited
    <3>3. d # c
      BY <2>1, <3>1, <3>2
    <3>4. pc'[d] = "recv" /\ ids(d)' = ids(d) /\ req'[d] = req[d]
      BY <1>1, <3>2, <3>3 DEF OthersStay
    <3> QED
      BY <3>2, <3>4 DEF Expected, Answer
  <2>3. pc'[c] # "recv"
    BY <1>2, <1>3, <1>10 DEF Finish
  <2>4. Counted'
    BY <1>1, <1>5, <1>7, <2>3 DEF Counted, OthersStay
  <2>5. \A id \in HeldIds : ~Asks(c, id)
    BY <2>1, IdsType DEF Asks, BrokerInv, Untouched
  <2>6. Owned'
    BY <1>1, <1>2, <1>8, <2>5, OwnersStay
  <2> QED
    BY <1>6, <2>2, <2>4, <2>6
<1> QED
  BY <1>4, <1>9, <1>10

\* Every step keeps it.
LEMMA AwaitedNext ==
  ASSUME NothingCancelled, ServerInv, AwaitedInv, [Next]_vars
  PROVE  AwaitedInv'
<1>1. CASE MainThread \/ Terminate \/ UNCHANGED vars
  BY <1>1, MainAwaited
<1>2. ASSUME NEW c \in Clients, Client(c)
      PROVE  AwaitedInv'
  <2>1. ~CancelSend(c) /\ ~CancelRemove(c) /\ ~PostCancel(c)
    BY DEF AwaitedInv, Undisturbed, CancelSend, CancelRemove, PostCancel
  <2> QED
    BY <1>2, <2>1, QuietAwaited, RecvAwaited DEF Client
<1> QED
  BY <1>1, <1>2 DEF Next

\* As long as nothing is cancelled and llama_decode does not fail, every queued result has a
\* handler blocked in recv() that takes it: when a handler has taken the last of its answers no
\* part and no answer of its tasks is behind it, and the server holds none of them any more.
THEOREM EveryResultAwaited ==
  ASSUME NothingCancelled
  PROVE  Spec => []NoOrphanResult
<1> DEFINE Inv == ServerInv /\ AwaitedInv
<1>1. Init => Inv
  <2>1. Init => AnswersLast
    BY DEF Init, AnswersLast, AnswersInOrder
  <2> QED
    BY <2>1, TypeInit, OnceInit, BrokerInit, AwaitedInit DEF ServerInv
<1>2. Inv /\ [Next]_vars => Inv'
  <2>1. ~DecodeMayFail
    BY DEF NothingCancelled
  <2>2. ServerInv /\ [Next]_vars => ServerInv'
    BY <2>1, TypeNext, OnceNext, BrokerNext, LastNext DEF ServerInv
  <2> QED
    BY <2>2, AwaitedNext
<1>3. Inv => NoOrphanResult
  BY DEF AwaitedInv, Awaited, NoOrphanResult
<1> HIDE DEF Inv
<1> QED
  BY <1>1, <1>2, <1>3, PTL DEF Spec

=============================================================================
